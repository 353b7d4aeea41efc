--------------------------- MODULE MCConversation ---------------------------
(* Values for Conversation. *)
EXTENDS Conversation

Line(profile, key, value) == [profile |-> profile, key |-> key, value |-> value]
Option(option, value) == [option |-> option, value |-> value]

MCFileAt(path) == IF path \in {Word("a.png"), Word("link.png")} THEN Word("a.png") ELSE Bad

MCLines ==
  {Line("", "next", Token("canvas", Null)), Line("", "next", Token("slow", Word("left"))),
   Line("", "next", Token("world", Null)), Line("", "scale_mode", Word("fit")),
   Line("", "canvas.cache.workers", Num(9)),
   Line("canvas", "mode", Word("span")), Line("canvas", "walk", Word("line")),
   Line("canvas", "overview_scale", Decimal(1234567)), Line("canvas", "max_tile_count", Num(9)),
   Line("push", "duration_ms", Num(300)), Line("slow", "type", Word("push")),
   Line("slow", "mode", Word("pan")), Line("world", "fallback", Token("push", Word("up"))),
   Line("", "back", Token("slow", Null)), Line("slow", "type", Word("canvas")),
   Line("push", "direction", Word("up")), Line("canvas", "tile_count", Num(257))}
MCVariables ==
  {Line("canvas", "walk", Word("strip")), Line("canvas", "mode", Word("collage")),
   Line("", "scale_mode", Word("stretch"))}
MCArguments ==
  {Option("transition", Token("canvas", Word("vertical"))),
   Option("transition", Token("push", Word("right"))), Option("transition", Token("world", Null)),
   Option("easing", Word("linear")), Option("mode", Word("span")), Option("mode", Word("screen")),
   Option("walk", Word("strip")), Option("zoom_in_ms", Num(70)), Option("tile_count", Num(5)),
   Option("tile_count", Word("auto")), Option("max_tile_count", Num(7)),
   Option("scale_mode", Word("center")), Option("output", Pair("DP-1", Word("link.png"))),
   Option("output", Word("DP-2")), Option("", Word("a.png")), Option("", Word("back")),
   Option("", Num(0)), Option("workers", Num(2))}

Canvased(scale) ==
  Obj([type |-> Word("canvas"), mode |-> Word("collage"), walk |-> Word("line"),
       overview_scale |-> scale])
MCRawRequests ==
  {Obj([type |-> Word("set"), outputs |-> Target, transition |-> Canvased(Decimal(5000000))]),
   Obj([type |-> Word("set"), outputs |-> Target, transition |-> Token("world", Null),
        allow_partial |-> Bool(TRUE)]),
   Obj([type |-> Word("set"), outputs |-> Target, transition |-> Canvased(Word("0.25"))]),
   Obj([type |-> Word("set"), outputs |-> Target, transition |-> Canvased(Word("auto"))]),
   Obj([type |-> Word("set"), outputs |-> Obj([name \in {} |-> Null])]),
   Obj([type |-> Word("wallpaper"), action |-> Word("quarentine")]),
   Obj([type |-> Word("wallpaper"), transition |-> Canvased(Word("0.25")),
        action |-> Obj([type |-> Word("replace"), index |-> Num(0)])]),
   Obj([type |-> Word("cache"), action |-> Word("warm"), workers |-> Num(0)]),
   Obj([type |-> Word("renderer_canvas_set")])}
=============================================================================
