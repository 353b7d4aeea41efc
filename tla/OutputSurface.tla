----------------------------- MODULE OutputSurface -----------------------------
(***************************************************************************)
(* One output of the renderer (murald/src/surface.rs): its EGL surface,    *)
(* its wallpaper texture, the transition being shown, the queue behind it. *)
(*                                                                         *)
(* A surface is a record, an operation gives the set of its possible       *)
(* outcomes: the surface afterwards and whether the operation succeeded.   *)
(* A picture is known by its image: a texture, a decoded buffer and a      *)
(* screen all name the image they depict.                                  *)
(***************************************************************************)
EXTENDS Integers, Sequences, FiniteSets

CONSTANTS Images, NoImage,
          Sizes,         \* of an output; 0 is not configured
          MaxPrepared,   \* MAX_PREPARED_PER_OUTPUT
          Faults         \* subset of {"load", "upload", "create", "draw", "swap", "instant"}

ASSUME OutputSurfaceAssumption ==
    /\ NoImage \notin Images
    /\ Sizes \subseteq Nat \ {0}
    /\ MaxPrepared \in Nat \ {0}

Powers == {"unknown", "on", "off", "unsupported"}
Kinds == {"pairwise", "canvas", "world"}
Pictures == Images \cup {NoImage}

\* aux counts the tile textures of a scene, all of them as one; decode is the job
\* that a canvas shown without its target waits for; elapsed, that the duration is over.
NoActive == [kind |-> "none", old |-> NoImage, new |-> NoImage, target |-> NoImage,
             aux |-> 0, decode |-> 0, elapsed |-> FALSE]
Active == [kind : Kinds, old : Pictures, new : Pictures, target : Images,
           aux : {0, 1}, decode : Nat, elapsed : BOOLEAN]
Queued == [id : Nat \ {0}, image : Images, kind : Kinds, aux : {0, 1}, content : Pictures,
           state : {"path", "decoding", "decoded", "uploaded", "failed"}]
Jobs == [id : Nat \ {0}, image : Images]

\* textures is the number of textures of this output alive in GL; shown what its last
\* frame depicts; sent the decode jobs of the operation; frame the frame callback:
\* requested, and committed once a swap took it along.
Surfaces == [power : Powers, size : Sizes \cup {0}, egl : Sizes \cup {0}, recreate : BOOLEAN,
             image : Pictures, wall : Pictures, active : Active \cup {NoActive},
             queue : Seq(Queued), frame : {"none", "requested", "committed"},
             pending : BOOLEAN, textures : Int, shown : Pictures \cup {"nothing", "clear", "midway"},
             sent : SUBSET Jobs]

NewSurface(power) ==
    [power |-> power, size |-> 0, egl |-> 0, recreate |-> FALSE, image |-> NoImage,
     wall |-> NoImage, active |-> NoActive, queue |-> <<>>, frame |-> "none",
     pending |-> FALSE, textures |-> 0, shown |-> "nothing", sent |-> {}]

Done(s) == [surface |-> s, ok |-> TRUE]
Failed(s) == [surface |-> s, ok |-> FALSE]
May(fault, outcome) == IF fault \in Faults THEN {outcome} ELSE {}

\* Mutant: power that is not known yet counts as on.
AllowsEgl_Unknown(s) == s.power # "off"

AllowsEgl(s) == s.power \in {"on", "unsupported"}
IsRunning(s) == s.active # NoActive
Texture(picture) == IF picture = NoImage THEN 0 ELSE 1
TexturesIn(queue) ==
    Cardinality({i \in DOMAIN queue : queue[i].aux = 1})
      + Cardinality({i \in DOMAIN queue : queue[i].state = "uploaded"})

Owned(s) == Texture(s.wall) + Texture(s.active.old) + Texture(s.active.new) + s.active.aux
            + TexturesIn(s.queue)

(* The EGL surface *)

DestroyEgl(s) == [s EXCEPT !.size = 0, !.egl = 0, !.recreate = FALSE]

EnsureEgl(s, size) ==
    IF ~AllowsEgl(s) THEN {Failed(s)}
    ELSE IF s.size = size /\ s.egl # 0 /\ ~s.recreate THEN {Done(s)}
    ELSE {Done([DestroyEgl(s) EXCEPT !.size = size, !.egl = size])}
         \cup May("create", Failed(DestroyEgl(s)))

DeferRender(s) == [s EXCEPT !.pending = TRUE]
MarkRecreate(s) == [s EXCEPT !.recreate = TRUE, !.pending = TRUE]
DeferConfigure(s, size) == [s EXCEPT !.size = size, !.pending = TRUE]

\* request_frame, damage and swap: the swap commits a frame callback requested before it.
WithFrame(s) == [s EXCEPT !.frame = IF @ = "none" THEN "requested" ELSE @]
\* Mutant: the frame callback is requested after the swap.
Swapped_FrameLater(s, picture) == [s EXCEPT !.shown = picture, !.pending = FALSE]

Swapped(s, picture) ==
    [s EXCEPT !.shown = picture, !.pending = FALSE,
              !.frame = IF @ = "requested" THEN "committed" ELSE @]

Draw(s, picture, animated) ==
    IF ~AllowsEgl(s) THEN {Done(DeferRender(s))}
    ELSE IF s.size = 0 THEN {Done(s)}
    ELSE UNION {LET t == IF animated THEN WithFrame(e.surface) ELSE e.surface IN
                IF ~e.ok THEN {e}
                ELSE {Done(Swapped(t, picture))}
                     \cup May("draw", Failed(e.surface)) \cup May("swap", Failed(t))
                : e \in EnsureEgl(s, s.size)}

RenderClear(s) == Draw(s, "clear", FALSE)
RenderCurrent(s) == Draw(s, IF s.wall = NoImage THEN "clear" ELSE s.wall, FALSE)

\* A frame of a transition, whose pictures are all there, and the request for the next.
DrawTransition(s) == Draw(s, "midway", TRUE)

(* Textures, decodes and the queue *)

CanUpload(s) == AllowsEgl(s) /\ s.egl # 0

\* The outcomes of upload_wallpaper_texture, and of load followed by it.
Uploads(s) == IF CanUpload(s) THEN {TRUE} \cup May("upload", FALSE) ELSE {FALSE}
LoadsAndUploads(s) == Uploads(s) \cup May("load", FALSE)

Lookahead(s) ==
    LET next == {i \in DOMAIN s.queue : i <= MaxPrepared /\ s.queue[i].state = "path"} IN
    [s EXCEPT !.queue = [i \in DOMAIN @ |-> IF i \in next THEN [@[i] EXCEPT !.state = "decoding"]
                                                          ELSE @[i]],
              !.sent = @ \cup {[id |-> s.queue[i].id, image |-> s.queue[i].image] : i \in next}]

\* Mutant: the latest wall first.
Enqueue_Front(s, queued) == Lookahead([s EXCEPT !.queue = <<queued>> \o @])

Enqueue(s, queued) == Lookahead([s EXCEPT !.queue = Append(@, queued)])

\* Mutant: textures uploaded ahead are forgotten.
ClearQueue_KeepsUploaded(s) == [s EXCEPT !.queue = <<>>]

ClearQueue(s) == [s EXCEPT !.queue = <<>>, !.textures = @ - TexturesIn(s.queue)]

\* Mutant: a result is taken for the first wall that waits for one.
AcceptDecode_First(s, job, ok) ==
    LET first == {i \in DOMAIN s.queue : /\ s.queue[i].state = "decoding"
                                         /\ \A j \in 1 .. (i - 1) : s.queue[j].state # "decoding"}
    IN [s EXCEPT !.queue = [i \in DOMAIN @ |->
        IF i \notin first THEN @[i]
        ELSE [@[i] EXCEPT !.state = IF ok THEN "decoded" ELSE "failed",
                          !.content = IF ok THEN job.image ELSE NoImage]]]

AcceptDecode(s, job, ok) ==
    [s EXCEPT !.queue = [i \in DOMAIN @ |->
        IF @[i].id # job.id THEN @[i]
        ELSE [@[i] EXCEPT !.state = IF ok THEN "decoded" ELSE "failed",
                          !.content = IF ok THEN job.image ELSE NoImage]]]

FirstDecoded(s) ==
    {i \in DOMAIN s.queue : /\ s.queue[i].state = "decoded"
                            /\ \A j \in 1 .. (i - 1) : s.queue[j].state # "decoded"}

UploadOne(s) ==
    IF ~AllowsEgl(s) \/ FirstDecoded(s) = {} THEN {s}
    ELSE {[s EXCEPT !.queue = [i \in DOMAIN @ |->
                        IF i \in FirstDecoded(s)
                        THEN [@[i] EXCEPT !.state = IF ok THEN "uploaded" ELSE "failed"]
                        ELSE @[i]],
                    !.textures = IF ok THEN @ + 1 ELSE @] : ok \in Uploads(s)}

(* The active transition *)

\* Mutant: the output goes on reporting the old wall.
Settle_KeepsName(s) ==
    LET a == s.active IN
    IF ~IsRunning(s) THEN s
    ELSE [s EXCEPT !.active = NoActive, !.wall = IF a.new # NoImage THEN a.new ELSE a.old,
                   !.textures = @ - a.aux - (IF a.new # NoImage THEN Texture(a.old) ELSE 0)]

\* A pending canvas that is overtaken has no new picture: the old one stays.
Settle(s) ==
    LET a == s.active IN
    IF ~IsRunning(s) THEN s
    ELSE IF a.new # NoImage
    THEN [s EXCEPT !.active = NoActive, !.wall = a.new, !.image = a.target,
                   !.textures = @ - a.aux - Texture(a.old)]
    ELSE [s EXCEPT !.active = NoActive, !.wall = IF a.old # NoImage THEN a.old ELSE @,
                   !.textures = @ - a.aux]

RestoreOld(s) ==
    LET a == s.active IN
    IF ~IsRunning(s) THEN s
    ELSE [s EXCEPT !.active = NoActive, !.wall = IF a.old # NoImage THEN a.old ELSE @,
                   !.textures = @ - a.aux - Texture(a.new)]

Discard(s) ==
    [s EXCEPT !.active = NoActive,
              !.textures = @ - s.active.aux - Texture(s.active.old) - Texture(s.active.new)]

\* The textures of content and aux exist already.  A transition can be over by its
\* first frame when its duration is short.
Starts(s, kind, image, content, aux, decode) ==
    LET t == Settle(s) IN
    {[t EXCEPT !.wall = NoImage,
               !.active = [kind |-> kind, old |-> t.wall, new |-> content, target |-> image,
                           aux |-> aux, decode |-> decode, elapsed |-> elapsed]]
     : elapsed \in {FALSE} \cup May("instant", TRUE)}

SetCut(s, image, content) ==
    LET t == Settle(ClearQueue(s)) IN
    [t EXCEPT !.wall = content, !.image = image, !.textures = @ - Texture(t.wall)]

\* A queued canvas without enough thumbnails in the cache is shown as a cut.
StartQueued(s, q, content) ==
    IF q.kind = "canvas"
    THEN {SetCut(s, q.image, content)}
         \cup Starts([s EXCEPT !.textures = @ + 1], "canvas", q.image, content, 1, 0)
    ELSE Starts(s, q.kind, q.image, content, q.aux, 0)

\* texture_for_queued: what is not decoded yet is loaded here, and what failed is skipped.
TextureFor(s, q) ==
    CASE q.state = "uploaded" -> {TRUE}
      [] q.state = "decoded" -> Uploads(s)
      [] q.state = "failed" -> {FALSE}
      [] OTHER -> LoadsAndUploads(s)
ContentOf(q) == IF q.content # NoImage THEN q.content ELSE q.image

\* The first wall of the queue, taken from it, and what becomes of it.
Taken(s) == Lookahead([s EXCEPT !.queue = Tail(@)])
Shown(s) ==
    LET q == Head(s.queue) IN
    {Done(t) : t \in StartQueued([Taken(s) EXCEPT !.textures = IF q.state = "uploaded" THEN @ ELSE @ + 1],
                                q, ContentOf(q))}
Skipped(s) == [Taken(s) EXCEPT !.textures = @ - Head(s.queue).aux]

\* Mutant: one wall that cannot be shown ends the draining.
TakeNext_OneTry(s, next) ==
    UNION {IF ready THEN Shown(s) ELSE {Failed(Skipped(s))}
           : ready \in TextureFor(Taken(s), Head(s.queue))}

\* start_next_queued: next is what the loop does with a wall fewer.
TakeNext(s, next) ==
    UNION {IF ready THEN Shown(s) ELSE next[Skipped(s)] : ready \in TextureFor(Taken(s), Head(s.queue))}

StartNexts[waiting \in Nat] ==
    IF waiting = 0 THEN [s \in Surfaces |-> {Failed(s)}]
    ELSE [s \in Surfaces |-> IF s.queue = <<>> THEN {Failed(s)} ELSE TakeNext(s, StartNexts[waiting - 1])]
StartNext(s) == StartNexts[Len(s.queue)][s]

\* Until its target is there a canvas stays short of the zoom in.
IsFinished(s) == s.active.elapsed /\ (s.active.decode = 0 \/ s.active.new # NoImage)

\* render_active, where a transition that is over gives way to a queued one: next is
\* what is rendered then, with a wall fewer.
RenderOver(s, next) ==
    UNION {IF n.ok THEN next[n.surface] ELSE RenderCurrent(n.surface) : n \in StartNext(Settle(s))}
RenderWith(s, next) ==
    IF ~IsRunning(s) THEN RenderCurrent(s)
    ELSE IF ~AllowsEgl(s) THEN {Done(DeferRender(s))}
    ELSE IF ~IsFinished(s) THEN DrawTransition(s)
    ELSE RenderOver(s, next)

RenderActives[waiting \in Nat] ==
    IF waiting = 0 THEN [s \in Surfaces |-> RenderWith(s, [t \in Surfaces |-> RenderCurrent(t)])]
    ELSE [s \in Surfaces |-> RenderWith(s, RenderActives[waiting - 1])]
RenderActive(s) == RenderActives[Len(s.queue)][s]

\* The target of a canvas arrives: one whose time was over is set back to the zoom in.
AcceptTarget(s, job, ok) ==
    IF ~ok THEN {Failed(RestoreOld(s))}
    ELSE {IF uploaded
          THEN Done([s EXCEPT !.active.new = job.image, !.active.decode = 0,
                              !.active.elapsed = FALSE, !.textures = @ + 1])
          ELSE Failed(RestoreOld(s)) : uploaded \in Uploads(s)}

Destroy(s) ==
    LET t == Discard(ClearQueue(s)) IN
    DestroyEgl([t EXCEPT !.wall = NoImage, !.textures = @ - Texture(t.wall)])
================================================================================
