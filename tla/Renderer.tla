-------------------------------- MODULE Renderer --------------------------------
(***************************************************************************)
(* The renderer child: the outputs it draws on, the decode workers and the *)
(* one thread that handles Wayland events, decode results and the          *)
(* supervisor's requests, and after each dispatch renders what is pending  *)
(* (murald/src: main.rs, render_control.rs, apply.rs, transitions/,        *)
(* outputs.rs, output_power.rs, wayland_handlers.rs, decode.rs).           *)
(*                                                                         *)
(* Handlers run to completion.  What EGL, the files and the clock do in    *)
(* one is chosen among the outcomes of OutputSurface; a batch stops at its *)
(* first failure, and any of its outputs may be the first to fail.         *)
(***************************************************************************)
EXTENDS OutputSurface

CONSTANTS Outputs,
          Requests,   \* subset of {"cut", "pairwise", "canvas", "world", "clear"}
          Events,     \* subset of {"configure", "power", "unmanaged", "unplug", "exit"}
          MaxQueue,   \* bound: no set is queued behind so many
          MaxJobs     \* bound: no set comes while so many decodes are out

VARIABLES surfaces,    \* the surface of each output there is
          jobs,        \* decode jobs sent and not yet answered
          dispatched,  \* events were handled since the last render pass
          lost,        \* textures left alive by a surface that is gone
          refused      \* the kind of set this step answered with an error, if any

vars == <<surfaces, jobs, dispatched, lost, refused>>

Live == DOMAIN surfaces

\* Ids come from one counter of 64 bits; any that is not in use stands for the next.
UsedIds == {j.id : j \in jobs}
           \cup UNION {{q.id : q \in {surfaces[o].queue[i] : i \in DOMAIN surfaces[o].queue}}
                        \cup {surfaces[o].active.decode} : o \in Live}
FreshIds(targets) ==
    LET free == (1 .. Cardinality(UsedIds) + Cardinality(targets)) \ UsedIds IN
    CHOOSE f \in [targets -> free] : \A a, b \in targets : f[a] = f[b] => a = b

\* The event is over: the surfaces are as in changed, their new jobs sent.
Handled(changed, answered) ==
    /\ surfaces' = [o \in Live |-> [changed[o] EXCEPT !.sent = {}]]
    /\ jobs' = (jobs \ answered) \cup UNION {changed[o].sent : o \in Live}
    /\ dispatched' = TRUE
    /\ UNCHANGED lost

Becomes(o, s) == Handled([surfaces EXCEPT ![o] = s], {}) /\ refused' = "none"

(* Requests of the supervisor *)

Renderable(targets) == targets \subseteq Live /\ \A o \in targets : AllowsEgl(surfaces[o])
Idle(targets) == {o \in targets : ~IsRunning(surfaces[o])}
HasRoom(targets) == /\ Cardinality(jobs) < MaxJobs
                    /\ \A o \in targets : Len(surfaces[o].queue) < MaxQueue
Prepared(targets) == \A o \in targets : TRUE \in LoadsAndUploads(surfaces[o])

WithTextures(s, n) == [s EXCEPT !.textures = @ + n]

\* outcomes is what each target can come to.
Products(targets, outcomes) ==
    {r \in [targets -> UNION {outcomes[o] : o \in targets}] : \A o \in targets : r[o] \in outcomes[o]}

Broken(r) == {o \in DOMAIN r : ~r[o].ok}

\* The runs of a loop over targets that returns at the first failure.
Attempts(targets, outcomes) ==
    {r \in UNION {Products(tried, outcomes) : tried \in SUBSET targets} :
        IF Broken(r) = {} THEN DOMAIN r = targets ELSE Cardinality(Broken(r)) = 1}

\* After a loop without rollback: the output that failed is marked, and the n textures
\* made for each target it did not reach are forgotten.
Forgotten(targets, r, n) ==
    [o \in Live |-> IF o \notin targets THEN surfaces[o]
                    ELSE IF o \notin DOMAIN r THEN WithTextures(surfaces[o], n)
                    ELSE IF r[o].ok THEN r[o].surface ELSE MarkRecreate(r[o].surface)]

Refuses(kind) == /\ UNCHANGED <<surfaces, jobs, lost>>
                 /\ dispatched' = TRUE
                 /\ refused' = kind

Answers(r, kind) == refused' = IF Broken(r) = {} THEN "none" ELSE kind

CutAll(kind, images) ==
    LET targets == DOMAIN images
        first == [o \in targets |->
                    RenderCurrent(SetCut(WithTextures(surfaces[o], 1), images[o], images[o]))]
    IN /\ Prepared(targets)
       /\ \E r \in Attempts(targets, first) :
            Handled(Forgotten(targets, r, 1), {}) /\ Answers(r, kind)

\* Once all targets to start have started, the others are queued behind what they show.
WithQueued(f, kind, images, aux) ==
    LET behind == DOMAIN images \ Idle(DOMAIN images)
        id == FreshIds(DOMAIN images)
    IN [o \in Live |->
            IF o \in behind
            THEN Enqueue(WithTextures(f[o], aux),
                         [id |-> id[o], image |-> images[o], kind |-> kind, aux |-> aux,
                          content |-> NoImage, state |-> "path"])
            ELSE f[o]]

FirstFrames(s, kind, image, content, aux, decode) ==
    UNION {RenderActive(t) : t \in Starts(s, kind, image, content, aux, decode)}

SetCutWallpapers(images) ==
    Renderable(DOMAIN images) /\ CutAll("cut", images)

\* Mutant: only the output whose first frame failed goes back.
RolledBack_FailedOnly(targets, r) ==
    {[o \in Live |-> IF o \in Broken(r) THEN MarkRecreate(RestoreOld(r[o].surface))
                     ELSE IF o \in DOMAIN r THEN r[o].surface ELSE surfaces[o]]}

\* start_pairwise_uploads: all started outputs go back, and are drawn again.
RolledBack(targets, r) ==
    {[o \in Live |-> IF o \in Broken(r) THEN MarkRecreate(RestoreOld(r[o].surface))
                     ELSE IF o \notin DOMAIN r THEN surfaces[o]
                     ELSE IF again[o].ok THEN again[o].surface
                     ELSE MarkRecreate(again[o].surface)]
     : again \in Products(DOMAIN r \ Broken(r),
                          [o \in DOMAIN r |-> RenderActive(RestoreOld(r[o].surface))])}

SetPairwiseWallpapers(images) ==
    LET starts == Idle(DOMAIN images)
        first == [o \in starts |->
                    FirstFrames(WithTextures(surfaces[o], 1), "pairwise", images[o], images[o], 0, 0)]
    IN /\ Renderable(DOMAIN images)
       /\ HasRoom(DOMAIN images)
       /\ Prepared(starts)
       /\ \E r \in Attempts(starts, first) :
            /\ Answers(r, "pairwise")
            /\ IF Broken(r) = {}
               THEN Handled(WithQueued(Forgotten(starts, r, 0), "pairwise", images, 0), {})
               ELSE \E back \in RolledBack(starts, r) : Handled(back, {})

\* Starts are uploaded with their tiles, the tiles of queued targets before any starts.
SetWorldWallpapers(images) ==
    LET starts == Idle(DOMAIN images)
        first == [o \in starts |->
                    FirstFrames(WithTextures(surfaces[o], 2), "world", images[o], images[o], 1, 0)]
    IN /\ Renderable(DOMAIN images)
       /\ HasRoom(DOMAIN images)
       /\ Prepared(DOMAIN images)
       /\ \E r \in Attempts(starts, first) :
            /\ Answers(r, "world")
            /\ LET f == Forgotten(starts, r, 2)
               IN Handled(IF Broken(r) = {} THEN WithQueued(f, "world", images, 1) ELSE f, {})

\* Thumbnails come from the cache alone.  Without enough of them the request is a cut;
\* with them the transition starts before its target is decoded.
SetCanvasWallpapers(images) ==
    LET starts == Idle(DOMAIN images)
        id == FreshIds(DOMAIN images)
        Job(o) == [id |-> id[o], image |-> images[o]]
        first == [o \in starts |->
                    FirstFrames(WithTextures(surfaces[o], 1), "canvas", images[o], NoImage, 1, id[o])]
        Sent(f) == [o \in Live |-> IF o \in starts THEN [f[o] EXCEPT !.sent = @ \cup {Job(o)}]
                                                   ELSE f[o]]
    IN /\ Renderable(DOMAIN images)
       /\ HasRoom(DOMAIN images)
       /\ \/ /\ \A o \in starts : CanUpload(surfaces[o])
             /\ \E r \in Attempts(starts, first) :
                  /\ Answers(r, "canvas")
                  /\ LET f == Sent(Forgotten(starts, r, 1))
                     IN Handled(IF Broken(r) = {} THEN WithQueued(f, "canvas", images, 0) ELSE f, {})
          \/ starts # {} /\ CutAll("canvas", images)

Clear(targets) ==
    LET first == [o \in Live |->
                    {IF d.ok THEN Done([d.surface EXCEPT !.wall = NoImage,
                                                         !.textures = @ - Texture(d.surface.wall)])
                     ELSE d : d \in RenderClear([Discard(ClearQueue(surfaces[o]))
                                                 EXCEPT !.image = NoImage])}]
    IN \E r \in Attempts(targets \cap Live, first) :
         /\ Handled(Forgotten(targets \cap Live, r, 0), {})
         /\ Answers(r, "clear")

Batches == UNION {[targets -> Images] : targets \in SUBSET Outputs \ {{}}}

Request ==
    \/ \E images \in Batches :
        \/ "cut" \in Requests /\ SetCutWallpapers(images)
        \/ "pairwise" \in Requests /\ SetPairwiseWallpapers(images)
        \/ "canvas" \in Requests /\ SetCanvasWallpapers(images)
        \/ "world" \in Requests /\ SetWorldWallpapers(images)
    \/ "clear" \in Requests /\ \E targets \in SUBSET Outputs \ {{}} : Clear(targets)
    \* an image is missing, an output unknown, off or not ready, a file does not decode
    \/ \E kind \in Requests \ {"clear"} : Refuses(kind)

(* Decode results *)

\* Every result, also one nobody waits for any more, lets one decoded wall be uploaded.
Pumped(f) ==
    LET eligible == {o \in Live : AllowsEgl(f[o]) /\ FirstDecoded(f[o]) # {}} IN
    IF eligible = {} THEN {f}
    ELSE UNION {{[f EXCEPT ![o] = s] : s \in UploadOne(f[o])} : o \in eligible}

TargetArrives(s, job, ok) ==
    UNION {IF ~t.ok THEN {t.surface}
           ELSE {IF d.ok THEN d.surface ELSE RestoreOld(MarkRecreate(d.surface))
                 : d \in RenderActive(t.surface)}
           : t \in AcceptTarget(s, job, ok)}

DecodeResult(job, ok) ==
    LET waiting == {o \in Live : surfaces[o].active.decode = job.id}
        arrived == IF waiting = {}
                   THEN {[o \in Live |-> AcceptDecode(surfaces[o], job, ok)]}
                   ELSE UNION {{[surfaces EXCEPT ![o] = s] : s \in TargetArrives(surfaces[o], job, ok)}
                               : o \in waiting}
    IN \E f \in arrived : \E pumped \in Pumped(f) :
         Handled(pumped, {job}) /\ refused' = "none"

DecodeResults == \E job \in jobs, ok \in BOOLEAN :
                    (ok \/ "load" \in Faults) /\ DecodeResult(job, ok)

(* Wayland *)

Configure(o, size) ==
    LET s == surfaces[o] IN
    IF ~AllowsEgl(s) THEN Becomes(o, DeferConfigure(s, size))
    ELSE \E e \in EnsureEgl(s, size) :
           Becomes(o, IF e.ok THEN DeferRender(e.surface) ELSE e.surface)

\* A mode event of the power watcher; only one that says off leaves something to draw.
PowerMode(o, power) ==
    /\ surfaces[o].power # "unsupported"
    /\ Becomes(o, [surfaces[o] EXCEPT !.power = power, !.pending = @ \/ power = "off"])

PowerFailed(o) ==
    surfaces[o].power # "unsupported" /\ Becomes(o, [surfaces[o] EXCEPT !.power = "unsupported"])

FrameDone(o) ==
    /\ surfaces[o].frame = "committed"
    /\ Becomes(o, [surfaces[o] EXCEPT !.frame = "none", !.pending = @ \/ IsRunning(surfaces[o])])

NewOutput(o, power) ==
    /\ o \notin Live
    /\ surfaces' = [p \in Live \cup {o} |-> IF p = o THEN NewSurface(power) ELSE surfaces[p]]
    /\ dispatched' = TRUE
    /\ refused' = "none"
    /\ UNCHANGED <<jobs, lost>>

\* The output or its layer surface is gone.
OutputDestroyed(o) ==
    /\ surfaces' = [p \in Live \ {o} |-> surfaces[p]]
    /\ lost' = lost + Destroy(surfaces[o]).textures
    /\ dispatched' = TRUE
    /\ refused' = "none"
    /\ UNCHANGED jobs

Wayland ==
    \/ \E o \in Outputs : \/ NewOutput(o, "unknown")
                          \/ "unmanaged" \in Events /\ NewOutput(o, "unsupported")
    \/ \E o \in Live :
        \/ \E size \in Sizes : ("configure" \in Events \/ surfaces[o].size = 0) /\ Configure(o, size)
        \/ \E power \in IF "power" \in Events THEN {"on", "off", "unknown"} ELSE {"on"} :
             PowerMode(o, power)
        \/ "unmanaged" \in Events /\ PowerFailed(o)
        \/ FrameDone(o)
        \/ "unplug" \in Events /\ OutputDestroyed(o)

\* The clock: the duration of a transition has passed.
Elapse(o) ==
    /\ IsRunning(surfaces[o]) /\ ~surfaces[o].active.elapsed
    /\ surfaces' = [surfaces EXCEPT ![o].active.elapsed = TRUE]
    /\ refused' = "none"
    /\ UNCHANGED <<jobs, dispatched, lost>>

(* The loop *)

Pass(s) == UNION {RenderActive(t) : t \in IF IsRunning(s) THEN UploadOne(s) ELSE {s}}

Fresh == /\ surfaces' = [o \in {} |-> NewSurface("unknown")]
         /\ jobs' = {}
         /\ dispatched' = FALSE
         /\ lost' = 0
         /\ refused' = "none"

\* A pairwise frame that fails ends the renderer; a scene is cut short instead.
RenderPendingSurfaces ==
    LET due == {o \in Live : surfaces[o].pending /\ AllowsEgl(surfaces[o])}
        After(d) == IF d.ok THEN d.surface ELSE Settle(MarkRecreate(d.surface))
    IN /\ dispatched
       /\ \E r \in Products(due, [o \in due |-> Pass(surfaces[o])]) :
            IF \E o \in Broken(r) : r[o].surface.active.kind = "pairwise"
            THEN Fresh
            ELSE /\ surfaces' = [o \in Live |-> IF o \in due THEN [After(r[o]) EXCEPT !.sent = {}]
                                                            ELSE surfaces[o]]
                 /\ jobs' = jobs \cup UNION {r[o].surface.sent : o \in due}
                 /\ dispatched' = FALSE
                 /\ refused' = "none"
                 /\ UNCHANGED lost

\* The control channel is closed or broken: another renderer takes over.
Exit == "exit" \in Events /\ Fresh

Init ==
    /\ surfaces = [o \in {} |-> NewSurface("unknown")]
    /\ jobs = {}
    /\ dispatched = FALSE
    /\ lost = 0
    /\ refused = "none"

Next == Request \/ DecodeResults \/ Wayland \/ (\E o \in Live : Elapse(o))
        \/ RenderPendingSurfaces \/ Exit

Spec == Init /\ [][Next]_vars

(* Fairness: the loop renders after a dispatch, workers answer, time passes, and the   *)
(* compositor calls back for the frames it was given.                                  *)

FairSpec == /\ Spec
            /\ WF_vars(RenderPendingSurfaces)
            /\ WF_vars(DecodeResults)
            /\ \A o \in Outputs : /\ WF_vars(o \in Live /\ FrameDone(o))
                                 /\ WF_vars(o \in Live /\ Elapse(o))

(* Properties *)

TypeOK ==
    /\ Live \subseteq Outputs
    /\ \A o \in Live : surfaces[o] \in Surfaces /\ surfaces[o].sent = {}
    /\ \A j \in jobs : j \in Jobs
    /\ dispatched \in BOOLEAN
    /\ lost \in Nat
    /\ refused \in {"none"} \cup Requests

\* Every texture alive has exactly one owner: the wallpaper, the active transition or
\* the queue.  Each path through set, settle, rollback and unplugging hands textures
\* on or deletes them (surface.rs, pairwise.rs:222).
TexturesOwned == lost = 0 /\ \A o \in Live : surfaces[o].textures = Owned(surfaces[o])

\* Decodes answer in any order, also for work that was replaced: what a queued or an
\* active transition holds is the picture that was asked of it (render_control.rs:31).
DecodedIsRequested ==
    \A o \in Live :
        /\ surfaces[o].active.new \in {NoImage, surfaces[o].active.target}
        /\ \A i \in DOMAIN surfaces[o].queue :
             surfaces[o].queue[i].content \in {NoImage, surfaces[o].queue[i].image}

\* Nothing waits for an event that will not come: the next frame of a running
\* transition is either due or a frame callback for it was committed (surface.rs:348,
\* wayland_handlers.rs:39), and walls are queued behind a running transition only,
\* since an output with none running would never come to its queue (surface.rs:628).
NothingStalls ==
    \A o \in Live :
        /\ IsRunning(surfaces[o]) => surfaces[o].pending \/ surfaces[o].frame = "committed"
        /\ surfaces[o].queue # <<>> => IsRunning(surfaces[o])

\* An output at rest with nothing due shows what the renderer reports of it: the
\* current image, or the clear colour (surface.rs:200).
ScreenIsCurrent ==
    \A o \in Live : LET s == surfaces[o] IN
        ~IsRunning(s) /\ ~s.pending /\ s.egl # 0 =>
            /\ s.wall = s.image
            /\ s.shown = IF s.wall = NoImage THEN "clear" ELSE s.wall

\* A frame that was drawn had the size the compositor configured last
\* (surface.rs:112, surface.rs:130).
EglFollowsConfigure ==
    \A o \in Live : surfaces[o].egl # 0 /\ ~surfaces[o].pending => surfaces[o].egl = surfaces[o].size

\* While an output is off, or not known to be on, no EGL surface is made for it, nothing
\* is drawn on it and no texture uploaded (surface.rs:39).
OffIsUntouched ==
    [][\A o \in Live \cap DOMAIN surfaces' :
         surfaces[o].power \in {"off", "unknown"} /\ surfaces'[o].power = surfaces[o].power =>
            /\ surfaces'[o].egl = surfaces[o].egl
            /\ surfaces'[o].shown = surfaces[o].shown
            /\ surfaces'[o].textures <= surfaces[o].textures]_vars

Waiting(s) == [i \in DOMAIN s.queue |-> <<s.queue[i].id, s.queue[i].image>>]

\* The queue is FIFO: a step takes walls from its front and adds at most one at its
\* end, or clears it.
QueueIsFifo ==
    [][\A o \in Live \cap DOMAIN surfaces' :
         LET old == Waiting(surfaces[o])
             new == Waiting(surfaces'[o])
         IN new = <<>> \/ \E k \in 1 .. Len(old) + 1, n \in 0 .. 1 :
                /\ Len(new) = Len(old) + 1 - k + n
                /\ \A i \in 1 .. Len(old) + 1 - k : new[i] = old[i + k - 1]]_vars

\* A set that is refused leaves every output the wall, the picture and the queue it had,
\* although some of the batch may have started before another failed
\* (docs/architecture.md:138).
RefusalPreserves ==
    [][refused' \in {"cut"} \cup Kinds =>
         \A o \in Live : /\ surfaces'[o].image = surfaces[o].image
                         /\ surfaces'[o].wall = surfaces[o].wall
                         /\ surfaces'[o].active.target = surfaces[o].active.target
                         /\ Waiting(surfaces'[o]) = Waiting(surfaces[o])]_vars

HeadIs(o, id) == o \in Live /\ surfaces[o].queue # <<>> /\ Head(surfaces[o].queue).id = id

\* Every queued wall has its turn.
QueueDrains == \A o \in Outputs, id \in 1 .. MaxQueue + MaxJobs + 1 : HeadIs(o, id) ~> ~HeadIs(o, id)
================================================================================
