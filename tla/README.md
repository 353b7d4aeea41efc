# mural in TLA+

mural draws wallpapers on Wayland outputs. `murald` runs as two processes: a
*supervisor* that owns the public socket, the wallpaper library and all durable
state, and a *renderer child* that owns Wayland, EGL and the transitions.
`muralctl` sends one request and prints one answer.

    muralctl --unix socket--> supervisor --socketpair--> renderer child --> compositor
                                 |  WallpaperControl         | surfaces, decode workers,
                                 |  state files, inotify     | thumbnail cache
                                 +-- systemd READY/WATCHDOG

The modules here model the code under `crates/`; `PROJECT.json` maps every
definition to the lines it stands for.

## Inventory

| component | state | operations | talks to | hard behaviour | what makes it correct |
|---|---|---|---|---|---|
| Wallpaper selection (`mural-core/wallpaper.rs`) | library, favourites, shuffle bag and cursor; per set of outputs a history tape, cursor and offset; eleven state files | load, rescan, add file, draw, next/back, shift, replace, quarantine, favourite, commit, rollback | supervisor (calls), file system | files vanish between a check and a use; a rescan in the middle of a draw; a limited history; several files written one by one | the window that is rendered is the one committed; the bag holds the library with its weights; cursors stay on the tape |
| Wallpaper transaction (`supervisor.rs: render_wallpaper_action`, `restore_current_wallpapers`) | the prepared change | prepare, validate, world gate, move to quarantine, render, commit or roll back | selection, renderer | failure at each step; a renderer that dies inside a request causes a restore inside the request | current changes only to what the renderer accepted; a moved file is either forgotten or put back |
| Supervisor loop (`supervisor.rs: run_loop`, `restart_renderer`) | renderer process and generation, restart count, timers, warm-up table | accept, request, health, restart, restore, watchdog | clients, renderer, systemd | a restart inside a request inside a restart; one thread for everything; timeouts | requests are answered; the watchdog is fed; one renderer at a time |
| World cache (`world_cache.rs`, parts of `supervisor.rs`) | manifest, snapshot, scheduled warm-ups | status, index, route gate, warm-up | selection, detached muralctl processes | two files written one by one; duplicate warm-ups; a stale manifest | a route passes only if its tiles are there; nothing is computed twice at a time |
| Renderer surfaces and queue (`surface.rs`, `transitions/`, `apply.rs`, `render_control.rs`) | per output: EGL surface, current and next image, queue, decode state, pending configure | set, clear, configure, frame, decode result, queue, restore | compositor, decode workers, outputs | callbacks in any order; decode results for a request that was replaced; power changes between two steps | a request accepted is eventually shown or visibly refused; order of the queue; no draw on a dead surface |
| Outputs and power (`outputs.rs`, `output_power.rs`, `wayland_handlers.rs`) | outputs, power mode | add, remove, configure, power on/off | surfaces | configure while off | the newest size is used when power returns |
| Decode workers, preload (`decode.rs`, `image_loader.rs`, `preload.rs`, `cache_control.rs`) | job queue, results | submit, result, failure | surfaces, thumbnail cache | late and reordered results | a result is used for the request it belongs to or dropped |
| Canvas thumbnails (`transitions/canvas/cache.rs`) | entries, in-flight loads, byte budget | request, load, evict, clear | canvas transition, workers | clear races loads | budget kept, no load twice |
| World cache builder (`muralctl world cache compute`) | lists of cells and tiles from five scans, temporary files | index, scan, generate, install | the same files, the library directory | several builders share temporary names; the library changes between scans | a tile shows the walls its name stands for |
| IPC protocol, sockets (`mural-ipc`, `ipc.rs`, `control_ipc.rs`) | none, or one request in progress | parse, format, read, write | clients, renderer | a request is written and read twice on its way; slow clients | each hop reads what the hop before meant; one answer for one request |
| Configuration (`config.rs`), command line (`muralctl/main.rs`) | lines, variables, options | parse, validate, resolve | every request | options that restrict each other, read one by one | a setting reaches the renderer whatever the order |
| systemd, watcher (`systemd_notify.rs`, `library_watcher.rs`) | inotify descriptor | ready, watchdog, drain events | supervisor | lost events | READY after the startup display |
| transition mathematics, canvas layout, EGL calls, packaging | - | - | - | - | no state machine; see "not modelled" |

## Modules

| module | models |
|---|---|
| `LayoutState` | the history tape of one set of outputs and its cursor moves (pure operators) |
| `ShuffleBag` | library, favourites and weighted bag: rebuild, rescan, add, remove (pure operators; a shuffle is a set of results) |
| `WallpaperControl` | selection and transaction as a state machine, one action per step of a request |
| `RenderTransaction` | the abstract promise of the transaction rule in `docs/render-supervisor-plan.md` |
| `Supervisor` | the supervisor's thread, the renderer child and the socket between them, with all that can happen to the child |
| `OutputSurface` | one output of the renderer: each operation of `surface.rs` gives the set of its outcomes |
| `Renderer` | the renderer's event loop over its outputs, the decode workers and the compositor |
| `WorldGrid` | the geometry of the world: grid, tile pyramid, the tiles and the level of a route (pure operators) |
| `WorldCache` | the files of the world cache, the processes that write them, the supervisor's gate and the renderer that loads them |
| `CanvasCache` | the thumbnail cache: memory, files, batches of workers, the channel of their results |
| `Protocol` | every request and answer of `mural-ipc` with its encoder and its parser, and the transition registry (pure operators) |
| `Config` | what configuration lines and variables become (pure operators) |
| `Muralctl` | what a command and its arguments become (pure operators) |
| `Conversation` | one request from the command line through both processes and back, over the three modules above |
| `MCWallpaperControl`, `MCSupervisor`, `MCRenderer`, `MCWorldCache`, `MCCanvasCache`, `MCConversation` | instances for TLC |
| `SelectionProofs`, `WallpaperControlProofs`, `WallpaperTransactionProofs`, `SupervisorProofs`, `CanvasCacheProofs`, `WorldCacheProofs`, `RendererProofs` | theorems and proofs |

`WallpaperControl` composes `LayoutState` and `ShuffleBag` and is shown to
implement `RenderTransaction`; `Renderer` composes `OutputSurface`s; `WorldCache`
uses `WorldGrid`; `Conversation` uses `Protocol`, `Config` and `Muralctl`.
`Supervisor` and `WallpaperControl` model the same process at two levels: the
first has the calls, the channel and the restarts and one wall per request, the second
the selection and its files and a renderer that accepts or refuses.

Definitions whose comment says *mutant* are faulty variants of the operator
after them. They belong to no specification; replacing the operator by its
mutant must make a named run fail, which shows that the run's property depends
on that code.

### State and actions of WallpaperControl

`core` is what `WallpaperControl` keeps in the fields `library`, `favorites`,
`shuffle_bag`, `shuffle_pos`, and `diskCore` the four files they are saved in.
`layouts` is the map `layouts` of the same struct: a layout is *taken* out of it
for the time of a request (`take_layout`), so `NoLayout` means "read it from
`diskLayouts` next time". A set of active outputs has its own layout directory;
here it is a key `k` with `OutCount[k]` outputs. `files` and `quarantined` are
the two directories, `shown` what the renderer answered `ok` to last. The other
variables are the locals of the request: `work` the layout being changed, `before`
what `PreparedWallpaperChange` saves for a rollback, `sel` the new window, `healed`
the part of it that `heal_selection` has checked, `quar` the planned move, `pick`
the locals of `bag_next_n`, `pc` the step to take next. `stranded`, a history
variable, has the walls whose move back from the quarantine directory failed.

A request runs `Prepare`, `EnsureInitialized`, `EnsureWindow`, then `Navigate` or
`Replace`, `EnsureWindow` again, `Heal` once per wall, `Stage`, then for requests
of clients the checks `RefuseMissing`, `RefuseWorld` and the `MoveQuarantine`,
`RenderOk` or `RenderFail`, and after `RenderOk` the three layout files and the
four core files, one action each. `PickStart`, `DrawRebuild`, `Draw` and
`DrawDone` are the loop of `bag_next_n`, called from five places. Every error
return is an action or a disjunct that ends the request the way the code does:
`Fail` (the taken layout is dropped, only favourite actions put it back),
`Rollback`, or nothing put back (`RefuseMissing`, `MoveFails`). `Rollback` restores the
layout and the cursor whether or not `PutBack`, the move back of a quarantined file, succeeds:
`rollback_quarantine` only logs that it failed.

Steps are as fine as the interleaving needs: other actors (the file system, a
dying process, the renderer child that loads the same state directory) act
between any two of them.

Faults are constants, so that each run says which it admits: `churn` (wall
files appear and disappear), `io` (a write or the quarantine move, out or back, fails),
`crash` (the supervisor dies and loads again), `restart` (the renderer is lost
between requests or inside one).

### State and actions of Supervisor

`renderer` is the generation in `Supervisor.renderer` (0 for `None`),
`restartCount` the counter of the same name, `current` the committed layout.
`restart_renderer` is called from inside `renderer_request` and makes requests of
its own, so the calls nest without a bound; `stack` holds the callers, innermost
first, each with the label it continues at, its request and the wall it has
prepared. `pc` is the next label and `outcome` what the last call returned.
`children[g]` is the process of generation `g`, `channel` the socket pair of the
last one (requests the child has not read, answers the supervisor has not read),
`output` what that child knows of its output, `accepted` the wall it accepted last.
`queue`, `serving` and `answered` are the clients.

| labels | code |
|---|---|
| `request`, `ensured`, `send`, `await`, `reported` | `renderer_request`, `ensure_renderer` |
| `restart`, `spawn`, `spawned` | `restart_renderer`, `spawn_renderer`, `RendererProcess::spawn` |
| `waitReady`, `waitAnswer` | `wait_renderer_ready` |
| `restore`, `restorePlan`, `restored` | `restore_current_wallpapers` |
| `started`, `ensure` .. `stop`, `exited` | `run_supervisor`, `run_loop`, `handle_public_request`, `render_wallpaper_action` |

The child is a set of actions between any two steps of the supervisor: it gets
ready, dies, answers the request at the head of its channel, finds its socket
closed, and its output is configured, unplugged or powered off and on. A child is
`ready` from its first frame on and `running` once the supervisor has read that; one that is
given up between the two is up, has an output and lives until it finds its socket closed
(`OrphanExits`), while the next generation may start already.

Faults are named in `Faults` and counted in `faults`: `die` (the child dies),
`timeout` (no answer in time), `late` (the same for a readiness check, whose
answer then comes late), `spawn` (not ready in time, or dead before), `refuse`
(an error answer), `files` (nothing to restore or a missing file), `unplug`,
`power`. `MaxFaults[k]` is the number of faults below which a fault of kind k may still happen.

### State and actions of OutputSurface and Renderer

A surface is the record that `OutputSurface` in `surface.rs` is: power, EGL size, the wall and
its texture, the active transition, the queue, the frame callback, and
`pending` for a render that was deferred. Pictures are known by the image they
show, and `textures` counts those alive in GL, so that each can be checked to have an
owner. An operation that calls EGL, reads a file or uploads has a failing
outcome when `Faults` admits it.

`Renderer`'s actions are the events of the calloop loop, each a handler that runs to its end:
`Request` (cut, pairwise, canvas, world, clear), `DecodeResults`, the Wayland events
(configure, frame, power mode, power protocol lost, output gone or new, layer closed), `Elapse` (the
clock passes the end of a transition), `RenderPendingSurfaces` after a dispatch,
and `Exit`. `jobs` are the decodes that are out, `dispatched` says
that the render pass is due, `lost` counts textures without an owner after
their surface is gone, `refused` names the kind of a set answered with an error in this step.
Loops over the outputs of a batch stop at the first failure, and any output may be the
first to fail.

### State and actions of WorldCache

`files` is the library directory (a version per wall, 0 for absent), `disk` the
cache directory: for each name the file and its temporary file, with what they
hold and who still has them open. `jobs` are the processes `muralctl world cache
compute`: `CreateSnapshot` .. `InstallManifest` write the index, `ScanStatus`, `ScanCells`,
`ScanGrid`, `ScanKeys` are the scans of `world_cache_selection`, which list the library anew
each time, and `GenerateCell`, `GenerateTile`, `Install` write and rename one
file at a time. A file written by two processes at once holds either content or
`Torn`, which stands for any mixture. A job may die before any step (`JobCrash`).

The supervisor's `mem` is the library in its memory, `at` what the outputs are on their
way to, `warm` the table `scheduled_world_warmups`: for each warm-up the time since it was last
asked for, in steps of which `DedupeTtl` are `WORLD_ROUTE_WARMUP_DEDUPE_TTL` (`TimePasses`). Asking again
starts nothing and sets that time to 0; an entry that is too old is dropped when the next one is
asked for (`Remembered`). `Request` starts a request, the gate ends in
`GateAccepts`, `GateRefuses`, `GateWarms` or `GateFallsBack`, then `MoveQuarantine`,
`PlanAgain` (the second plan, `world_render_request_for_entries`) and `Render` or `RenderRefused`
follow. Faults are `FileAdded`, `FileRemoved`, `FileRewritten` and `JobCrash`.

A library's fingerprint is the library itself and a file's length and time are
its version, so hash collisions are left out. `warmed` and `disturbed` are
history variables that only properties read.

### State and actions of CanvasCache

`version` is the file of each wall, `images`, `metas`, `tmps`, `tmpMetas` the cache
directory, `batches` the worker threads with their queues, `results` the channel to
the event loop, `pending`, `failed`, `memory` and `bytes` the fields of `CanvasCache` and
`ThumbnailCache`. Actions: `Warm`, `MaybeWarm` (the warm-up after the startup), `Lookup`,
`WorkerStep` (decode, write, metadata, rename, report), `AcceptResult`, `Clear` (which may stop
halfway), `Restart` (the renderer is killed) and `Rewrite` (a wall changes).

### State and actions of Conversation

The daemon reads lines and variables (`AddLine`, `AddVariable`, `Start`), a user types
a command and its arguments or another client writes its own JSON, and
the request passes `stage` by stage: built by muralctl, read by the supervisor, planned
for the renderer, read by the renderer, answered, read again. What was meant before a hop is kept
beside what was read after it. JSON text is a tree of values: what an encoder
leaves out, rounds or renames and what a parser defaults or refuses is in
`Encode*` and `Parse*`; quoting and escaping are not.

### Abstractions

- `Supervisor` has one output, and leaves to `WallpaperControl` which wall an action
  picks, what a commit writes and `poll_library_watcher`. A silent or malformed
  client is answered like `ping`; capabilities, clear, preload and cache requests
  behave like `ping` or `set`; explicit world sets, warm-ups, diagnostics and the
  watchdog are left out.
- An output is `Renderable` once it has an EGL surface and power; the renderer's other
  render states appear as refusals.
- A wall is a model value; the sorted lists `library` and `favorites` are sets.
- A shuffle is a choice among all orders.
- The window is computed from two neighbouring sets of the tape instead of the
  flattened list.
- In `WorldCache` the move back of a quarantined file succeeds; that it fails is a `FileRemoved`
  after it.
- `RenderFail` may happen whatever was sent: the renderer is a black box that
  accepts or refuses. A refused world route is a possible outcome of any request.
- A restore that loses its renderer again nests again in the code; here once.
- The attempt counter of `bag_next_n` saturates at `MaxAttempts` and its floor of
  32 is the constant `AttemptFloor`, so that the rescan is reached in small instances.
- In `Renderer` a decode id is a counter of 64 bits in the code; here any id not in
  use. Durations are not modelled: a transition's time is over or not, so that
  acceleration is left out. Tile textures of a scene count as one.
- In `WorldGrid` the route rectangle has whole cells, so integers compute what the
  code computes in floating point.
- `WorldCache` has one neighbourhood warm-up after a render and route warm-ups by the gate;
  the detached process that the daemon starts is a job like any other.
- In `Conversation` a decimal counts units of 10^-7 and an integer is at most 2^31 - 1.

## Runs

| run | instance | question |
|---|---|---|
| `Wallpaper_navigate` | two sets of outputs (1 and 2) that share a bag, 2 walls, history 2; all navigation and replace | Does the code implement `RenderTransaction`, does a request come to the window it asked for whatever is drawn, appended and pruned on the way (`WindowMovesAsAsked`), and is what is shown the current one (`ShownIsCurrent`), when any request may be refused at any step? |
| `Wallpaper_heal` | 2 outputs, 2 walls, history 2, churn | Is the staged window exactly what is committed although files vanish while it is built (`StagedIsWindow`), does the bag hold the library, and does the inductive invariant of the proofs hold? |
| `Wallpaper_crash` | 2 outputs, 2 walls, crash and io faults | Do the files left by a crash or a failed write fit each other, does memory never run ahead of them, is a moved file forgotten or back unless its move back failed? |
| `Wallpaper_restart` | 1 output, 2 walls, weight 2, restart faults, fairness | Files and bag when the renderer dies inside requests, and is every request answered? |
| `Supervisor_faults` | 1 client, 2 walls, two faults of any kind but `late`, then perhaps a spawn that fails; fairness | Is a wall committed only on its own answer? Does only one renderer draw, is every restart caused by a fault of its own, every client answered, every blank output restored? |
| `Renderer_power` | 1 output, pairwise sets, power and configure events, every operation may fail | Does nothing wait for an event that will not come, is the screen what is reported, is an output that is off left alone? |
| `Renderer_scenes` | 1 output that may be unplugged, all five kinds of request | Has every texture one owner, does a decode reach the request that asked for it, is the queue FIFO? |
| `Renderer_batch` | 2 outputs set together, a draw that may fail, fairness | Does a refused batch leave both outputs as they were, and has every queued wall its turn? |
| `WorldCache_retries` | 2 walls with a tile each, the gate without fallback, one death of a warm-up or one change of the library, fairness | Does a user who keeps asking, with a pause of half an hour now and then, get there, does a warm-up make the tiles the daemon looks for, and is what the gate accepts rendered? |
| `WorldCache_races` | 2 computes of the whole world at once, a quarantine between | Does every tile show the walls its name stands for? |
| `CanvasCache` | 2 walls, one of them too large beside the other, two overlapping batches, one clear or restart, one rewrite, fairness | Memory accounted, nothing made twice at once, complete files, nothing pending for ever? |
| `Conversation` | up to three lines, variables and arguments out of 38, every command, seven requests of other clients | Does each hop read what the hop before meant, and do settings arrive whatever their order? |

**Bounds.** Two outputs are the least that have windows across two sets; with one
set of two and one of one sharing a bag, draws for one move the other's. A history of two sets
is the least in which a shifted window fits, and every third request prunes. A
weight of two is the least that makes the bag differ from the library. Requests
are not bounded in number: the state space is finite because histories are
pruned, the bag is bounded by the library and the attempt counter saturates at
`MaxAttempts` (above the threshold that triggers a rescan).
Two faults are the least that hit a restart of a restart (the second renderer lost
while the first loss is handled), and bound the depth of `stack`; a spawn that
fails as the third is the one way into `SendWithoutRenderer`. A behaviour of
`Supervisor_faults` may stop at `exited`, so deadlock is not checked there.

In the renderer, `MaxQueue` 2 with `MaxPrepared` 1 or 2 has queued walls on both sides of the
prepared ones; `MaxJobs` lets decodes come back in another order than they
were asked for. Two images suffice because a picture is only compared with the image
that was asked for; with three nothing new can be exchanged. Requests are not bounded in number.

In the world cache `MaxTroubles` counts changes of the library and dead
computes together; one is the most that a liveness run can afford, and
`WorldCacheProofs` covers any number of both in any order for the safety properties.
`DedupeTtl` 2 is the least with an age between a fresh entry and a lapsed one, so that a request can make one
young again. Two walls have two tiles of level 0 in `WorldCache_retries` and a grid whose
columns change with the number of walls. In `WorldCache_races` a tile has both walls, so
that a mixture of two libraries in one tile is possible. The world cache, the canvas cache and
a conversation may come to rest, so deadlock is not checked there.

In the canvas cache one warm-up beside the one after the startup, with two batches, is the least
where two workers want one thumbnail, and `MaxBytes` holds either thumbnail but not both.
Three tokens in `Conversation` reach every pair of settings that restrict each other together with
the reference that uses them.

Symmetry under permutation of walls, images or computes is used in runs without liveness.

**Fairness.** `WallpaperControl!FairSpec` asks for weak fairness of `Step`, the steps of the
supervisor's own thread: it is one thread that never waits except for the
renderer, whose requests carry a timeout (`RENDERER_RENDER_TIMEOUT`), so a
request at `render` is answered or fails. No fairness is asked of clients,
faults or the file system. `Supervisor!FairSpec` asks the same of its `Step`, and of a
child that it gets ready and answers (a child that does not is a `spawn` or
`timeout` fault). Two steps get strong fairness because a clock decides them:
`WaitDone`, since the readiness deadline passes however often the check is
repeated, and `CheckPending`, since `RESTORE_PENDING_CHECK_INTERVAL` passes however
often the loop skips the check. Clients are finitely many: with a client always
waiting, `accept_public_connections` never returns to the loop.

`Renderer!FairSpec`: the loop renders after a dispatch, decode workers answer, the compositor calls
back for a frame it was given, and time passes; nothing is asked of requests or
other events. `WorldCache!FairSpec`: a compute that runs makes its next step, the
supervisor works on its request and the user asks again (the property is about a user who
does). That time passes is not assumed: each request starts the half hour of its warm-up anew, so
`RetriesSucceed` is about behaviours in which again and again all entries are half an hour
old (`Rested`).
`CanvasCache!FairSpec`: each worker thread runs, and the event loop takes in results
and does the warm-up after the startup.

## Theorems

Checked by tlapm for all constants that satisfy the named assumptions and, where
a theorem has them, its hypotheses on the faults.

**Selection.** `WallpaperControlProofs!StepsAreReady`: `Spec => []Inductive`, for any walls,
keys, numbers of outputs, history limit, weight and any set of faults.
`Inductive` is `TypeOK` with `Ready`, the facts that one step of a request
hands to the next: a request in progress has a layout and an index within its
outputs (`RequestReady`); a draw knows its caller and how many walls it wants
(`DrawReady`); replacing and marking find a complete window (`WindowReady`);
healing works on the window of the layout, and while nothing was replaced its
prefix equals that of the window (`HealReady`); nothing is left between
requests (`RestReady`). `TypeCorrect` and `StagingIsFaithful` (`Spec =>
[]StagedIsWindow`) follow. `StagedIsWindow` is not inductive: its step from
`heal` to `staged` needs `HealReady`, which needs `DrawReady` through the
draws that heal, which needs the types of bag and layout. `SelectionProofs`
has the facts about tape and bag this rests on: a complete
window has one wall per output (`WindowType`), a replaced tail is the new window whatever
was pruned (`ReplaceTailType`), and the results of rebuild, rescan, add and remove for every shuffle.

**Transaction** (`WallpaperTransactionProofs`). The hypotheses name faults and requests: `NoChurn`
(files come and go only through the daemon), `NoRestart` (no restart of the renderer), `NoFavors` (no favourite requests),
`Quiet` (no fault but churn), `OnlyCrashes` (churn and crashes), `NeverDies`
(churn and restarts). They are not for the proof's convenience: without them the code does not keep
the property, see "What the code does not keep".

| theorem | states | under |
|---|---|---|
| `QuarantineSettles` | `QuarantineSettled` | `NoChurn`; crashes, failed writes, moves and moves back and restarts included |
| `MemoryIsDurable` | `CachedLayoutIsDurable` | `NoRestart`, and `NoFavors` or `Quiet` |
| `CursorStaysInHistory` | `DurableCursorInHistory` | the same |
| `RequestsAreTransactions` | `ImplementsTransaction` | `Quiet` |
| `ScreenShowsCurrent` | `ShownIsCurrent` | `OnlyCrashes`, and `NoFavors` or `Quiet` |
| `BagIsWhole` | `BagHoldsLibrary` | `NeverDies` |

- `QuarantineKept` says what is in the quarantine directory is unknown to library and
  favourites, except for the wall that a request at `render`, or the request behind a
  nested restore, has moved, and for the walls whose move back failed (`stranded`).
- `Agreement` is `Inductive` with `Books` and `Tapes`. `Books`: what a
  request took out of memory is what the files hold (`BeforeDurable`), and between the three
  writes the files follow each other (`FilesFollow`). `Tapes`: tapes are normal and within their
  limit except by the sets just appended (`TapesShort`), and the cursor is close enough
  to the end that one pruning cannot throw it off (`CursorClose`). The cursor file stays on
  the tape because the tape is written first and the new cursor is not beyond the older
  tape by more than the writes in between. `DisksComplete`, needed only without crashes, says
  the files hold complete windows.
- The refinement maps a stage, an acceptance and a commit to the steps of `RenderTransaction`
  and everything else to stuttering; `CommitFits` says that what is accepted is the window of
  the layout being committed, and `ShownSettled` that between requests shown and current agree.
- `BagFits`: the bag fits library, favourites and weight in every state, and so at rest.

**Supervisor.** `SupervisorInductive`: `Spec => []Inductive` for any clients,
walls, kinds and number of faults. `CallsNest` says that every frame was pushed by a
procedure that may call the one above it; a return then finds a caller that
expects it (`ControlPush`, `ControlPop`). `FramesPrepared` says that a caller that
will commit has asked for the wall it holds. `LastRuns` ties the running
process to the generation held, and `Unasked` says that a child not taken yet, or given up, has an
empty channel and has accepted nothing; `restartCount + Due <= faults` counts a restart
before it happens, since a fault and the restart it causes are many steps apart;
`AnswersMatch` says that the channel is empty except for the request in
progress or its answer. From it follow `SupervisorOneRendererDraws` (`LastRuns`, `Unasked`),
`SupervisorRestartsAreCaused` (the count), and, if `late` is not among the faults,
`SupervisorCommitsAreAccepted`: the answer looked at when a wall is committed
is, through `AnswersMatch` and `FramesPrepared`, the one to the request for that wall.

**Canvas cache.** `CanvasInductive`: types, `PendingIsWorked`, and before the
first clear `OnePlace`: what is in a queue, in a worker's hand or in the channel is pending and is
nowhere else. `CanvasPendingIsWorked` and `CanvasOneJobPerKey` follow, for any
walls, back ends, batches, workers, restarts and rewrites. `CanvasThumbnailsAreWhole` is over `Written` besides: before the
first clear a temporary thumbnail is being written by one worker only, the one that holds its key (`OnePlace` gives that no
other of its name does), a worker at its metadata file has installed its thumbnail, and nobody writes a file under a
final name. `Written` was checked by TLC for the instance with two workers before it was proved.

**World cache** (`WorldCacheProofs`), for any library, grid, budgets, number of computes,
deaths and changes:

- `TypeCorrect`, from `Shape`: the types, with what the names of files say of their contents and of
  the lists of a compute. It rests on facts about the geometry: the recursive
  function `LodCells` exists and is positive (shown through least numbers), levels end
  (`LevelCells`), every wall of a set has its place in path order (`EveryPlace`), the tiles of a route are
  finitely many.
- `IndexIsKept` (`ManifestHasSnapshot`), from `Indexed` and `Clean`. `Indexed`: whoever is about
  to write a manifest, and a manifest half written, leads to a snapshot that is on disk.
  `Clean`: while no compute has died, or with one at a time, a snapshot
  nobody writes any more is whole.
- `TilesAreTrue` (`TilesShowTheirWalls`), from `Past` and `Pictured`. `Past`: a wall seen by a
  compute is never older again, it is gone, kept aside by a quarantine, or as new; and a
  compute whose scans agree has one list. `Pictured`: every file, final or temporary and
  however many write it, shows what its name says or is torn. A rename
  under a name that another compute writes is harmless because the temporary name
  is a function of the final one, so that both mean the same picture.
- `AcceptedIsShown` (`AcceptedIsRendered`), from `Held`: from the gate on to the renderer's answer there is
  a library on the index that has a plan for the request's entries with all tiles on disk, unless
  something disturbed it; so the second plan is the first, and the renderer finds it within its budget. The
  hypothesis `Cardinality(Outputs) * MaxRouteTiles <= MaxRequestTiles` says that routes as large as the
  gate admits fit one request; with the code's 16 and 32 that is two
  outputs. With more the gate, which checks each route alone, accepts what the renderer
  refuses.
- `WarmupsWarm` (`WarmupWarms`), from `Delivering`: each tile that a compute owes the routes
  it was started for is still to do, in its hands or on disk, as long as nothing failed and its scans agree. Files
  never go (`FilesStay`). `LevelsAgree` says that both programs choose the same level: muralctl takes the
  finest level whose tiles fit the budget, the daemon the finest with at least one tile and no more than the
  budget, and the route between two cells of the grid always has a tile (`RouteInGrid`). The same lemma puts
  the tiles of the route into the pyramid that muralctl selects from.

**Renderer** (`RendererProofs`), for any outputs, images, sizes, bounds and numbers of decodes.
Four hypotheses name what the code needs: `Tidy` (no drawing fails, or the requests are pairwise
sets and clears, or there is one output), `Gentle` (no drawing fails, or the requests are pairwise
sets and clears and no transition is over by its first frame), `Prompt` (no canvas sets, and no world sets or no
drawing fails) and `Plain` (no canvas sets, and no clears or no drawing fails). The sections below show
runs of the code that break the property without them.

| theorem | states | under |
|---|---|---|
| `RendererInvariant` | `RendererInv` | any faults |
| `RendererTypes` | `TypeOK` | any faults |
| `DecodesAreRequested` | `DecodedIsRequested` | any faults |
| `DecodesHaveTheirWall` | `Aligned` | any faults |
| `NoTextureDeletedTwice` | `TexturesSuffice` | any faults |
| `TexturesHaveOwners` | `TexturesOwned` | `Tidy` |
| `OffStaysUntouched` | `OffIsUntouched` | any faults |
| `QueuesAreFifo` | `QueueIsFifo` | any faults |
| `RefusalsPreserve` | `RefusalPreserves` | `Gentle` |
| `OutputsArePoised` | `Poised` | no canvas sets |
| `NothingWaitsInVain` | `NothingStalls` | `Prompt` |
| `ScreensAreCurrent` | `ScreenIsCurrent` | `Plain` |

- `RendererInv` is `TypeOK` with `Aligned`, `Sound` for each output, and finitely many outputs
  and jobs, which the counter of ids needs. `Aligned` relates outputs, queues and workers: an id is on
  one wall of one output, and what has the id of a job that is out waits for that
  job's image. Without it an answer could decode a wall twice or reach the wrong one, so
  `DecodedIsRequested` is not inductive alone. `Sound` is `Coherent` (no wallpaper of its own while a
  transition holds it, a target waits for at most one decode, tiles only behind world sets) with `Surplus`, the textures
  alive less those owned: never negative, and 0 under `Tidy`.
- Each operation of `OutputSurface` is shown once to be a step of `Progresses(s, t, n)`: types and
  `Coherent` kept, the surplus lower by the n textures made for it before, nothing touched without power, and
  the queue `Behind` the old one. These compose, so a handler is a chain of them. What the renderer
  does until a queued wall starts, and until no transition is over, is a recursive function of the
  queue's length; the facts about `StartNexts` and `RenderActives` are by induction on that length.
- A handler over outputs is a product of outcomes (`Attempts`, `RolledBack`, `Forgotten`). `FreshIds` is
  shown to exist and to be unused by counting, and ids that are new on different outputs keep `Aligned`.
- `RefusalsPreserve` follows each started output through its first frame and the roll-back: what the roll-back
  draws again has no transition, so that it cannot start one from the queue, and an output is started only
  when it has none running.
- `NothingWaitsInVain` and `ScreensAreCurrent` are not inductive alone: that a started transition gets a frame
  needs an EGL surface to have a size (`Sized`), and that the screen is right once a transition is over needs
  the reported image to be the old picture while it runs (`Titled`). `Poised` adds both, for each output. What
  each operation does to it goes in two halves: `Turns` for those that change the
  transition without drawing, `Rendered` for drawing, up to the end of the queue. A drawing that failed leaves `Framed`,
  which the mark for a new surface turns back into `Posed`. TLC checked `Posed` first, with pairwise, world, cut
  and clear sets and each fault (two walls, one output, up to 1.2 million states).

**Only model-checked.** Liveness (`EveryRequestAnswered`, `EveryClientAnswered`, `BlankIsRestored`,
`QueueDrains`, `RetriesSucceed`, `WarmSettles`): the prover has no fairness or ENABLED.
`WindowMovesAsAsked`: a quotient and a
remainder by a variable number of outputs. `MemoryAccounted`: a sum over a sequence, which needs
induction over data, as the size of what is evicted does. `Conversation`: a finite set of values
built with the folds of whole command lines.

`Renderer!TypeOK`, `Supervisor!Inductive`, `CanvasCache!Inductive` and `WorldCache!TypeOK` are in no run: they are
proved, and the first and last range over infinite sets.

## What the code does not keep

Stronger properties were tried on the way; these fail, and the runs state the weaker ones. For
each, the instance that shows it.

*Selection and transaction.*
- A draw that never ends. `bag_next_n` decides once whether duplicates are
  allowed, from the size of the library. If fewer files are left than outputs,
  every further draw is skipped as a duplicate, and a skipped duplicate does not
  count towards the rescan: the supervisor's only thread hangs. `<>[][files' = files]_files =>
  EveryRequestAnswered` fails with churn and two outputs, against
  `docs/render-supervisor-plan.md:109`. The loop hangs without deleted files too when the
  renderer dies while a wall is moved away (`Wallpaper_restart` with two outputs), and
  `ensure_window` hangs when `max_history` is 1 and the window is shifted.
- A restore inside a failing request. The restart of a lost renderer restores the current wallpapers
  before the request that lost it fails and rolls back. The restore may choose a first set or
  heal a missing wall and commits that; the rollback then puts the older layout back in
  memory, so that what the daemon takes for current is not on the screen: `ShownIsCurrent` fails
  with restarts and history 1 (`render-supervisor-plan.md:123`).
- Two owners of the state files. The renderer child runs `WallpaperControl::load`, which rescans and
  rewrites the core files. Done while a wall is moved to quarantine, it drops the wall from the
  favourites file; the rollback keeps it in the supervisor's memory only: `pc = "idle" => diskCore.favs =
  core.favs` fails with restarts, next, quarantine and favorite (`render-supervisor-plan.md:74`).
- A quarantined wall that memory keeps. A move back that fails is only logged (`wallpaper.rs:533`) and the
  rollback goes on: the wall stays in library, favourites and bag, and on the tape it came from, while its file is in the quarantine
  directory, until the next rescan or load (`render-supervisor-plan.md:105` says that the
  move is rolled back). `Wallpaper_crash` without `stranded` in `QuarantineSettled` shows it.
- A cursor for another bag. A rollback restores the cursor when the bag is as long as
  before (`wallpaper.rs:544`), which also holds after a reshuffle. With a history variable for `SubSeq(core.bag, core.pos + 1,
  Len(core.bag))` at `Prepare`, three walls and two outputs, a rollback does not bring it back, which the test
  `rollback_restores_staged_layout_and_shuffle_cursor` (`wallpaper.rs:1469`) asks for.
- With crashes, healing and a favourite request that captures a layout, two crashes can leave the cursor file one past its tape
  (`MaxHistory` 3), and a favourite request that fails leaves an extended layout in memory that is
  not in the files; hence `NoFavors` in the theorems.
- A quarantine of a wall with a world route: the gate accepts it, but the move makes the library another one,
  so that the renderer's plan need not be the gate's (`AcceptedIsRendered` leaves quarantine out).

*Supervisor.* A readiness check that times out leaves its request in the socket and the
renderer in place. Its answer is read as the answer to the next request, and all later
ones are off by one: the restore takes a health answer for the answer to its set and commits it. `Faults = {"late"}`
refutes `CommitsAreAccepted` (`render-supervisor-plan.md:104`).

*Renderer.*
- `NothingStalls` fails with canvas and load faults: a queued transition that cannot start leaves
  those behind it waiting for the next request (`docs/protocol.md:239`, `docs/architecture.md:136`). It fails
  with world sets and draw faults: a scene whose frame fails is settled, with its queue left behind it.
- `RefusalPreserves` fails for cuts and scenes with draw faults: they set the outputs one after the other and take
  nothing back (`docs/architecture.md:138`). It fails for pairwise sets with draw faults and a transition
  over by its first frame, which has settled before another output fails.
- `TexturesOwned` fails with two outputs and a draw fault for cut, canvas and world sets: the textures of all
  outputs are made first, and those of the outputs that the loop does not reach are forgotten.
- `ScreenIsCurrent` fails with canvas sets, whose overtaken transition keeps the old picture while the wall is
  settled, and with a clear whose drawing fails: the image is forgotten, the texture and the screen are not.
- `EglFollowsConfigure` fails with cuts, power and configure: a cut draws on a surface whose deferred
  configure has not been applied (`docs/architecture.md:171`).

*World cache.*
- A tile named after one version of a wall may show a newer one: the name is made from the scan, the
  picture from the file read later. `TilesShowTheirWalls` asks for at least as new.
- A library that changes between the scans of one compute can put a wrong wall under
  a current name (`raced` excuses it; `docs/protocol.md:422` says names keep tiles from that).
- A stale manifest that names a wall deleted since makes the gate refuse for good instead of falling back, against `docs/protocol.md:426`.
- Three outputs or more may exceed the renderer's budget for one request, which the gate does not look at.
- A warm-up that dies keeps its entry in the table for half an hour, and each request for it that comes
  before starts the half hour anew, although it only says "already scheduled" (`supervisor.rs:689`): a user who asks
  more often than that never gets there. `RetriesSucceed` without `Rested` fails in `WorldCache_retries`.
- `egl_render.rs:2113` places the clipped tiles at the edge of the grid as if they were whole, which stretches them.

*Canvas cache.* A lookup of a missing thumbnail schedules nothing (`docs/protocol.md:15`, `:321` say it
does); what is warmed for another back end than the effective one is never looked up; after a clear a late result takes
away the mark of a newer job, so that two jobs can make one thumbnail; a thread that cannot be
spawned leaves its keys pending; `status.ready` counts temporary files.

*Interface.*
- A `MURAL_CANVAS_*` variable sets a default that a line of the canvas profile in the file
  goes before, although `README.md:237` and `mural-config.5:269`, `:281` say that the environment overrides the
  file. `SettingsReachRenderer` says nothing of a key that both set.
- An `overview_scale` below half a millionth is written as 0.0, which the reader refuses.
- A maximum tile count is dropped when a fixed count is given between it and `auto`.
- Any transition option on a command line replaces the whole configured transition.

## Not modelled

Transition mathematics, canvas layout and camera paths (floating point);
drawing through EGL; the preload cache of decoded pictures; help and printing
of muralctl; the socket path's permissions and size limits; the watchdog timer and
systemd's notifications; the inotify buffer; packaging. The canvas preview window reads the
selection state and changes nothing.

## Plan

1. The renderer's properties with canvas sets, whose transition starts before its target is decoded: what can
   be stated of them once an overtaken canvas no longer keeps the old picture.
2. A theorem for `WindowMovesAsAsked` with a fixed number of outputs.
