--------------------------- MODULE WallpaperControl ---------------------------
(***************************************************************************)
(* Wallpaper selection in the murald supervisor: WallpaperControl in       *)
(* crates/mural-core/src/wallpaper.rs and the transaction that the         *)
(* supervisor runs around it (render_wallpaper_action and                  *)
(* restore_current_wallpapers in crates/murald/src/supervisor.rs).         *)
(*                                                                         *)
(* A request takes the layout of the active outputs out of memory, works   *)
(* on it (drawing walls from the shuffle bag as it needs them), asks the   *)
(* renderer to show the resulting window, and then either commits the      *)
(* layout to memory and disk or puts the old one back.  The supervisor is  *)
(* single threaded, but files of the wall directory come and go under it,  *)
(* a renderer it restarts loads and rewrites the same state files, and it  *)
(* may die between any two steps, so a request is one action per step.     *)
(***************************************************************************)
EXTENDS LayoutState, ShuffleBag

CONSTANTS Walls,         \* paths of wallpapers in the wall directory
          NoWall,        \* Option::None for a wall
          Keys,          \* sets of active outputs, each with a layout of its own
          OutCount,      \* [Keys -> number of outputs]
          AttemptFloor,  \* draws allowed before a rescan whatever the bag's size (32)
          MaxAttempts,   \* where the attempt counter saturates (usize::MAX)
          Actions,       \* requests the clients make
          Faults         \* what may go wrong: "churn", "io", "crash", "restart"

Navigation == {"next", "back", "shift_forward", "shift_back"}
Replacing  == {"replace", "quarantine"}
Favoring   == {"favorite", "unfavorite"}
AllActions == Navigation \cup Replacing \cup Favoring \cup {"startup", "current", "rescan", "add"}

ASSUME WallpaperAssumption ==
    /\ NoWall \notin Walls /\ IsFiniteSet(Walls)
    /\ OutCount \in [Keys -> Nat \ {0}]
    /\ AttemptFloor \in Nat /\ MaxAttempts \in Nat
    /\ Actions \subseteq AllActions
    /\ Faults \subseteq {"churn", "io", "crash", "restart"}

VARIABLES
    files,        \* walls whose file is in the wall directory
    quarantined,  \* walls moved to the quarantine directory
    stranded,     \* history: those whose move back failed, which the daemon only logs
    core,         \* library, favorites and bag in memory
    diskCore,     \* the same four files in the state directory
    layouts,      \* layouts in memory, NoLayout when absent
    diskLayouts,  \* history, index and offset files of each layout directory
    shown,        \* what the renderer accepted last
    pc,           \* the step the supervisor takes next
    req,          \* the request being handled
    work,         \* the layout taken for it
    before,       \* what a rollback puts back
    sel,          \* the window being healed and rendered
    healed,       \* its healed prefix, and whether a wall was replaced
    quar,         \* planned quarantine move
    pick,         \* the draw in progress (bag_next_n)
    resume,       \* step that follows a write of the core files
    outer         \* request suspended by a renderer restart

opVars == <<req, work, before, sel, healed, quar, pick>>
vars == <<files, quarantined, stranded, core, diskCore, layouts, diskLayouts, shown, pc, req, work,
          before, sel, healed, quar, pick, resume, outer>>

NoLayout == [history |-> <<>>, idx |-> 0, offset |-> -1]
NoReq    == [kind |-> "none", key |-> NoWall, index |-> 1, capture |-> FALSE]
NoBefore == [layout |-> EmptyLayout, pos |-> 0, len |-> 0]
NoHealed == [walls |-> <<>>, changed |-> FALSE]
NoQuar   == [wall |-> NoWall, moved |-> FALSE]
NoPick   == [need |-> 0, exclude |-> NoWall, got |-> <<>>, tries |-> 0, dup |-> FALSE, ret |-> "none"]
NoShown  == [key |-> NoWall, walls |-> <<>>]
NoOuter  == [req |-> NoReq, before |-> NoBefore, quar |-> NoQuar]

LayoutFiles == {"history", "index", "offset"}
CoreFiles   == {"library", "favorites", "walls", "walls_idx"}
PickSteps   == {"pick", "draw"}

Init ==
    /\ files \in SUBSET Walls
    /\ quarantined = {} /\ stranded = {}
    /\ diskCore = EmptyCore
    /\ core \in Rescanned(EmptyCore, files)
    /\ layouts = [k \in Keys |-> NoLayout]
    /\ diskLayouts = [k \in Keys |-> EmptyLayout]
    /\ shown = NoShown
    /\ pc = "library"                            \* load persists what it scanned
    /\ req = [NoReq EXCEPT !.kind = "load"]
    /\ work = EmptyLayout /\ before = NoBefore /\ sel = <<>> /\ healed = NoHealed
    /\ quar = NoQuar /\ pick = NoPick
    /\ resume = "idle"
    /\ outer = NoOuter

-----------------------------------------------------------------------------
(* Steps shared by the actions. *)

N == OutCount[req.key]

ResetOp ==
    /\ req' = NoReq /\ work' = EmptyLayout /\ before' = NoBefore /\ sel' = <<>>
    /\ healed' = NoHealed /\ quar' = NoQuar /\ pick' = NoPick /\ resume' = "idle"

\* The request is answered; a request it was nested in goes on.
Finish ==
    /\ pc' = IF outer = NoOuter THEN "idle" ELSE "unwind"
    /\ ResetOp /\ UNCHANGED outer

TakeLayout(k) ==
    IF layouts[k] # NoLayout THEN layouts[k] ELSE Load(diskLayouts[k], OutCount[k])

\* An early return with `?`: the taken layout is dropped, except that the
\* favourite actions put theirs back.
Fail ==
    /\ layouts' = IF req.kind \in Favoring THEN [layouts EXCEPT ![req.key] = work] ELSE layouts
    /\ Finish

CallPick(need, exclude, ret) ==
    /\ pick' = [NoPick EXCEPT !.need = need, !.exclude = exclude, !.ret = ret]
    /\ pc' = "pick"

-----------------------------------------------------------------------------
(* Requests. *)

Begin(kind, k, i, capture) ==
    /\ req' = [kind |-> kind, key |-> k, index |-> i, capture |-> capture]
    /\ work' = TakeLayout(k)
    /\ layouts' = [layouts EXCEPT ![k] = NoLayout]
    /\ before' = [layout |-> TakeLayout(k), pos |-> core.pos, len |-> Len(core.bag)]
    /\ UNCHANGED <<sel, healed, quar, pick, resume>>

\* prepare_wallpaper_change and prepare_startup_display take the layout.
Prepare(kind, k, i, capture) ==
    /\ pc = "idle"
    /\ kind \in Actions \cap (Navigation \cup Replacing \cup {"startup"})
    /\ kind \notin Replacing => i = 1
    /\ kind = "startup" => ~capture
    /\ Begin(kind, k, i, capture)
    /\ pc' = "init"
    /\ UNCHANGED <<files, quarantined, stranded, core, diskCore, diskLayouts, shown, outer>>

\* favorite_action, when the layout has a current selection.
PrepareFavorite(kind, k, i) ==
    /\ pc = "idle" /\ kind \in Actions \cap Favoring
    /\ TakeLayout(k).history # <<>> /\ TakeLayout(k).idx >= 1
    /\ Begin(kind, k, i, FALSE)
    /\ pc' = "window"
    /\ UNCHANGED <<files, quarantined, stranded, core, diskCore, diskLayouts, shown, outer>>

\* current_response, whatever it answers, and favorite_action on an empty
\* layout: the layout is loaded and kept in memory.
Current(k) ==
    /\ pc = "idle" /\ Actions \cap (Favoring \cup {"current"}) # {}
    /\ layouts' = [layouts EXCEPT ![k] = TakeLayout(k)]
    /\ UNCHANGED <<files, quarantined, stranded, core, diskCore, diskLayouts, shown, pc, opVars, resume, outer>>

Rescan ==
    /\ pc = "idle" /\ "rescan" \in Actions
    /\ core' \in Rescanned(core, files)
    /\ req' = [NoReq EXCEPT !.kind = "rescan"]
    /\ pc' = "library"
    /\ UNCHANGED <<files, quarantined, stranded, diskCore, layouts, diskLayouts, shown, work, before, sel,
                   healed, quar, pick, resume, outer>>

\* The directory watcher reports a closed or moved-in file.
AddTopLevelFile(w) ==
    /\ pc = "idle" /\ "add" \in Actions
    /\ w \in files /\ w \notin core.lib
    /\ core' = Added(core, w)
    /\ req' = [NoReq EXCEPT !.kind = "add"]
    /\ pc' = "library"
    /\ UNCHANGED <<files, quarantined, stranded, diskCore, layouts, diskLayouts, shown, work, before, sel,
                   healed, quar, pick, resume, outer>>

-----------------------------------------------------------------------------
(* Preparing the new window. *)

NeedsWindowFirst == req.capture \/ req.kind \in Replacing \cup {"startup"}

\* ensure_initialized
EnsureInitialized ==
    /\ pc = "init"
    /\ \/ /\ work.history # <<>>
          /\ pc' = IF NeedsWindowFirst THEN "window" ELSE "apply"
          /\ UNCHANGED pick
       \/ /\ work.history = <<>>
          /\ CallPick(N, NoWall, "init")
    /\ UNCHANGED <<files, quarantined, stranded, core, diskCore, layouts, diskLayouts, shown, req, work,
                   before, sel, healed, quar, resume, outer>>

\* ensure_window, before the action ("window") and after it ("extend").
EnsureWindow ==
    /\ pc \in {"window", "extend"}
    /\ \/ /\ ~Complete(work, N)
          /\ CallPick(N, NoWall, pc)
          /\ UNCHANGED sel
       \/ /\ Complete(work, N)
          /\ pc' = IF pc = "window" THEN "apply" ELSE "heal"
          /\ sel' = IF pc = "extend" THEN Window(work) ELSE sel
          /\ UNCHANGED pick
    /\ UNCHANGED <<files, quarantined, stranded, core, diskCore, layouts, diskLayouts, shown, req, work,
                   before, healed, quar, resume, outer>>

\* run_next_back and run_shift move the cursor; startup keeps it.
Moved(l) ==
    CASE req.kind = "next"          -> StepForward(l)
      [] req.kind = "back"          -> StepBack(l)
      [] req.kind = "shift_forward" -> ShiftForward(l, N)
      [] req.kind = "shift_back"    -> ShiftBack(l, N)
      [] OTHER                      -> l

Navigate ==
    /\ pc = "apply" /\ req.kind \in Navigation \cup {"startup"}
    /\ work' = Moved(work)
    /\ pc' = "extend"
    /\ UNCHANGED <<files, quarantined, stranded, core, diskCore, layouts, diskLayouts, shown, req,
                   before, sel, healed, quar, pick, resume, outer>>

\* run_replace draws one wall; quarantine plans the move of the old one first
\* and never draws that one.
Replace ==
    /\ pc = "apply" /\ req.kind \in Replacing
    /\ LET target == Window(work)[req.index] IN
       IF req.kind = "quarantine"
       THEN /\ quar' = IF target \in files THEN [wall |-> target, moved |-> FALSE] ELSE NoQuar
            /\ CallPick(1, target, "apply")
       ELSE CallPick(1, NoWall, "apply") /\ UNCHANGED quar
    /\ UNCHANGED <<files, quarantined, stranded, core, diskCore, layouts, diskLayouts, shown, req, work,
                   before, sel, healed, resume, outer>>

\* heal_selection keeps the walls whose file is there and draws the others.
Heal ==
    /\ pc = "heal" /\ Len(healed.walls) < Len(sel)
    /\ LET w == sel[Len(healed.walls) + 1] IN
       \/ /\ w \in files
          /\ healed' = [healed EXCEPT !.walls = Append(@, w)]
          /\ UNCHANGED <<pc, pick>>
       \/ /\ w \notin files
          /\ CallPick(1, NoWall, "heal")
          /\ UNCHANGED healed
    /\ UNCHANGED <<files, quarantined, stranded, core, diskCore, layouts, diskLayouts, shown, req, work,
                   before, sel, quar, resume, outer>>

Healed_KeepsTape(l) == l     \* mutant: healed walls are shown but not recorded

\* Healed walls go back on the tape.  A startup display is rendered as it is;
\* the supervisor validates the others first.
Healed(l) ==
    IF ~healed.changed THEN l
    ELSE IF l.offset = 0 /\ l.idx \in 1..Len(l.history)
         THEN [l EXCEPT !.history[l.idx] = healed.walls]
         ELSE ReplaceTail(l, healed.walls)

Stage ==
    /\ pc = "heal" /\ Len(healed.walls) = Len(sel)
    /\ work' = Healed(work)
    /\ sel' = healed.walls
    /\ healed' = NoHealed
    /\ pc' = IF req.kind = "startup" THEN "render" ELSE "staged"
    /\ UNCHANGED <<files, quarantined, stranded, core, diskCore, layouts, diskLayouts, shown, req,
                   before, quar, pick, resume, outer>>
-----------------------------------------------------------------------------
(* Drawing from the bag: bag_next_n. *)

pickFrame == <<files, quarantined, stranded, diskLayouts, shown>>

\* Entry of bag_next_n: an empty bag is rebuilt, an empty library is an error.
PickStart ==
    /\ pc = "pick"
    /\ LET unique == Cardinality(core.lib \ {pick.exclude}) IN
       \/ /\ core.bag = <<>>
          /\ core' \in Rebuilt(core, files)
          /\ IF core.lib = {} THEN Fail
             ELSE UNCHANGED <<layouts, pc, opVars, resume, outer>>
       \/ /\ core.bag # <<>> /\ unique = 0 /\ pick.need > 0
          /\ Fail /\ UNCHANGED core
       \/ /\ core.bag # <<>> /\ unique > 0
          /\ pick' = [pick EXCEPT !.dup = unique < pick.need]
          /\ pc' = "draw"
          /\ UNCHANGED <<core, layouts, req, work, before, sel, healed, quar, resume, outer>>
    /\ UNCHANGED <<pickFrame, diskCore>>

Drawing == pc = "draw" /\ Len(pick.got) < pick.need

\* So many draws in vain that the directory is scanned again.
Tired(tries) == tries > Greatest(2 * Len(core.bag), AttemptFloor)

\* The bag is used up: a new pass.
DrawRebuild ==
    /\ Drawing /\ core.pos >= Len(core.bag)
    /\ core' \in Rebuilt(core, files)
    /\ IF core.lib = {} THEN Fail ELSE UNCHANGED <<layouts, pc, opVars, resume, outer>>
    /\ UNCHANGED <<pickFrame, diskCore>>

\* One turn of the loop: take the next wall of the bag, or pass over it.
Draw ==
    /\ Drawing /\ core.pos < Len(core.bag)
    /\ LET w        == core.bag[core.pos + 1]
           tries    == Least(pick.tries + 1, MaxAttempts)
           rejected == w = pick.exclude \/ w \notin files
           drawn    == [core EXCEPT !.pos = @ + 1]
       IN
       \/ /\ rejected /\ Tired(tries)
          /\ core' \in Rescanned(drawn, files)
          /\ pick' = [pick EXCEPT !.tries = 0]
          /\ pc' = "library" /\ resume' = "draw"
       \/ /\ rejected /\ ~Tired(tries)
          /\ core' = drawn
          /\ pick' = [pick EXCEPT !.tries = tries]
          /\ UNCHANGED <<pc, resume>>
       \/ /\ ~rejected
          /\ core' = drawn
          /\ LET repeated == \E i \in DOMAIN pick.got : pick.got[i] = w IN
             pick' = [pick EXCEPT !.tries = tries,
                                  !.got = IF ~pick.dup /\ repeated THEN @ ELSE Append(@, w)]
          /\ UNCHANGED <<pc, resume>>
    /\ UNCHANGED <<pickFrame, diskCore, layouts, req, work, before, sel, healed, quar, outer>>

\* The draw returns to the step that asked for it.
DrawDone ==
    /\ pc = "draw" /\ Len(pick.got) = pick.need
    /\ pick' = NoPick
    /\ \/ /\ pick.ret = "init"
          /\ work' = [AppendSet(work, pick.got) EXCEPT !.idx = 1, !.offset = 0]
          /\ pc' = IF NeedsWindowFirst THEN "window" ELSE "apply"
          /\ UNCHANGED healed
       \/ /\ pick.ret \in {"window", "extend"}
          /\ LET l == AppendSet(work, pick.got) IN
             work' = IF l.idx < 1 THEN [l EXCEPT !.idx = 1, !.offset = 0] ELSE l
          /\ pc' = pick.ret
          /\ UNCHANGED healed
       \/ /\ pick.ret = "apply"
          /\ work' = ReplaceTail(work, [Window(work) EXCEPT ![req.index] = pick.got[1]])
          /\ pc' = "extend"
          /\ UNCHANGED healed
       \/ /\ pick.ret = "heal"
          /\ healed' = [walls |-> Append(healed.walls, pick.got[1]), changed |-> TRUE]
          /\ pc' = "heal"
          /\ UNCHANGED work
    /\ UNCHANGED <<pickFrame, core, diskCore, layouts, req, before, sel, quar, resume, outer>>

-----------------------------------------------------------------------------
(* The transaction around the renderer. *)

AllPresent == \A i \in DOMAIN sel : sel[i] \in files

\* rollback_quarantine moves the file back, or fails to and goes on.
PutBack(q) ==
    \/ /\ files' = IF q.moved THEN files \cup {q.wall} ELSE files
       /\ quarantined' = IF q.moved THEN quarantined \ {q.wall} ELSE quarantined
       /\ UNCHANGED stranded
    \/ /\ "io" \in Faults /\ q.moved
       /\ stranded' = stranded \cup {q.wall}
       /\ UNCHANGED <<files, quarantined>>

Rollback_KeepsWork(r, b, q) ==     \* mutant: the layout worked on stays in memory
    /\ PutBack(q)
    /\ UNCHANGED core
    /\ layouts' = [layouts EXCEPT ![r.key] = work]

Rollback_LeavesFile(r, b, q) ==     \* mutant: the file stays in the quarantine directory
    /\ UNCHANGED <<files, quarantined, stranded, core>>
    /\ layouts' = [layouts EXCEPT ![r.key] = b.layout]

\* rollback_wallpaper_change for the request r with b and q prepared.
Rollback(r, b, q) ==
    /\ PutBack(q)
    /\ core' = IF Len(core.bag) = b.len
               THEN [core EXCEPT !.pos = Least(b.pos, Len(core.bag))] ELSE core
    /\ layouts' = [layouts EXCEPT ![r.key] = b.layout]

\* validate_image_paths refuses: the answer is an error and nothing is put back.
RefuseMissing ==
    /\ pc = "staged" /\ ~AllPresent
    /\ Finish
    /\ UNCHANGED <<files, quarantined, stranded, core, diskCore, layouts, diskLayouts, shown>>

\* The world cache does not cover the route and there is no fallback.
RefuseWorld ==
    /\ pc = "staged" /\ AllPresent
    /\ Rollback(req, before, quar)
    /\ Finish
    /\ UNCHANGED <<diskCore, diskLayouts, shown>>

\* move_quarantine, then the render request goes out.
MoveQuarantine ==
    /\ pc = "staged" /\ AllPresent
    /\ UNCHANGED stranded
    /\ IF quar.wall # NoWall /\ quar.wall \in files
       THEN /\ files' = files \ {quar.wall}
            /\ quarantined' = quarantined \cup {quar.wall}
            /\ quar' = [quar EXCEPT !.moved = TRUE]
       ELSE UNCHANGED <<files, quarantined, quar>>
    /\ pc' = "render"
    /\ UNCHANGED <<core, diskCore, layouts, diskLayouts, shown, req, work, before, sel, healed,
                   pick, resume, outer>>

\* The renderer answers ok: commit_wallpaper_change starts.
RenderOk ==
    /\ pc = "render"
    /\ shown' = [key |-> req.key, walls |-> sel]
    /\ core' \in IF quar.wall # NoWall THEN Without(core, quar.wall) ELSE {core}
    /\ pc' = "history"
    /\ UNCHANGED <<files, quarantined, stranded, diskCore, layouts, diskLayouts, opVars, resume, outer>>

\* The renderer answers with an error.  A failed startup display is only logged.
RenderFail ==
    /\ pc = "render"
    /\ IF req.kind = "startup" THEN UNCHANGED <<files, quarantined, stranded, core, layouts>>
       ELSE Rollback(req, before, quar)
    /\ Finish
    /\ UNCHANGED <<diskCore, diskLayouts, shown>>

\* favorite_action once the window is complete.
Favor ==
    /\ pc = "apply" /\ req.kind \in Favoring
    /\ LET target == Window(work)[req.index]
           marked == IF req.kind = "favorite" THEN core.favs \cup {target} ELSE core.favs \ {target}
       IN
       \/ /\ req.kind = "favorite" /\ target \notin files
          /\ Fail /\ UNCHANGED core
       \/ /\ req.kind = "favorite" => target \in files
          /\ core' \in Rebuilt([core EXCEPT !.favs = marked], files)
          /\ pc' = "history"
          /\ UNCHANGED <<layouts, opVars, resume, outer>>
    /\ UNCHANGED <<files, quarantined, stranded, diskCore, diskLayouts, shown>>

-----------------------------------------------------------------------------
(* LayoutState::write and persist_core_state: one atomic replace per file. *)

WriteLayoutFile(file, d, next) ==
    /\ pc = file
    /\ diskLayouts' = [diskLayouts EXCEPT ![req.key] = d]
    /\ pc' = next
    /\ UNCHANGED <<files, quarantined, stranded, core, diskCore, shown, opVars, resume, outer>>

WriteHistory_IndexFirst ==     \* mutant: the index file goes ahead of the history file
    /\ WriteLayoutFile("history", [diskLayouts[req.key] EXCEPT !.idx = work.idx], "index")
    /\ UNCHANGED layouts

WriteHistory_CachesEarly ==     \* mutant: in memory before all of it is on disk
    /\ WriteLayoutFile("history", [diskLayouts[req.key] EXCEPT !.history = work.history], "index")
    /\ layouts' = [layouts EXCEPT ![req.key] = work]

WriteHistory ==
    /\ WriteLayoutFile("history", [diskLayouts[req.key] EXCEPT !.history = work.history], "index")
    /\ UNCHANGED layouts

WriteIndex ==
    /\ WriteLayoutFile("index", [diskLayouts[req.key] EXCEPT !.idx = work.idx], "offset")
    /\ UNCHANGED layouts

WriteOffset_KeepsBefore ==     \* mutant: memory gets the layout from before the request
    /\ WriteLayoutFile("offset", [diskLayouts[req.key] EXCEPT !.offset = work.offset], "library")
    /\ layouts' = [layouts EXCEPT ![req.key] = before.layout]

\* The last file; the layout goes back into memory.
WriteOffset ==
    /\ WriteLayoutFile("offset", [diskLayouts[req.key] EXCEPT !.offset = work.offset], "library")
    /\ layouts' = [layouts EXCEPT ![req.key] = work]

WriteCoreFile(file, d, next) ==
    /\ pc = file
    /\ diskCore' = d
    /\ pc' = next
    /\ UNCHANGED <<opVars, resume, outer>>
    /\ UNCHANGED <<files, quarantined, stranded, core, layouts, diskLayouts, shown>>

WriteLibrary   == WriteCoreFile("library", [diskCore EXCEPT !.lib = core.lib], "favorites")
WriteFavorites == WriteCoreFile("favorites", [diskCore EXCEPT !.favs = core.favs], "walls")
WriteWalls     == WriteCoreFile("walls", [diskCore EXCEPT !.bag = core.bag], "walls_idx")

\* The last file: the request is answered, or the draw that rescanned goes on.
WriteWallsIdx ==
    /\ pc = "walls_idx"
    /\ diskCore' = [diskCore EXCEPT !.pos = core.pos]
    /\ IF resume = "draw"
       THEN pc' = "draw" /\ resume' = "idle" /\ UNCHANGED <<opVars, outer>>
       ELSE Finish
    /\ UNCHANGED <<files, quarantined, stranded, core, layouts, diskLayouts, shown>>

-----------------------------------------------------------------------------
(* Faults and the environment. *)

\* Files of the wall directory appear and disappear.
CreateFile(w) ==
    /\ "churn" \in Faults /\ w \notin files
    /\ files' = files \cup {w}
    /\ UNCHANGED <<quarantined, stranded, core, diskCore, layouts, diskLayouts, shown, pc, opVars, resume, outer>>

DeleteFile(w) ==
    /\ "churn" \in Faults /\ w \in files
    /\ files' = files \ {w}
    /\ UNCHANGED <<quarantined, stranded, core, diskCore, layouts, diskLayouts, shown, pc, opVars, resume, outer>>

Forget ==
    /\ core' = EmptyCore
    /\ layouts' = [k \in Keys |-> NoLayout]
    /\ shown' = NoShown
    /\ ResetOp /\ outer' = NoOuter
    /\ pc' = "down"

\* The supervisor dies; its renderer goes with the control channel.
Crash ==
    /\ "crash" \in Faults /\ pc # "down"
    /\ Forget
    /\ UNCHANGED <<files, quarantined, stranded, diskCore, diskLayouts>>

\* WallpaperControl::load of a new supervisor.
Restart ==
    /\ pc = "down"
    /\ core' \in Rescanned(diskCore, files)
    /\ req' = [NoReq EXCEPT !.kind = "load"]
    /\ pc' = "library"
    /\ UNCHANGED <<files, quarantined, stranded, diskCore, layouts, diskLayouts, shown, work, before, sel,
                   healed, quar, pick, resume, outer>>

\* A write of a state file fails.  A loading supervisor exits; a request ends
\* with an error, its layout dropped unless it is already back in memory.
WriteFails ==
    /\ "io" \in Faults /\ pc \in LayoutFiles \cup CoreFiles
    /\ \/ /\ req.kind = "load" /\ Forget
       \/ /\ req.kind # "load" /\ UNCHANGED <<core, shown>>
          /\ IF resume = "draw" THEN Fail ELSE Finish /\ UNCHANGED layouts
    /\ UNCHANGED <<files, quarantined, stranded, diskCore, diskLayouts>>

\* The move to the quarantine directory fails.
MoveFails ==
    /\ "io" \in Faults /\ pc = "staged" /\ AllPresent
    /\ quar.wall # NoWall /\ quar.wall \in files
    /\ Finish
    /\ UNCHANGED <<files, quarantined, stranded, core, diskCore, layouts, diskLayouts, shown>>

\* The renderer is found dead between requests.  Its successor runs
\* WallpaperControl::load on the same state directory, and the supervisor
\* displays the current layout again.
RendererRestart(k) ==
    /\ "restart" \in Faults /\ pc = "idle"
    /\ diskCore' \in Rescanned(diskCore, files)
    /\ shown' = NoShown
    /\ Begin("startup", k, 1, FALSE)
    /\ pc' = "init"
    /\ UNCHANGED <<files, quarantined, stranded, core, diskLayouts, outer>>

\* The renderer dies or times out on a render request: the supervisor restarts
\* it and restores the wallpapers before the request learns of the failure.
\* (A restore that fails the same way nests again in the code; here once.)
RendererLost ==
    /\ "restart" \in Faults /\ pc = "render" /\ outer = NoOuter
    /\ diskCore' \in Rescanned(diskCore, files)
    /\ shown' = NoShown
    /\ outer' = [req |-> req, before |-> before, quar |-> quar]
    /\ req' = [NoReq EXCEPT !.kind = "startup", !.key = req.key]
    /\ work' = TakeLayout(req.key)
    /\ layouts' = [layouts EXCEPT ![req.key] = NoLayout]
    /\ before' = [layout |-> TakeLayout(req.key), pos |-> core.pos, len |-> Len(core.bag)]
    /\ sel' = <<>> /\ quar' = NoQuar
    /\ pc' = "init"
    /\ UNCHANGED <<files, quarantined, stranded, core, diskLayouts, healed, pick, resume>>

Unwind_NoRollback ==     \* mutant: the restore ends the suspended request as well
    /\ pc = "unwind"
    /\ outer' = NoOuter /\ pc' = "idle"
    /\ UNCHANGED <<files, quarantined, stranded, core, layouts, diskCore, diskLayouts, shown, opVars, resume>>

\* The suspended request now fails in its turn.
Unwind ==
    /\ pc = "unwind"
    /\ IF outer.req.kind = "startup" THEN UNCHANGED <<files, quarantined, stranded, core, layouts>>
       ELSE Rollback(outer.req, outer.before, outer.quar)
    /\ outer' = NoOuter /\ pc' = "idle"
    /\ UNCHANGED <<diskCore, diskLayouts, shown, opVars, resume>>

-----------------------------------------------------------------------------
Request ==
    \/ \E k \in Keys : \E kind \in Actions, i \in 1..OutCount[k] :
           \/ \E capture \in BOOLEAN : Prepare(kind, k, i, capture)
           \/ PrepareFavorite(kind, k, i)
    \/ \E k \in Keys : Current(k)
    \/ Rescan
    \/ \E w \in Walls : AddTopLevelFile(w)

\* The supervisor's own steps: what it does once it handles a request.
Step ==
    \/ EnsureInitialized \/ EnsureWindow \/ Navigate \/ Replace \/ Heal \/ Stage
    \/ PickStart \/ DrawRebuild \/ Draw \/ DrawDone
    \/ RefuseMissing \/ RefuseWorld \/ MoveQuarantine \/ RenderOk \/ RenderFail \/ Favor
    \/ WriteHistory \/ WriteIndex \/ WriteOffset
    \/ WriteLibrary \/ WriteFavorites \/ WriteWalls \/ WriteWallsIdx
    \/ Restart \/ Unwind

Fault ==
    \/ \E w \in Walls : CreateFile(w) \/ DeleteFile(w)
    \/ Crash \/ WriteFails \/ MoveFails
    \/ \E k \in Keys : RendererRestart(k)
    \/ RendererLost

Next == Request \/ Step \/ Fault

Spec == Init /\ [][Next]_vars

\* The supervisor's thread keeps running, and a render request is answered or
\* times out.
FairSpec == Spec /\ WF_vars(Step)

-----------------------------------------------------------------------------
(* Properties. *)

LayoutFor(k) == IF k \in Keys THEN LayoutsOf(Walls, OutCount[k]) ELSE {EmptyLayout}
Quar == [wall : Walls, moved : BOOLEAN] \cup {NoQuar}
Req == [kind : AllActions \cup {"none", "load"}, key : Keys \cup {NoWall}, index : Nat \ {0},
        capture : BOOLEAN]
Pick == [need : Nat, exclude : Walls \cup {NoWall}, got : Seq(Walls), tries : Nat, dup : BOOLEAN,
         ret : {"none", "init", "window", "extend", "apply", "heal"}]
OpSteps == {"init", "window", "apply", "extend", "heal", "pick", "draw", "staged", "render"}
Steps == {"idle", "down", "unwind"} \cup OpSteps \cup LayoutFiles \cup CoreFiles

BeforeOK(b, r) == b.layout \in LayoutFor(r.key) /\ b.pos \in Nat /\ b.len \in Nat

StoreType ==
    /\ files \subseteq Walls /\ quarantined \subseteq Walls /\ stranded \subseteq Walls
    /\ core \in Cores(Walls) /\ diskCore \in Cores(Walls)
    /\ DOMAIN layouts = Keys /\ DOMAIN diskLayouts = Keys
    /\ \A k \in Keys : layouts[k] = NoLayout \/ layouts[k] \in LayoutFor(k)
    /\ \A k \in Keys : diskLayouts[k] \in LayoutFor(k)
    /\ shown \in [key : Keys \cup {NoWall}, walls : Seq(Walls)]
    /\ outer.req \in Req /\ BeforeOK(outer.before, outer.req) /\ outer.quar \in Quar

RequestType ==
    /\ pc \in Steps
    /\ req \in Req /\ work \in LayoutFor(req.key) /\ BeforeOK(before, req)
    /\ sel \in Seq(Walls)
    /\ healed \in [walls : Seq(Walls), changed : BOOLEAN]
    /\ quar \in Quar /\ pick \in Pick
    /\ resume \in {"idle", "draw"}

\* The variables hold values of their types; every set on the tape of a layout
\* has one wall per output of the layout.
TypeOK == StoreType /\ RequestType

\* A layout kept in memory is what its directory holds: `muralctl current` and
\* the next action see the same layout whether or not the daemon restarted in
\* between, whatever failed or was rolled back before.
CachedLayoutIsDurable ==
    \A k \in Keys : layouts[k] # NoLayout => layouts[k] = Load(diskLayouts[k], OutCount[k])

\* What is sent to the renderer is exactly the window of the layout that a
\* success would commit, one wall per output, after any mix of navigation,
\* pruning and healing.
StagedIsWindow ==
    pc \in {"staged", "render"} => Window(work) = sel /\ Len(sel) = N

\* While no request is being handled, the window of the layout that is current
\* for the outputs is what the renderer accepted last for them, whether the
\* requests since then succeeded, were refused or were rolled back.
ShownIsCurrent ==
    pc = "idle" /\ shown # NoShown => Window(TakeLayout(shown.key)) = shown.walls

\* Between requests the bag holds every wall of the library exactly as often as
\* its weight, and nothing else, although additions, removals, favourites and
\* quarantine each edit it in their own way.
BagHoldsLibrary ==
    pc = "idle" =>
        /\ \A i \in DOMAIN core.bag : core.bag[i] \in core.lib
        /\ \A w \in core.lib : Copies(core.bag, w) = Weight(w, core.favs)
        /\ core.favs \subseteq core.lib

\* Once a quarantine request is answered, its file is forgotten by the library
\* and the favourites, or back in its place, however the request ended and
\* whatever nested in it: a file that the library still names while it lies in
\* the quarantine directory is one whose move back failed and was only logged.
QuarantineSettled ==
    pc = "idle" =>
        /\ quarantined \cap files = {}
        /\ quarantined \cap (core.lib \cup core.favs) \subseteq stranded

\* While a request writes its files over a layout that fitted its tape, so also
\* when the daemon dies there, the cursor file points into the history file.
DurableCursorInHistory ==
    pc \in LayoutFiles /\ (before.layout = EmptyLayout \/ Complete(before.layout, N)) =>
        diskLayouts[req.key].idx <= Len(diskLayouts[req.key].history)

\* Where on the tape of l, counted in walls, a navigation request wants the window.
Destination(l) ==
    LET start == WindowStart(l, N) IN
    CASE req.kind = "next"          -> start + N
      [] req.kind = "back"          -> IF l.idx > 1 THEN start - N ELSE start
      [] req.kind = "shift_forward" -> start + 1
      [] req.kind = "shift_back"    -> MinusToZero(start, 1)

\* Whatever had to be drawn, appended and pruned on the way, a navigation request
\* comes to the window it asked for: the tape gets as many sets at its end as the
\* window needs, loses as many at its start as do not fit, keeps all others, and
\* the cursor has moved with it.  A replacement leaves the walls of the other
\* outputs as they were.
WindowMovesAsAsked ==
    pc = "heal" =>
        LET was  == before.layout
            full == Greatest(Len(was.history), (Destination(was) + 2 * N - 1) \div N)
            cut  == MinusToZero(full, MaxHistory)
        IN
        /\ req.kind \in Navigation =>
             /\ Len(work.history) = full - cut
             /\ WindowStart(work, N) = Destination(was) - cut * N
             /\ \A i \in cut + 1..Len(was.history) : work.history[i - cut] = was.history[i]
        /\ req.kind \in Replacing /\ Complete(was, N) =>
             \A i \in 1..N \ {req.index} : Window(work)[i] = Window(was)[i]

\* Every request is answered: the supervisor's only thread gets back to its loop.
EveryRequestAnswered == pc # "idle" ~> pc = "idle"

-----------------------------------------------------------------------------
(***************************************************************************)
(* The inductive invariant behind StagedIsWindow and TypeOK: what a step   *)
(* of a request relies on when it takes over from the one before it.       *)
(***************************************************************************)
InDraw == pc \in PickSteps \/ resume = "draw"
InHeal == pc = "heal" \/ (InDraw /\ pick.ret = "heal")
InInit == pc = "init" \/ (InDraw /\ pick.ret = "init")

\* Between requests nothing of a request is left.
RestReady ==
    pc \in {"idle", "down", "unwind"} => work = EmptyLayout /\ before = NoBefore /\ resume = "idle"

\* A request in progress has a layout, and an index within it.
RequestReady ==
    pc \in OpSteps \cup LayoutFiles \/ resume = "draw" => req.key \in Keys /\ req.index <= N

\* A draw knows who asked for it, and for how many walls.
DrawReady ==
    /\ resume = "draw" => pc \in CoreFiles
    /\ InDraw =>
         /\ pick.ret # "none"
         /\ pick.need = IF pick.ret \in {"apply", "heal"} THEN 1 ELSE N

\* Replacing a wall and marking a favourite find a complete window.
WindowReady ==
    /\ InInit => req.kind \notin Favoring
    /\ pc = "apply" /\ req.kind \in Replacing \cup Favoring => Complete(work, N)
    /\ InDraw /\ pick.ret = "apply" => Complete(work, N)

\* Healing works on the window of the layout, one wall after the other.
HealReady ==
    /\ InHeal =>
         /\ sel = Window(work) /\ Len(sel) = N
         /\ Len(healed.walls) <= N /\ (InDraw => Len(healed.walls) < N)
         /\ ~healed.changed => \A i \in DOMAIN healed.walls : healed.walls[i] = sel[i]
    /\ ~InHeal => healed = NoHealed

Ready == RestReady /\ RequestReady /\ DrawReady /\ WindowReady /\ HealReady /\ StagedIsWindow

Inductive == TypeOK /\ Ready

-----------------------------------------------------------------------------
(***************************************************************************)
(* The abstract transaction.  While the layout files are being written,    *)
(* the walls the renderer accepted are the offer, and the layout from      *)
(* before the request is still the current one; the write of the last      *)
(* file, which also brings the layout back into memory, is the commit.     *)
(* Everything else a request does is a stuttering step.                    *)
(***************************************************************************)
Committing == pc \in LayoutFiles /\ req.kind \notin Favoring

CurrentLayout(k) ==
    IF Committing /\ k = req.key THEN before.layout ELSE TakeLayout(k)

Transaction == INSTANCE RenderTransaction WITH
    Selections <- UNION {[1..OutCount[k] -> Walls] : k \in Keys},
    current    <- [k \in Keys |-> Window(CurrentLayout(k))],
    shown      <- {shown} \ {NoShown},
    offer      <- IF Committing THEN {[key |-> req.key, walls |-> sel]} ELSE {}

\* Walls become current only when the renderer has accepted them, an accepted
\* window is committed whole, and no failed or refused request leaves a trace
\* in what is current.
ImplementsTransaction == Transaction!Spec
=============================================================================
