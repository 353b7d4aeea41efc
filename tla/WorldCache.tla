----------------------------- MODULE WorldCache -----------------------------
(***************************************************************************)
(* The world cache: the files under cache/world-v1, the muralctl processes *)
(* that write them, the gate of the supervisor that decides from them      *)
(* whether a route can be shown, and the renderer that loads them.         *)
(*                                                                         *)
(* Any number of `muralctl world cache compute` processes run beside the   *)
(* daemon, some started by the daemon itself.  They share no lock: every   *)
(* file is written to a temporary name and renamed, and the temporary name *)
(* depends only on the final one.  The library directory changes under     *)
(* everybody, and each process scans it again at every step.               *)
(*                                                                         *)
(* Walls are numbers in path order, a library is the increasing sequence   *)
(* of the walls present, and its fingerprint is the sequence itself.  The  *)
(* version of a file stands for its length and modification time.          *)
(***************************************************************************)
EXTENDS WorldGrid, Sequences

CONSTANTS Walls,          \* a prefix of the positive numbers
          Bad,            \* the walls that cannot be decoded
          Outputs,
          Targets,        \* walls that requests ask for
          Actions,        \* kinds of request: "next", "set", "quarantine"
          UserOptions,    \* computes the user starts by hand
          Jobs,           \* compute processes that can run at once
          Torn,           \* what is read from a half-written file
          Fallback,       \* transition.world.fallback is configured
          MaxAutoTiles,   \* MAX_AUTO_WORLD_ROUTE_WARMUP_TILES (4)
          NearTileLimit,  \* WORLD_NEIGHBORHOOD_WARMUP_TILE_LIMIT (4)
          DedupeTtl,      \* WORLD_ROUTE_WARMUP_DEDUPE_TTL (half an hour), in steps of time
          MaxTroubles,    \* bound on library changes and killed computes together
          MaxComputes     \* bound on computes started by hand

\* What the arguments of a compute ask for.
OptionType ==
  [kind : {"all", "route", "neighborhood"}, routes : SUBSET (Walls \X Walls), centers : SUBSET Walls,
   radius : Nat, lod : Nat, limit : Nat, tileLimit : Nat]

ASSUME WorldCacheAssumption ==
  /\ IsFiniteSet(Walls) /\ Walls = 1 .. Cardinality(Walls)
  /\ Bad \subseteq Walls /\ Targets \subseteq Walls
  /\ IsFiniteSet(Outputs) /\ Outputs # {} /\ IsFiniteSet(Jobs) /\ Jobs # {}
  /\ Fallback \in BOOLEAN /\ Torn \notin Seq(Walls)
  /\ Actions \subseteq {"next", "set", "quarantine"}
  /\ MaxAutoTiles \in Nat /\ NearTileLimit \in Nat /\ DedupeTtl \in Nat \ {0} /\ MaxTroubles \in Nat
  /\ MaxComputes \in Nat /\ UserOptions \subseteq OptionType

VARIABLES files,    \* version of each wall in the library directory, 0 when absent
          disk,     \* the cache files, each with its temporary file
          jobs,     \* the compute processes
          mem,      \* the library the supervisor holds in memory
          at,       \* the wall each output shows or is on its way to
          req,      \* the request the supervisor is working on
          warm,     \* scheduled_world_warmups: the age of each, since it was last asked for
          changes, crashes, computes,
          \* history, only read by properties
          warmed,   \* routes a finished compute has just prepared
          disturbed \* something else changed since the gate accepted

env  == <<changes, crashes, computes>>
vars == <<files, disk, jobs, mem, at, req, warm, changes, crashes, computes, warmed, disturbed>>

-----------------------------------------------------------------------------
(* The library and its files. *)

Present  == { w \in Walls : files[w] > 0 }
\* The walls of a set in path order: the i-th has i - 1 before it.
PathOrder == [walls \in SUBSET Walls |->
  [i \in 1 .. Cardinality(walls) |->
     CHOOSE w \in walls : Cardinality({ v \in walls : v < w }) = i - 1]]
Library  == PathOrder[Present]
InLibrary(lib, w) == \E i \in DOMAIN lib : lib[i] = w
IndexOf(lib, w)   == (CHOOSE i \in DOMAIN lib : lib[i] = w) - 1

\* The geometry of every library size, worked out once.
Counts  == 0 .. Cardinality(Walls)
Indices == 0 .. Cardinality(Walls) - 1
Grid == [n \in Counts |-> Layout(n, AutoColumns(n))]
Levels == [n \in Counts |-> Lods(Grid[n].columns, Grid[n].rows)]
Keys == [n \in Counts |-> PyramidKeys(Grid[n].columns, Grid[n].rows)]
AllKeys == UNION { Keys[n] : n \in Counts }
\* world_route_cache_plan_for_entries of the daemon: level and tiles of a route.
DaemonLod ==
  [n \in Counts |-> [s \in Indices |-> [t \in Indices |-> RouteLod(Grid[n], s, t, Levels[n])]]]
DaemonKeys ==
  [n \in Counts |-> [s \in Indices |-> [t \in Indices |->
     IF DaemonLod[n][s][t] = NoLod THEN {} ELSE RouteKeys(Grid[n], s, t, DaemonLod[n][s][t])]]]
\* world_cache_selection of muralctl: it counts the cells in one scan and has
\* the columns and the levels from another.
ToolLayout == [n \in Counts |-> [g \in Counts |-> Layout(n, Grid[g].columns)]]
ToolLod ==
  [n \in Counts |-> [g \in Counts |-> [s \in Indices |-> [t \in Indices |->
     BuilderLod(ToolLayout[n][g], s, t, Levels[g])]]]]
ToolKeys ==
  [n \in Counts |-> [g \in Counts |-> [s \in Indices |-> [t \in Indices |->
     IF ToolLod[n][g][s][t] = NoLod THEN {} ELSE RouteKeys(ToolLayout[n][g], s, t, ToolLod[n][g][s][t])]]]]
\* The cells of a tile that lie in the grid.
Spanned(g, key) ==
  LET span == TileSpan(Grid[g].columns, Grid[g].rows, key)
  IN (span.r0 .. span.r1 - 1) \X (span.c0 .. span.c1 - 1)
\* The place of every cell with an entry, when rows are laid out by other columns.
Places == [n \in Counts |-> [g \in Counts |-> [h \in Counts |-> [key \in AllKeys |->
            { p \in Spanned(g, key) : p[1] * Grid[h].columns + p[2] \in 0 .. n - 1 }]]]]

\* cell_cache_entries: a cell is known by its path, length and time.
CellKeys(lib) == [i \in DOMAIN lib |-> <<lib[i], files[lib[i]]>>]

Manifest == [kind |-> "manifest"]
Snapshot(lib) == [kind |-> "snapshot", lib |-> lib]
Cell(key) == [kind |-> "cell", key |-> key]
\* A tile file is named by the library and grid, its place and what it covers.
Tile(lib, keys, key) ==
  [kind |-> "tile", lib |-> lib, key |-> key,
   covers |-> [p \in Places[Len(keys)][Len(lib)][Len(lib)][key] |->
                 keys[p[1] * Grid[Len(lib)].columns + p[2] + 1]]]

\* A file: at most one content, and the processes that are still writing it.
NoFile == [holds |-> {}, open |-> {}]
Whole(content) == [file |-> [holds |-> {content}, open |-> {}], tmp |-> NoFile]
Absent == [file |-> NoFile, tmp |-> NoFile]
At(name)     == IF name \in DOMAIN disk THEN disk[name] ELSE Absent
IsFile(name) == At(name).file.holds # {}
Put(name, entry) == [n \in DOMAIN disk \cup {name} |-> IF n = name THEN entry ELSE disk[n]]
\* What a reader may find: a file with an open writer may be incomplete.
Reads(name) == LET f == At(name).file IN f.holds \cup (IF f.open = {} THEN {} ELSE {Torn})

\* File::create truncates a temporary file that another process is writing; the
\* outcome is one of the two contents or, when they differ, a mixture.
Outcomes(tmp, content) ==
  IF tmp.open = {} \/ tmp.holds = {content} THEN {content} ELSE {content, Torn} \cup tmp.holds
Created(j, name, content) ==
  { Put(name, [At(name) EXCEPT !.tmp = [holds |-> {c}, open |-> @.open \cup {j}]]) :
      c \in Outcomes(At(name).tmp, content) }
Closed(f, j) == [f EXCEPT !.open = @ \ {j}]
\* fs::rename installs whatever bears the temporary name by then.
CanInstall(name) == At(name).tmp.holds # {}
Installed(j, name) ==
  Put(name, [file |-> Closed(IF CanInstall(name) THEN At(name).tmp ELSE At(name).file, j),
             tmp |-> NoFile])
\* A killed process leaves the files it was writing as they are.
Writing(j) == { n \in DOMAIN disk : j \in disk[n].file.open \cup disk[n].tmp.open }
Abandoned(f, j, torn) ==
  IF j \in f.open THEN [holds |-> IF torn THEN {Torn} ELSE f.holds, open |-> f.open \ {j}] ELSE f

-----------------------------------------------------------------------------
(* muralctl world cache compute. *)

AllScope == [kind |-> "all", routes |-> {}, centers |-> {}, radius |-> 0, lod |-> 0,
             limit |-> 0, tileLimit |-> 0]
RouteScope(routes) == [AllScope EXCEPT !.kind = "route", !.routes = routes]
NearScope(centers) ==
  [AllScope EXCEPT !.kind = "neighborhood", !.centers = centers, !.tileLimit = NearTileLimit]
NamedWalls(opts) == opts.centers \cup UNION { {r[1], r[2]} : r \in opts.routes }

Idle == [pc |-> "idle", opts |-> AllScope, lib |-> <<>>, status |-> <<>>, cells |-> <<>>,
         grid |-> <<>>, keys |-> <<>>, cellsTodo |-> {}, tilesTodo |-> {}, writing |-> Manifest,
         failed |-> FALSE, raced |-> FALSE]
Started(opts) == [Idle EXCEPT !.pc = "index", !.opts = opts]
Running(j) == jobs[j].pc # "idle"

\* The order of the pyramid: level by level, row by row.
Before(a, b) ==
  \/ a.lod < b.lod
  \/ a.lod = b.lod /\ a.row < b.row
  \/ a.lod = b.lod /\ a.row = b.row /\ a.column < b.column
First(tiles) == CHOOSE t \in tiles : \A u \in tiles \ {t} : Before(t, u)
Truncated(tiles, limit) == { t \in tiles : Cardinality({ u \in tiles : Before(u, t) }) < limit }

\* world_cache_selection: which tiles the scope needs, from the scans so far.
InCells(cells, w) == \E i \in DOMAIN cells : cells[i][1] = w
CellIndex(cells, w) == (CHOOSE i \in DOMAIN cells : cells[i][1] = w) - 1
Index(job, w) == CellIndex(job.cells, w)
NeededKeys(job) ==
  LET n == Len(job.cells)  g == Len(job.status)
  IN IF job.opts.kind = "route"
     THEN UNION { ToolKeys[n][g][Index(job, r[1])][Index(job, r[2])] : r \in job.opts.routes }
     ELSE UNION { NeighborKeys([ToolLayout[n][g] EXCEPT !.rows = Grid[g].rows], Index(job, w),
                               job.opts.radius, job.opts.lod) : w \in job.opts.centers }
Selectable(job) ==
  LET n == Len(job.cells)  g == Len(job.status)
  IN /\ \A w \in NamedWalls(job.opts) : InCells(job.cells, w)
     /\ job.opts.kind = "neighborhood" => job.opts.lod \in Levels[g]
     /\ \A r \in job.opts.routes : ToolLod[n][g][Index(job, r[1])][Index(job, r[2])] # NoLod
SelectedTiles(job) ==
  LET chosen == IF job.opts.kind = "all" THEN Keys[Len(job.grid)]
                ELSE Keys[Len(job.grid)] \cap NeededKeys(job)
  IN IF job.opts.tileLimit > 0 THEN Truncated(chosen, job.opts.tileLimit)
     ELSE IF job.opts.limit > 0 THEN {} ELSE chosen
TileName(job, key) == Tile(job.grid, job.keys, key)
\* selected_world_cell_indices_for_scope: what a tile needs is drawn from its
\* cells, which are only computed for their own sake with the whole world.
SelectedCells(job, tiles) ==
  LET count == Len(job.cells)
      under(key) == SpanIndices(Grid[Len(job.status)].columns, count,
                      TileSpan(Grid[Len(job.grid)].columns, Grid[Len(job.grid)].rows, key))
  IN IF job.opts.kind # "all" THEN {}
     ELSE IF job.opts.limit = 0 /\ job.opts.tileLimit = 0 THEN 0 .. count - 1
     ELSE (0 .. Smaller(job.opts.limit, count) - 1)
            \cup UNION { under(key) : key \in { k \in tiles : ~IsFile(TileName(job, k)) } }

Hole == <<0, 0>>
\* What drawing a wall from its source gives now.
FromSource(w) == IF files[w] = 0 \/ w \in Bad THEN Hole ELSE <<w, files[w]>>
\* load_or_generate_world_cell_thumbnail: the outcomes for one cell.
Thumbnails(key) ==
  IF IsFile(Cell(key)) THEN { IF c = Torn THEN Hole ELSE c : c \in Reads(Cell(key)) }
  ELSE { FromSource(key[1]) }
\* generate_world_tile: the cells of the selection, placed by the columns of
\* the status, under a tile of the later scan.
DrawnCells_Before(job, key) ==
  [p \in Places[Len(job.cells)][Len(job.grid)][Len(job.status)][key] |->
     job.cells[AtLeastOne(p[1] * Grid[Len(job.status)].columns + p[2])]]
DrawnCells(job, key) ==
  [p \in Places[Len(job.cells)][Len(job.grid)][Len(job.status)][key] |->
     job.cells[p[1] * Grid[Len(job.status)].columns + p[2] + 1]]
Pictures(job, key) ==
  LET cells == DrawnCells(job, key)
  IN { shows \in [DOMAIN cells -> UNION { Thumbnails(cells[p]) : p \in DOMAIN cells }] :
         \A p \in DOMAIN cells : shows[p] \in Thumbnails(cells[p]) }

\* The gate has let the request pass, the renderer has not answered yet.
Accepted == req.pc \in {"move", "plan", "render"}

Trouble        == changes + crashes < MaxTroubles
SetJob(j, job) == jobs' = [jobs EXCEPT ![j] = job]
Abort(j)       == SetJob(j, Idle)
NoChange == UNCHANGED <<files, mem, at, req, warm, env>>

\* write_world_cache_index: the snapshot of the library, then the manifest.
CreateSnapshot_Manifest(j) ==
  /\ jobs[j].pc = "index"
  /\ disk' \in Created(j, Manifest, Library)
  /\ SetJob(j, [jobs[j] EXCEPT !.pc = "manifest tmp", !.lib = Library])
  /\ NoChange /\ UNCHANGED <<warmed, disturbed>>
CreateSnapshot(j) ==
  /\ jobs[j].pc = "index"
  /\ disk' \in Created(j, Snapshot(Library), Library)
  /\ SetJob(j, [jobs[j] EXCEPT !.pc = "snapshot", !.lib = Library])
  /\ NoChange /\ UNCHANGED <<warmed, disturbed>>

InstallSnapshot(j) ==
  LET name == Snapshot(jobs[j].lib)
  IN /\ jobs[j].pc = "snapshot"
     /\ disk' = Installed(j, name)
     /\ IF CanInstall(name) THEN SetJob(j, [jobs[j] EXCEPT !.pc = "manifest"]) ELSE Abort(j)
     /\ disturbed' = Accepted
     /\ NoChange /\ UNCHANGED warmed

CreateManifest(j) ==
  /\ jobs[j].pc = "manifest"
  /\ disk' \in Created(j, Manifest, jobs[j].lib)
  /\ SetJob(j, [jobs[j] EXCEPT !.pc = "manifest tmp"])
  /\ NoChange /\ UNCHANGED <<warmed, disturbed>>

InstallManifest(j) ==
  /\ jobs[j].pc = "manifest tmp"
  /\ disk' = Installed(j, Manifest)
  /\ IF CanInstall(Manifest) THEN SetJob(j, [jobs[j] EXCEPT !.pc = "status", !.lib = <<>>]) ELSE Abort(j)
  /\ disturbed' = Accepted
  /\ NoChange /\ UNCHANGED warmed

\* world_cache_selection scans the library again for the status, for the cells,
\* for the grid of the tiles and for what the tiles cover.
ScanStatus(j) ==
  /\ jobs[j].pc = "status"
  /\ SetJob(j, [jobs[j] EXCEPT !.pc = "cells", !.status = Library])
  /\ NoChange /\ UNCHANGED <<disk, warmed, disturbed>>

ScanCells(j) ==
  /\ jobs[j].pc = "cells"
  /\ SetJob(j, [jobs[j] EXCEPT !.pc = "grid", !.cells = CellKeys(Library)])
  /\ NoChange /\ UNCHANGED <<disk, warmed, disturbed>>

ScanGrid(j) ==
  /\ jobs[j].pc = "grid"
  /\ SetJob(j, [jobs[j] EXCEPT !.pc = "keys", !.grid = Library])
  /\ NoChange /\ UNCHANGED <<disk, warmed, disturbed>>

Consistent(job) ==
  /\ job.status = job.grid /\ job.grid = Library /\ job.cells = CellKeys(Library)
ScanKeys(j) ==
  LET job   == [jobs[j] EXCEPT !.keys = CellKeys(Library)]
      tiles == SelectedTiles(job)
  IN /\ jobs[j].pc = "keys"
     /\ IF Selectable(job)
        THEN SetJob(j, [job EXCEPT !.pc = "generate", !.tilesTodo = tiles,
                                   !.cellsTodo = SelectedCells(job, tiles),
                                   !.raced = ~Consistent(job)])
        ELSE Abort(j)
     /\ NoChange /\ UNCHANGED <<disk, warmed, disturbed>>

\* compute_world_cache: cells in order, then tiles in order; what exists is
\* skipped, what fails is recorded and left out.
LeastCell(job) == CHOOSE i \in job.cellsTodo : \A k \in job.cellsTodo : i <= k
NextCell(job)  == job.cells[LeastCell(job) + 1]
WithoutCell(job) == [job EXCEPT !.cellsTodo = @ \ {LeastCell(job)}]

GenerateCell(j) ==
  LET job == jobs[j]
      key == NextCell(job)
  IN /\ job.pc = "generate" /\ job.cellsTodo # {}
     /\ IF IsFile(Cell(key)) \/ FromSource(key[1]) = Hole
        THEN /\ SetJob(j, [WithoutCell(job) EXCEPT !.failed = @ \/ ~IsFile(Cell(key))])
             /\ UNCHANGED disk
        ELSE /\ disk' \in Created(j, Cell(key), FromSource(key[1]))
             /\ SetJob(j, [WithoutCell(job) EXCEPT !.pc = "install", !.writing = Cell(key)])
     /\ NoChange /\ UNCHANGED <<warmed, disturbed>>

GenerateTile(j) ==
  LET job  == jobs[j]
      key  == First(job.tilesTodo)
      tile == TileName(job, key)
      done == [job EXCEPT !.tilesTodo = @ \ {key}]
  IN /\ job.pc = "generate" /\ job.cellsTodo = {} /\ job.tilesTodo # {}
     /\ IF IsFile(tile) THEN SetJob(j, done) /\ UNCHANGED disk
        ELSE \E shows \in Pictures(job, key) :
               /\ disk' \in Created(j, tile, [shows |-> shows, raced |-> job.raced])
               /\ SetJob(j, [done EXCEPT !.pc = "install", !.writing = tile,
                               !.failed = @ \/ \E p \in DOMAIN shows : shows[p] = Hole])
     /\ NoChange /\ UNCHANGED <<warmed, disturbed>>

Install(j) ==
  LET job == jobs[j]
  IN /\ job.pc = "install"
     /\ disk' = Installed(j, job.writing)
     /\ SetJob(j, [job EXCEPT !.pc = "generate", !.writing = Manifest,
                              !.failed = @ \/ ~CanInstall(job.writing)])
     /\ NoChange /\ UNCHANGED <<warmed, disturbed>>

Finish(j) ==
  LET job == jobs[j]
  IN /\ job.pc = "generate" /\ job.cellsTodo = {} /\ job.tilesTodo = {}
     /\ Abort(j)
     /\ warmed' = IF ~job.failed /\ ~job.raced /\ Consistent(job)
                     /\ job.opts.kind = "route" /\ job.opts.limit = 0 /\ job.opts.tileLimit = 0
                  THEN warmed \cup job.opts.routes ELSE warmed
     /\ NoChange /\ UNCHANGED <<disk, disturbed>>

JobStep(j) ==
  \/ CreateSnapshot(j) \/ InstallSnapshot(j) \/ CreateManifest(j) \/ InstallManifest(j)
  \/ ScanStatus(j) \/ ScanCells(j) \/ ScanGrid(j) \/ ScanKeys(j)
  \/ GenerateCell(j) \/ GenerateTile(j) \/ Install(j) \/ Finish(j)

JobCrash(j) ==
  /\ Running(j) /\ Trouble
  /\ crashes' = crashes + 1
  /\ \E torn \in IF Writing(j) = {} THEN {FALSE} ELSE BOOLEAN :
       disk' = [n \in DOMAIN disk |-> [file |-> Abandoned(disk[n].file, j, torn),
                                       tmp  |-> Abandoned(disk[n].tmp, j, torn)]]
  /\ Abort(j)
  /\ UNCHANGED <<files, mem, at, req, warm, changes, computes, warmed, disturbed>>

UserCompute(j) ==
  /\ ~Running(j) /\ computes < MaxComputes
  /\ computes' = computes + 1
  /\ \E opts \in UserOptions : NamedWalls(opts) \subseteq Present /\ SetJob(j, Started(opts))
  /\ UNCHANGED <<files, disk, mem, at, req, warm, changes, crashes, warmed, disturbed>>

-----------------------------------------------------------------------------
(* The gate of the supervisor. *)

Hard   == [kind |-> "hard", lib |-> <<>>]
Refuse == [kind |-> "fallback", lib |-> <<>>]
Use(lib) == [kind |-> "use", lib |-> lib]

\* read_indexed_world_cache_snapshot.
IndexedSnapshot(lib) ==
  IF ~IsFile(Snapshot(lib)) THEN {Refuse}
  ELSE { IF c = lib THEN Use(lib) ELSE Hard : c \in Reads(Snapshot(lib)) }
\* world_cache_status and world_route_cache_snapshot: an incomplete manifest
\* is invalid, or stale with a fingerprint that has no snapshot.
CacheSnapshots ==
  IF ~IsFile(Manifest) THEN {Hard}
  ELSE UNION { IF c = Torn THEN {Hard, Refuse}
               ELSE IF c = Library THEN { IF mem = Library THEN Use(Library) ELSE Refuse }
               ELSE IndexedSnapshot(c) : c \in Reads(Manifest) }

\* world_route_cache_plan_for_entries: a route for every output, from where it
\* is or is heading to the wall of its entry.  Every wall of the snapshot must
\* still be there to name the tiles.
Route(lib, o, w) ==
  LET s == IndexOf(lib, at[o])  t == IndexOf(lib, w)
  IN [from |-> s, to |-> t, lod |-> DaemonLod[Len(lib)][s][t]]
RoutePlan(snapshot, entries) ==
  LET lib == snapshot.lib
      routes == [o \in DOMAIN entries |-> Route(lib, o, entries[o])]
  IN IF snapshot.kind # "use" THEN snapshot
     ELSE IF \E i \in DOMAIN lib : lib[i] \notin Present THEN Hard
     ELSE IF \E o \in DOMAIN entries : ~InLibrary(lib, at[o]) \/ ~InLibrary(lib, entries[o]) THEN Refuse
     ELSE IF \E o \in DOMAIN entries : routes[o].lod = NoLod THEN Refuse
     ELSE [kind |-> "plan", lib |-> lib, routes |-> routes]
RoutePlans(entries) == { RoutePlan(s, entries) : s \in CacheSnapshots }

TilesOf(plan, o) ==
  LET r == plan.routes[o]
  IN { Tile(plan.lib, CellKeys(plan.lib), key) : key \in DaemonKeys[Len(plan.lib)][r.from][r.to] }
MissingTiles(plan) == { t \in UNION { TilesOf(plan, o) : o \in DOMAIN plan.routes } : ~IsFile(t) }

\* auto_skip_reason: only a few tiles of the finest level are worth a compute.
AutoWarmup(missing) ==
  Cardinality(missing) <= MaxAutoTiles /\ \A t \in missing : t.key.lod = 0

\* prune_scheduled_world_warmups
Remembered_All == warm     \* mutant: an entry is kept for good
Remembered == [opts \in { o \in DOMAIN warm : warm[o] < DedupeTtl } |-> warm[opts]]

\* schedule_world_cache_warmup: the arguments are the key.  Asking again starts
\* nothing and makes the entry young again; a compute that could not be started
\* is forgotten, one that was started is not, however it ends.
CanSpawn(opts) == NamedWalls(opts) \subseteq Present /\ \E j \in Jobs : ~Running(j)
Noted(opts) ==
  [o \in DOMAIN Remembered \cup {opts} |-> IF o = opts THEN 0 ELSE Remembered[o]]
Schedule(opts) ==
  \/ /\ opts \in DOMAIN Remembered
     /\ warm' = Noted(opts) /\ UNCHANGED jobs
  \/ /\ opts \notin DOMAIN Remembered /\ CanSpawn(opts)
     /\ warm' = Noted(opts)
     /\ \E j \in Jobs : ~Running(j) /\ SetJob(j, Started(opts))
  \/ /\ opts \notin DOMAIN Remembered /\ ~CanSpawn(opts)
     /\ warm' = Remembered /\ UNCHANGED jobs

\* Time passes for all of them.
TimePasses ==
  /\ \E opts \in DOMAIN warm : warm[opts] < DedupeTtl
  /\ warm' = [opts \in DOMAIN warm |-> Smaller(warm[opts] + 1, DedupeTtl)]
  /\ UNCHANGED <<files, disk, jobs, mem, at, req, env, warmed, disturbed>>

NoRequest == [pc |-> "idle", action |-> "next", entries |-> <<>>, plan |-> Hard, removed |-> <<>>]

\* A public request: "next" names a wall for every output, an explicit set for
\* some, and "quarantine" replaces the wall of one; validate_image_paths wants
\* the files of the entries.
RequestFor(action, names) ==
  /\ action = "next" => names = Outputs
  /\ action = "quarantine" => Cardinality(names) = 1
Request ==
  /\ req.pc = "idle"
  /\ \E action \in Actions, names \in SUBSET Outputs \ {{}} :
       /\ RequestFor(action, names)
       /\ \E entries \in [names -> Targets \cap Present] :
            /\ action = "quarantine" => \A o \in names : at[o] \in Present /\ entries[o] # at[o]
            /\ req' = [NoRequest EXCEPT !.pc = "gate", !.action = action, !.entries = entries]
  /\ UNCHANGED <<files, disk, jobs, mem, at, warm, env, warmed, disturbed>>

\* The answer goes out; the shown wall tells how it ended.
Answered == req' = NoRequest /\ disturbed' = FALSE
Reached(entries) == [o \in Outputs |-> IF o \in DOMAIN entries THEN entries[o] ELSE at[o]]

\* validate_world_cache_for_entries accepts.
GateAccepts ==
  /\ req.pc = "gate"
  /\ \E plan \in RoutePlans(req.entries) :
       /\ plan.kind = "plan" /\ MissingTiles(plan) = {}
       /\ req' = [req EXCEPT !.pc = IF req.action = "quarantine" THEN "move" ELSE "plan"]
  /\ UNCHANGED <<files, disk, jobs, mem, at, warm, env, warmed, disturbed>>

\* It refuses for good: nothing is warmed and no fallback is used.
GateRefuses ==
  /\ req.pc = "gate" /\ Hard \in RoutePlans(req.entries)
  /\ Answered
  /\ UNCHANGED <<files, disk, jobs, mem, at, warm, env, warmed>>

\* The walls that a quarantine takes out of the library.
Quarantined == IF req.action = "quarantine" THEN { at[o] : o \in DOMAIN req.entries } ELSE {}
Forgets(walls) == mem' = PathOrder[{ mem[i] : i \in DOMAIN mem } \ walls]
WithoutWalls(walls) ==
  files' = [w \in Walls |-> IF w \in walls THEN 0 ELSE files[w]] /\ Forgets(walls)

\* The request is answered by the fallback transition or by a refusal; a wall
\* to be quarantined goes only with the fallback.
AnsweredWithout ==
  IF Fallback
  THEN /\ Answered
       /\ at' = Reached(req.entries)
       /\ WithoutWalls(Quarantined)
       /\ warmed' = IF Quarantined = {} THEN warmed ELSE {}
  ELSE Answered /\ UNCHANGED <<at, files, mem, warmed>>

\* Tiles are missing: a small miss starts a compute of exactly these routes.
GateWarms ==
  /\ req.pc = "gate"
  /\ \E plan \in RoutePlans(req.entries) :
       /\ plan.kind = "plan" /\ MissingTiles(plan) # {}
       /\ IF AutoWarmup(MissingTiles(plan))
          THEN Schedule(RouteScope({ <<at[o], req.entries[o]>> : o \in DOMAIN req.entries }))
          ELSE UNCHANGED <<warm, jobs>>
  /\ AnsweredWithout
  /\ UNCHANGED <<disk, env>>

\* No plan at all, with leave to fall back.
GateFallsBack ==
  /\ req.pc = "gate" /\ Refuse \in RoutePlans(req.entries)
  /\ AnsweredWithout
  /\ UNCHANGED <<disk, jobs, warm, env>>

\* move_quarantine: the wall an output shows leaves the library directory
\* before the next one is rendered.
MoveQuarantine ==
  /\ req.pc = "move"
  /\ \E w \in Quarantined :
       /\ files' = [files EXCEPT ![w] = 0]
       /\ req' = [req EXCEPT !.pc = "plan", !.removed = <<w, files[w]>>]
  /\ warmed' = {}
  /\ UNCHANGED <<disk, jobs, mem, at, warm, env, disturbed>>
\* rollback_wallpaper_change moves the file back.
RolledBackFiles ==
  IF req.removed = <<>> THEN files ELSE [files EXCEPT ![req.removed[1]] = req.removed[2]]
RolledBack ==
  files' = RolledBackFiles /\ warmed' = IF req.removed = <<>> THEN warmed ELSE {}

\* world_render_request_for_entries makes the plan again, from a new status and
\* new scans, without looking for the tiles.
PlanAgain ==
  /\ req.pc = "plan"
  /\ \E plan \in RoutePlans(req.entries) :
       IF plan.kind = "plan"
       THEN req' = [req EXCEPT !.pc = "render", !.plan = plan] /\ UNCHANGED <<files, warmed, disturbed>>
       ELSE Answered /\ RolledBack
  /\ UNCHANGED <<disk, jobs, mem, at, warm, env>>

\* The renderer reads the snapshot by its fingerprint, checks its budgets and
\* loads every tile.
KnowsSnapshot_Current(lib) == { lib = Library }
KnowsSnapshot(lib) ==
  IF IsFile(Snapshot(lib)) THEN { c = lib : c \in Reads(Snapshot(lib)) } ELSE { lib = Library }
WithinBudget(plan) ==
  /\ \A o \in DOMAIN plan.routes : Cardinality(TilesOf(plan, o)) \in 1 .. MaxRouteTiles
  /\ Cardinality(UNION { {o} \X TilesOf(plan, o) : o \in DOMAIN plan.routes }) <= MaxRequestTiles
Loads(plan) ==
  IF /\ \A i \in DOMAIN plan.lib : plan.lib[i] \in Present
     /\ WithinBudget(plan)
     /\ \A o \in DOMAIN plan.routes : req.entries[o] \in Present \ Bad
     /\ MissingTiles(plan) = {}
  THEN IF \E o \in DOMAIN plan.routes : \E t \in TilesOf(plan, o) : Torn \in Reads(t)
       THEN {TRUE, FALSE} ELSE {TRUE}
  ELSE {FALSE}
MayRender(plan) == TRUE \in KnowsSnapshot(plan.lib) /\ TRUE \in Loads(plan)
MayFail(plan) == FALSE \in KnowsSnapshot(plan.lib) \/ FALSE \in Loads(plan)

Near == IF mem = <<>> THEN {{}} ELSE { {mem[i]} : i \in DOMAIN mem }
\* The renderer accepts; a compute for the surroundings is started for later.
Render ==
  /\ req.pc = "render" /\ MayRender(req.plan)
  /\ Answered
  /\ at' = Reached(req.entries)
  /\ Forgets(Quarantined)
  /\ \E near \in Near :
       Schedule(NearScope({ at[o] : o \in DOMAIN req.entries }
                         \cup { req.entries[o] : o \in DOMAIN req.entries } \cup near))
  /\ UNCHANGED <<files, disk, env, warmed>>

RenderRefused ==
  /\ req.pc = "render" /\ MayFail(req.plan)
  /\ Answered /\ RolledBack
  /\ UNCHANGED <<disk, jobs, mem, at, warm, env>>

-----------------------------------------------------------------------------
(* The library directory and the supervisor's view of it. *)

Changed(w, version) ==
  /\ Trouble
  /\ changes' = changes + 1
  /\ files' = [files EXCEPT ![w] = version]
  /\ warmed' = {} /\ disturbed' = Accepted
  /\ UNCHANGED <<disk, jobs, mem, at, req, warm, crashes, computes>>
\* A file that comes, be it back, is newer than all the files before.
FileAdded     == \E w \in Walls \ (Present \cup Quarantined) : Changed(w, changes + 2)
FileRemoved   == \E w \in Present : Changed(w, 0)
FileRewritten == \E w \in Present : Changed(w, files[w] + 1)

\* Between two requests a rescan or the watcher brings the supervisor up to date.
Rescan ==
  /\ req.pc = "idle" /\ mem # Library
  /\ mem' = Library
  /\ UNCHANGED <<files, disk, jobs, at, req, warm, env, warmed, disturbed>>

-----------------------------------------------------------------------------
\* The daemon has scanned its library; the cache is empty or just indexed.
Init ==
  /\ files \in [Walls -> 0 .. 1] /\ Targets \subseteq Present
  /\ mem = Library
  /\ at \in [Outputs -> Present]
  /\ \E indexed \in BOOLEAN :
       disk = [n \in IF indexed THEN {Manifest, Snapshot(Library)} ELSE {} |-> Whole(Library)]
  /\ jobs = [j \in Jobs |-> Idle]
  /\ req = NoRequest /\ warm = <<>>
  /\ changes = 0 /\ crashes = 0 /\ computes = 0 /\ warmed = {} /\ disturbed = FALSE

Supervise == GateAccepts \/ GateRefuses \/ GateWarms \/ GateFallsBack
               \/ MoveQuarantine \/ PlanAgain \/ Render \/ RenderRefused
Next ==
  \/ \E j \in Jobs : JobStep(j) \/ JobCrash(j) \/ UserCompute(j)
  \/ Request \/ Supervise \/ TimePasses
  \/ FileAdded \/ FileRemoved \/ FileRewritten \/ Rescan

Spec == Init /\ [][Next]_vars

\* A compute that runs makes progress, the supervisor works on its request and
\* the user asks again.  How fast time passes meanwhile is left open.
FairSpec ==
  /\ Spec
  /\ \A j \in Jobs : WF_jobs(JobStep(j))
  /\ WF_req(Request \/ Supervise)

-----------------------------------------------------------------------------
(* Properties. *)

Libraries == { PathOrder[walls] : walls \in SUBSET Walls }
Entries   == Walls \X Nat
Lists     == UNION { [1 .. n -> Entries] : n \in Counts }
TileNames ==
  UNION { UNION { { Tile(lib, keys, key) : key \in AllKeys } : keys \in Lists } : lib \in Libraries }
Names     == {Manifest} \cup { Snapshot(lib) : lib \in Libraries } \cup { Cell(e) : e \in Entries }
               \cup TileNames
JobType ==
  [pc : {"idle", "index", "snapshot", "manifest", "manifest tmp", "status", "cells", "grid", "keys",
         "generate", "install"},
   opts : OptionType, lib : Libraries, status : Libraries, cells : Lists, grid : Libraries,
   keys : Lists, cellsTodo : SUBSET Indices, tilesTodo : SUBSET AllKeys,
   writing : Names, failed : BOOLEAN, raced : BOOLEAN]
\* The cells of the tiles, in their places, and what a file holds, by its name.
Shapes == { Places[n][g][h][key] : n, g, h \in Counts, key \in AllKeys }
Contents(n) ==
  CASE n.kind = "manifest" -> Libraries
    [] n.kind = "snapshot" -> {n.lib}
    [] n.kind = "cell"     -> Entries
    [] n.kind = "tile"     -> [shows : UNION { [places -> Entries \cup {Hole}] : places \in Shapes },
                               raced : BOOLEAN]
FileType(n) == [holds : SUBSET (Contents(n) \cup {Torn}), open : SUBSET Jobs]
RouteType == [from : Indices, to : Indices, lod : UNION { Levels[n] : n \in Counts }]
Selections == UNION { [names -> Walls] : names \in SUBSET Outputs }
RequestType ==
  [pc : {"idle", "gate", "move", "plan", "render"}, action : {"next", "set", "quarantine"},
   entries : Selections, plan : [kind : {"hard", "fallback", "use"}, lib : Libraries] \cup
     [kind : {"plan"}, lib : Libraries, routes : UNION { [names -> RouteType] : names \in SUBSET Outputs }],
   removed : Entries \cup {<<>>}]

\* Every variable has the values the code can give it; indices, the places of
\* tiles and the routes of a plan stay within the library they were made for.
TypeOK ==
  /\ files \in [Walls -> Nat]
  /\ DOMAIN disk \subseteq Names
  /\ \A n \in DOMAIN disk : disk[n] \in [file : FileType(n), tmp : FileType(n)]
  /\ jobs \in [Jobs -> JobType]
  /\ mem \in Libraries /\ at \in [Outputs -> Walls]
  /\ req \in RequestType
  /\ DOMAIN warm \subseteq OptionType /\ \A o \in DOMAIN warm : warm[o] \in 0 .. DedupeTtl
  /\ changes \in Nat /\ crashes \in Nat /\ computes \in Nat
  /\ warmed \subseteq Walls \X Walls /\ disturbed \in BOOLEAN

\* What may come between the check of the gate and the answer of the renderer:
\* a change of the library or of the index, a file that two computes write at
\* once, and a wall that cannot be decoded.
Excused ==
  \/ disturbed
  \/ \E n \in DOMAIN disk : Torn \in Reads(n)
  \/ \E o \in DOMAIN req.entries : req.entries[o] \in Bad
Refused == (PlanAgain /\ req' = NoRequest) \/ RenderRefused

\* What the gate of the supervisor accepts the renderer shows: between the check
\* of the tiles and their upload the plan is made anew, by two processes that
\* read the same files.  (For what a quarantine does to this, see the README.)
AcceptedIsRendered == [][Refused /\ req.action # "quarantine" => Excused]_req

\* The tiles a finished route warm-up leaves behind are the tiles the daemon
\* looks for: muralctl and the daemon agree on the level, the tiles of the route
\* and the names, as long as the library stays as it was.
WarmupWarms ==
  \A r \in warmed :
    LET lib == Library
    IN \A key \in DaemonKeys[Len(lib)][IndexOf(lib, r[1])][IndexOf(lib, r[2])] :
         IsFile(Tile(lib, CellKeys(lib), key))

\* A tile shows what its name says: every cell under it has its wall, as new as
\* the name or newer, or stays empty, unless the library changed between the
\* scans of one compute.
TilesShowTheirWalls ==
  \A n \in DOMAIN disk : n.kind = "tile" =>
    \A c \in disk[n].file.holds \ {Torn} :
      \/ c.raced
      \/ \A p \in DOMAIN c.shows :
           \/ c.shows[p] = Hole
           \/ p \in DOMAIN n.covers /\ c.shows[p][1] = n.covers[p][1] /\ c.shows[p][2] >= n.covers[p][2]

\* A compute that dies anywhere leaves no manifest whose snapshot was never
\* written: a stale manifest leads to the paths it was made from.  The snapshot
\* is torn only if another compute of the same library died while writing it.
ManifestHasSnapshot ==
  \A lib \in At(Manifest).file.holds \ {Torn} :
    /\ IsFile(Snapshot(lib))
    /\ crashes = 0 \/ Cardinality(Jobs) = 1 => At(Snapshot(lib)).file.holds = {lib}

\* Every warm-up that was asked for has been left alone for half an hour.
Rested == \A opts \in DOMAIN warm : warm[opts] = DedupeTtl

\* With an index in place, and as long as the library stays as it is, a user who
\* keeps asking, but now and then leaves it alone for half an hour, gets there:
\* a small gap is warmed, and a compute that died is started again once its
\* entry has lapsed.  (An index that is there stays there, and an output that is
\* there stays among the targets.)
RetriesSucceed ==
  []<>Rested =>
    []<>(IsFile(Manifest) /\ ~Fallback => changes > 0 \/ \A o \in Outputs : at[o] \in Targets)
=============================================================================
