---------------------- MODULE WallpaperTransactionProofs ----------------------
(***************************************************************************)
(* Proofs about the transaction that WallpaperControl runs for a request:  *)
(* where a quarantined file ends, how memory and the state files agree,    *)
(* and that the requests implement RenderTransaction.  Each theorem names  *)
(* the faults it excludes; walls, outputs, history length and weights are  *)
(* arbitrary.                                                              *)
(***************************************************************************)
EXTENDS WallpaperControlProofs

-----------------------------------------------------------------------------
(* What the operators on the bag do to the library and the favourites. *)

Known(c) == c.lib \cup c.favs

LEMMA RebuiltKnown ==
    ASSUME NEW c, NEW F, NEW d \in Rebuilt(c, F)
    PROVE  Known(d) \subseteq Known(c) \cup F
    BY DEF Rebuilt, Known

LEMMA RescannedKnown ==
    ASSUME NEW c, NEW F, NEW d \in Rescanned(c, F)
    PROVE  Known(d) \subseteq F
    <1>1. PICK m : /\ m.lib = F /\ m.favs \subseteq F
                   /\ d \in IF m.bag = <<>> /\ m.lib # {} THEN Rebuilt(m, F) ELSE {m}
          BY DEF Rescanned
    <1>2. d = m \/ d \in Rebuilt(m, F)
          BY <1>1
    <1>3. Known(m) \subseteq F
          BY <1>1 DEF Known
    <1>4. QED  BY <1>2, <1>3, RebuiltKnown

LEMMA WithoutKnown ==
    ASSUME NEW c, NEW w, NEW d \in Without(c, w)
    PROVE  Known(d) = Known(c) \ {w}
    <1>1. PICK b : d = [lib |-> c.lib \ {w}, favs |-> c.favs \ {w}, bag |-> b, pos |-> c.pos]
          BY Zenon DEF Without
    <1>2. d.lib = c.lib \ {w} /\ d.favs = c.favs \ {w}
          BY <1>1
    <1>3. QED  BY <1>2 DEF Known

-----------------------------------------------------------------------------
(***************************************************************************)
(* The quarantined files.  A file that a request in progress has moved is  *)
(* still in the library until the renderer accepts the request; a restore  *)
(* that interrupts the request holds it in outer.                          *)
(***************************************************************************)
MovedBy(q) == IF q.moved THEN {q.wall} ELSE {}
Displaced  == (IF pc = "render" THEN MovedBy(quar) ELSE {}) \cup MovedBy(outer.quar)

\* Only a quarantine request plans a move, and between requests none is left.
MovePlanned ==
    /\ quar # NoQuar => req.kind = "quarantine"
    /\ pc \in Step0 => quar = NoQuar
    /\ outer.quar # NoQuar => outer.req.kind = "quarantine"
    /\ pc = "idle" => outer = NoOuter

FilesKept ==
    /\ quarantined \cap files = {}
    /\ quarantined \cap Known(core) \subseteq Displaced \cup stranded

QuarantineKept == MovePlanned /\ FilesKept

NoChurn == "churn" \notin Faults

\* Steps outside a render request that leave the files alone and know no wall
\* whose file is gone.
LEMMA QuietQuarantine ==
    ASSUME QuarantineKept, pc # "render", UNCHANGED <<files, quarantined, stranded, outer>>,
           Known(core') \subseteq Known(core) \cup files,
           \/ quar' = NoQuar
           \/ pc' \notin Step0 /\ quar' = quar /\ req'.kind = req.kind
           \/ pc' \notin Step0 /\ req'.kind = "quarantine",
           pc' = "idle" => outer = NoOuter
    PROVE  QuarantineKept'
    <1>1. MovePlanned'
          BY DEF QuarantineKept, MovePlanned
    <1>2. FilesKept'
      <2>1. Displaced = MovedBy(outer.quar) /\ Displaced \subseteq Displaced'
            BY DEF Displaced, MovedBy
      <2>2. QED  BY <2>1 DEF QuarantineKept, FilesKept
    <1>3. QED  BY <1>1, <1>2 DEF QuarantineKept

\* The steps of a request that neither touch files nor end it.
LEMMA StepKeepsQuarantine ==
    ASSUME QuarantineKept,
           \/ EnsureInitialized \/ EnsureWindow \/ Navigate \/ Replace \/ Heal \/ Stage \/ DrawDone
           \/ WriteHistory \/ WriteIndex \/ WriteOffset \/ WriteLibrary \/ WriteFavorites \/ WriteWalls
    PROVE  QuarantineKept'
    <1>1. CASE Replace
      <2>1. /\ pc = "apply" /\ pc' = "pick" /\ UNCHANGED <<files, quarantined, stranded, outer, core, req>>
            /\ quar' = quar \/ req.kind = "quarantine"
            BY <1>1 DEF Replace, CallPick
      <2>2. QED  BY <2>1, QuietQuarantine DEF Step0
    <1>2. CASE EnsureInitialized \/ EnsureWindow
      <2>1. /\ pc \in {"init", "window", "extend"} /\ pc' \in {"window", "apply", "heal", "pick"}
            /\ UNCHANGED <<files, quarantined, stranded, outer, core, req, quar>>
            BY <1>2 DEF EnsureInitialized, EnsureWindow, CallPick
      <2>2. QED  BY <2>1, QuietQuarantine DEF Step0
    <1>3. CASE Navigate \/ Heal
      <2>1. /\ pc \in {"apply", "heal"} /\ pc' \in {"extend", "heal", "pick"}
            /\ UNCHANGED <<files, quarantined, stranded, outer, core, req, quar>>
            BY <1>3 DEF Navigate, Heal, CallPick
      <2>2. QED  BY <2>1, QuietQuarantine DEF Step0
    <1>4. CASE Stage \/ DrawDone
      <2>1. /\ pc \in {"heal", "draw"} /\ pc' \in {"render", "staged", "window", "apply", "extend", "heal"}
            /\ UNCHANGED <<files, quarantined, stranded, outer, core, req, quar>>
            BY <1>4 DEF Stage, DrawDone, pickFrame
      <2>2. QED  BY <2>1, QuietQuarantine DEF Step0
    <1>5. CASE WriteHistory \/ WriteIndex \/ WriteOffset
      <2>1. /\ pc \in LayoutFiles /\ pc' \in {"index", "offset", "library"}
            /\ UNCHANGED <<files, quarantined, stranded, outer, core, req, quar>>
            BY <1>5 DEF WriteHistory, WriteIndex, WriteOffset, WriteLayoutFile, opVars, LayoutFiles
      <2>2. QED  BY <2>1, QuietQuarantine DEF Step0, LayoutFiles
    <1>6. CASE WriteLibrary \/ WriteFavorites \/ WriteWalls
      <2>1. /\ pc \in CoreFiles /\ pc' \in {"favorites", "walls", "walls_idx"}
            /\ UNCHANGED <<files, quarantined, stranded, outer, core, req, quar>>
            BY <1>6 DEF WriteLibrary, WriteFavorites, WriteWalls, WriteCoreFile, opVars, CoreFiles
      <2>2. QED  BY <2>1, QuietQuarantine DEF Step0, CoreFiles
    <1>7. QED  BY <1>1, <1>2, <1>3, <1>4, <1>5, <1>6

LEMMA RequestKeepsQuarantine ==
    ASSUME QuarantineKept, Request \/ Restart \/ \E k \in Keys : RendererRestart(k)
    PROVE  QuarantineKept'
    <1>1. ASSUME NEW kind, NEW k, NEW i, NEW capture,
                 \/ Prepare(kind, k, i, capture) \/ PrepareFavorite(kind, k, i)
                 \/ Current(k) \/ RendererRestart(k)
          PROVE  QuarantineKept'
      <2>1. /\ pc = "idle" /\ quar' = quar /\ UNCHANGED <<files, quarantined, stranded, outer, core>>
            BY <1>1 DEF Prepare, PrepareFavorite, Current, RendererRestart, Begin, opVars
      <2>2. quar = NoQuar /\ outer = NoOuter
            BY <2>1 DEF QuarantineKept, MovePlanned, Step0
      <2>3. QED  BY <2>1, <2>2, QuietQuarantine
    <1>2. CASE Rescan \/ Restart
      <2>1. /\ pc \in {"idle", "down"} /\ pc' = "library" /\ UNCHANGED <<files, quarantined, stranded, outer, quar>>
            /\ core' \in Rescanned(core, files) \cup Rescanned(diskCore, files)
            BY <1>2 DEF Rescan, Restart
      <2>2. Known(core') \subseteq files
            BY <2>1, RescannedKnown
      <2>3. quar = NoQuar
            BY <2>1 DEF QuarantineKept, MovePlanned, Step0
      <2>4. QED  BY <2>1, <2>2, <2>3, QuietQuarantine
    <1>3. ASSUME NEW w, AddTopLevelFile(w)
          PROVE  QuarantineKept'
      <2>1. /\ pc = "idle" /\ pc' = "library" /\ UNCHANGED <<files, quarantined, stranded, outer, quar>>
            /\ w \in files /\ core' = Added(core, w)
            BY <1>3 DEF AddTopLevelFile
      <2>2. Known(core') \subseteq Known(core) \cup files
            BY <2>1 DEF Known, Added
      <2>3. quar = NoQuar
            BY <2>1 DEF QuarantineKept, MovePlanned, Step0
      <2>4. QED  BY <2>1, <2>2, <2>3, QuietQuarantine
    <1>4. QED  BY <1>1, <1>2, <1>3 DEF Request

\* The end of a request that puts nothing back.
LEMMA FinishKeepsQuarantine ==
    ASSUME QuarantineKept, Finish, pc # "render", UNCHANGED <<files, quarantined, stranded>>,
           Known(core') \subseteq Known(core) \cup files
    PROVE  QuarantineKept'
    <1>1. quar' = NoQuar /\ UNCHANGED outer /\ (pc' = "idle" => outer = NoOuter)
          BY DEF Finish, ResetOp
    <1>2. QED  BY <1>1, QuietQuarantine

LEMMA DrawKeepsQuarantine ==
    ASSUME QuarantineKept, PickStart \/ DrawRebuild \/ Draw
    PROVE  QuarantineKept'
    <1>1. pc \in {"pick", "draw"} /\ UNCHANGED <<files, quarantined, stranded>>
          BY DEF PickStart, DrawRebuild, Draw, Drawing, pickFrame
    <1>2. Known(core') \subseteq Known(core) \cup files
      <2>1. core' = core \/ core' \in Rebuilt(core, files)
            \/ core' = [core EXCEPT !.pos = @ + 1]
            \/ core' \in Rescanned([core EXCEPT !.pos = @ + 1], files)
            BY DEF PickStart, DrawRebuild, Draw
      <2>2. Known([core EXCEPT !.pos = @ + 1]) = Known(core)
            BY DEF Known
      <2>3. QED  BY <2>1, <2>2, RebuiltKnown, RescannedKnown
    <1>3. CASE Fail
          BY <1>1, <1>2, <1>3, FinishKeepsQuarantine DEF Fail
    <1>4. CASE ~Fail
      <2>1. UNCHANGED <<quar, outer, req>> /\ pc' \in {"pick", "draw", "library"}
            BY <1>1, <1>4 DEF PickStart, DrawRebuild, Draw, opVars
      <2>2. QED  BY <1>1, <1>2, <2>1, QuietQuarantine DEF Step0
    <1>5. QED  BY <1>3, <1>4

\* A move that is put back, or cannot be and is logged.
LEMMA RollbackKeepsQuarantine ==
    ASSUME QuarantineKept, NEW r, NEW b, NEW q, Rollback(r, b, q),
           Displaced \subseteq MovedBy(q) \cup MovedBy(outer'.quar),
           quar' = NoQuar, outer' = outer \/ outer' = NoOuter, pc' = "idle" => outer' = NoOuter
    PROVE  QuarantineKept'
    <1>1. Known(core') = Known(core)
          BY DEF Rollback, Known
    <1>2. MovePlanned'
          BY DEF QuarantineKept, MovePlanned, NoOuter
    <1>3. MovedBy(outer'.quar) \subseteq Displaced'
          BY DEF Displaced
    <1>4. CASE /\ files' = files \cup MovedBy(q) /\ quarantined' = quarantined \ MovedBy(q)
               /\ UNCHANGED stranded
          BY <1>1, <1>2, <1>3, <1>4 DEF QuarantineKept, FilesKept
    <1>5. CASE stranded' = stranded \cup MovedBy(q) /\ UNCHANGED <<files, quarantined>>
          BY <1>1, <1>2, <1>3, <1>5 DEF QuarantineKept, FilesKept
    <1>6. QED  BY <1>4, <1>5 DEF Rollback, PutBack, MovedBy

LEMMA TransactionKeepsQuarantine ==
    ASSUME TypeOK, QuarantineKept,
           RefuseMissing \/ RefuseWorld \/ MoveQuarantine \/ RenderOk \/ RenderFail \/ Favor
    PROVE  QuarantineKept'
    <1>1. CASE RefuseMissing
          BY <1>1, FinishKeepsQuarantine DEF RefuseMissing
    <1>2. ASSUME RefuseWorld \/ (RenderFail /\ req.kind # "startup")
          PROVE  QuarantineKept'
      <2>1. Rollback(req, before, quar) /\ Finish
            BY <1>2 DEF RefuseWorld, RenderFail
      <2>2. quar' = NoQuar /\ outer' = outer /\ (pc' = "idle" => outer' = NoOuter)
            BY <2>1 DEF Finish, ResetOp
      <2>3. Displaced \subseteq MovedBy(quar) \cup MovedBy(outer'.quar)
            BY <2>2 DEF Displaced
      <2>4. QED  BY <2>1, <2>2, <2>3, RollbackKeepsQuarantine
    <1>3. ASSUME RenderFail, req.kind = "startup"
          PROVE  QuarantineKept'
      <2>1. /\ UNCHANGED <<files, quarantined, stranded, core, outer>> /\ quar' = NoQuar
            /\ pc' = "idle" => outer = NoOuter
            BY <1>3 DEF RenderFail, Finish, ResetOp
      <2>2. ~quar.moved
            BY <1>3 DEF QuarantineKept, MovePlanned, NoQuar
      <2>3. MovePlanned'
            BY <2>1 DEF QuarantineKept, MovePlanned
      <2>4. Displaced \subseteq Displaced'
            BY <2>1, <2>2 DEF Displaced, MovedBy
      <2>5. QED  BY <2>1, <2>3, <2>4 DEF QuarantineKept, FilesKept
    <1>4. CASE MoveQuarantine
      <2>1. /\ pc = "staged" /\ pc' = "render" /\ UNCHANGED <<core, req, outer>>
            /\ \/ /\ files' = files \ {quar.wall} /\ quarantined' = quarantined \cup {quar.wall}
                  /\ quar' = [quar EXCEPT !.moved = TRUE] /\ quar.wall # NoWall
               \/ UNCHANGED <<files, quarantined, quar>>
            /\ UNCHANGED stranded
            BY <1>4 DEF MoveQuarantine
      <2>2. CASE UNCHANGED <<files, quarantined, quar>>
            BY <2>1, <2>2, QuietQuarantine DEF Step0
      <2>3. CASE quar.wall # NoWall /\ quar' = [quar EXCEPT !.moved = TRUE]
                 /\ files' = files \ {quar.wall} /\ quarantined' = quarantined \cup {quar.wall}
        <3>1. quar \in [wall : Walls, moved : BOOLEAN] /\ quar # NoQuar
              BY <2>3 DEF TypeOK, RequestType, Quar, NoQuar
        <3>2. quar'.wall = quar.wall /\ quar'.moved
              BY <2>3, <3>1
        <3>3. Displaced' = {quar.wall} \cup Displaced
              BY <2>1, <3>2 DEF Displaced, MovedBy
        <3>4. MovePlanned'
              BY <2>1, <3>1 DEF QuarantineKept, MovePlanned, Step0
        <3>5. QED  BY <2>1, <2>3, <3>3, <3>4 DEF QuarantineKept, FilesKept
      <2>4. QED  BY <2>1, <2>2, <2>3
    <1>5. CASE RenderOk
      <2>1. /\ pc = "render" /\ pc' = "history" /\ UNCHANGED <<files, quarantined, stranded, req, quar, outer>>
            /\ core' \in IF quar.wall # NoWall THEN Without(core, quar.wall) ELSE {core}
            BY <1>5 DEF RenderOk, opVars
      <2>2. MovePlanned'
            BY <2>1 DEF QuarantineKept, MovePlanned, Step0
      <2>3. quar.moved => quar.wall # NoWall
            BY WallpaperAssumption DEF TypeOK, RequestType, Quar, NoQuar
      <2>4. Known(core') \subseteq Known(core) \ MovedBy(quar)
            BY <2>1, <2>3, WithoutKnown DEF MovedBy
      <2>5. Displaced' = MovedBy(outer.quar)
            BY <2>1 DEF Displaced
      <2>6. QED  BY <2>1, <2>2, <2>4, <2>5 DEF QuarantineKept, FilesKept, Displaced
    <1>6. CASE Favor
      <2>1. /\ pc = "apply" /\ UNCHANGED <<files, quarantined, stranded>>
            /\ \/ Fail /\ core' = core
               \/ /\ pc' = "history" /\ UNCHANGED <<quar, req, outer>>
                  /\ \E m : /\ m \subseteq core.favs \cup files
                            /\ core' \in Rebuilt([core EXCEPT !.favs = m], files)
        <3> DEFINE target == Window(work)[req.index]
                   marked == IF req.kind = "favorite" THEN core.favs \cup {target}
                             ELSE core.favs \ {target}
        <3>1. \/ Fail /\ core' = core
              \/ /\ pc' = "history" /\ UNCHANGED <<quar, req, outer>>
                 /\ req.kind = "favorite" => target \in files
                 /\ core' \in Rebuilt([core EXCEPT !.favs = marked], files)
              BY <1>6 DEF Favor, opVars
        <3>2. (req.kind = "favorite" => target \in files) => marked \subseteq core.favs \cup files
              OBVIOUS
        <3>3. pc = "apply" /\ UNCHANGED <<files, quarantined, stranded>>
              BY <1>6 DEF Favor
        <3> HIDE DEF target, marked
        <3>4. QED  BY <3>1, <3>2, <3>3
      <2>2. CASE Fail /\ core' = core
            BY <2>1, <2>2, FinishKeepsQuarantine DEF Fail
      <2>3. CASE /\ pc' = "history" /\ UNCHANGED <<quar, req, outer>>
                 /\ \E m : /\ m \subseteq core.favs \cup files
                           /\ core' \in Rebuilt([core EXCEPT !.favs = m], files)
        <3>1. PICK m : /\ m \subseteq core.favs \cup files
                       /\ core' \in Rebuilt([core EXCEPT !.favs = m], files)
              BY <2>3
        <3>2. Known([core EXCEPT !.favs = m]) \subseteq Known(core) \cup files
          <4>1. core \in Cores(Walls)
                BY DEF TypeOK, StoreType
          <4>2. QED  BY <3>1, <4>1 DEF Known, Cores
        <3>3. Known(core') \subseteq Known(core) \cup files
              BY <3>1, <3>2, RebuiltKnown
        <3>4. QED  BY <2>1, <2>3, <3>3, QuietQuarantine DEF Step0
      <2>4. QED  BY <2>1, <2>2, <2>3
    <1>7. QED  BY <1>1, <1>2, <1>3, <1>4, <1>5, <1>6

LEMMA FaultKeepsQuarantine ==
    ASSUME TypeOK, QuarantineKept, NoChurn, Fault \/ Unwind \/ WriteWallsIdx
    PROVE  QuarantineKept'
    <1>1. CASE Forget /\ UNCHANGED <<files, quarantined, stranded>>
      <2>1. MovePlanned' /\ core' = EmptyCore
            BY <1>1 DEF Forget, ResetOp, MovePlanned, NoOuter
      <2>2. Known(core') = {}
            BY <2>1 DEF EmptyCore, Known
      <2>3. QED  BY <1>1, <2>1, <2>2 DEF QuarantineKept, FilesKept
    <1>2. CASE WriteFails
      <2>1. pc \in LayoutFiles \cup CoreFiles /\ UNCHANGED <<files, quarantined, stranded>>
            BY <1>2 DEF WriteFails
      <2>2. Forget \/ (Finish /\ core' = core)
            BY <1>2 DEF WriteFails, Fail
      <2>3. QED  BY <1>1, <2>1, <2>2, FinishKeepsQuarantine DEF LayoutFiles, CoreFiles
    <1>3. CASE MoveFails
          BY <1>3, FinishKeepsQuarantine DEF MoveFails
    <1>4. CASE WriteWallsIdx
      <2>1. pc = "walls_idx" /\ UNCHANGED <<files, quarantined, stranded, core>>
            BY <1>4 DEF WriteWallsIdx
      <2>2. CASE Finish
            BY <2>1, <2>2, FinishKeepsQuarantine
      <2>3. CASE ~Finish
        <3>1. pc' = "draw" /\ UNCHANGED <<quar, req, outer>>
              BY <1>4, <2>3 DEF WriteWallsIdx, opVars
        <3>2. QED  BY <2>1, <3>1, QuietQuarantine DEF Step0
      <2>4. QED  BY <2>2, <2>3
    <1>5. CASE RendererLost
      <2>1. /\ pc = "render" /\ pc' = "init" /\ quar' = NoQuar /\ UNCHANGED <<files, quarantined, stranded, core>>
            /\ outer'.quar = quar /\ outer'.req = req /\ outer = NoOuter
            BY <1>5 DEF RendererLost
      <2>2. ~outer.quar.moved
            BY <2>1 DEF NoOuter, NoQuar
      <2>3. MovePlanned'
            BY <2>1 DEF QuarantineKept, MovePlanned
      <2>4. Displaced' = Displaced
            BY <2>1, <2>2 DEF Displaced, MovedBy
      <2>5. QED  BY <2>1, <2>3, <2>4 DEF QuarantineKept, FilesKept
    <1>6. CASE Unwind
      <2>1. pc = "unwind" /\ pc' = "idle" /\ outer' = NoOuter /\ quar' = quar
            BY <1>6 DEF Unwind, opVars
      <2>2. quar' = NoQuar /\ MovedBy(outer'.quar) = {} /\ Displaced = MovedBy(outer.quar)
            BY <2>1 DEF QuarantineKept, MovePlanned, Step0, NoOuter, NoQuar, Displaced, MovedBy
      <2>3. CASE outer.req.kind # "startup"
        <3>1. Rollback(outer.req, outer.before, outer.quar)
              BY <1>6, <2>3 DEF Unwind
        <3>2. QED  BY <2>1, <2>2, <3>1, RollbackKeepsQuarantine
      <2>4. CASE outer.req.kind = "startup"
        <3>1. UNCHANGED <<files, quarantined, stranded, core>>
              BY <1>6, <2>4 DEF Unwind
        <3>2. ~outer.quar.moved
              BY <2>4 DEF QuarantineKept, MovePlanned, NoQuar
        <3>3. MovePlanned'
              BY <2>1, <2>2 DEF MovePlanned, NoOuter
        <3>4. Displaced = {}
              BY <2>2, <3>2 DEF MovedBy
        <3>5. QED  BY <3>1, <3>3, <3>4 DEF QuarantineKept, FilesKept
      <2>5. QED  BY <2>3, <2>4
    <1>7. ASSUME NEW w, CreateFile(w) \/ DeleteFile(w)
          PROVE  FALSE
          BY <1>7 DEF CreateFile, DeleteFile, NoChurn
    <1>8. CASE \E k \in Keys : RendererRestart(k)
          BY <1>8, RequestKeepsQuarantine
    <1>9. QED  BY <1>1, <1>2, <1>3, <1>4, <1>5, <1>6, <1>7, <1>8 DEF Fault, Crash

LEMMA NextKeepsQuarantine ==
    ASSUME TypeOK, QuarantineKept, NoChurn, [Next]_vars
    PROVE  QuarantineKept'
    <1>1. CASE UNCHANGED vars
          BY <1>1 DEF vars, QuarantineKept, MovePlanned, FilesKept, Displaced
    <1>2. CASE Next
          BY <1>2, RequestKeepsQuarantine, StepKeepsQuarantine, DrawKeepsQuarantine,
             TransactionKeepsQuarantine, FaultKeepsQuarantine DEF Next, Step
    <1>3. QED  BY <1>1, <1>2

\* However a quarantine request ends, and whether or not the daemon or its
\* renderer dies on the way: once it is over its file is back in its place or
\* forgotten by the library and the favourites, except for a file whose move
\* back the daemon tried and could only log as failed.
THEOREM QuarantineSettles ==
    ASSUME NoChurn
    PROVE  Spec => []QuarantineSettled
    <1>1. Init => QuarantineKept
      <2>1. SUFFICES ASSUME Init PROVE QuarantineKept
            OBVIOUS
      <2>2. quar = NoQuar /\ outer = NoOuter /\ quarantined = {}
            BY <2>1 DEF Init
      <2>3. MovePlanned
            BY <2>2 DEF MovePlanned, NoOuter
      <2>4. QED  BY <2>2, <2>3 DEF QuarantineKept, FilesKept
    <1>2. TypeOK /\ QuarantineKept /\ [Next]_vars => QuarantineKept'
          BY NextKeepsQuarantine
    <1>3. QuarantineKept => QuarantineSettled
          BY DEF QuarantineKept, MovePlanned, FilesKept, Displaced, MovedBy, Known, NoOuter, NoQuar,
                 QuarantineSettled, Step0
    <1>4. QED  BY <1>1, <1>2, <1>3, TypeCorrect, PTL DEF Spec

-----------------------------------------------------------------------------
(***************************************************************************)
(* Memory and the state files.  Without a renderer restart a request has   *)
(* taken the layout out of memory, what it keeps for a rollback is what    *)
(* the files hold, and while it writes, the files written so far are those *)
(* of the layout it worked on.                                             *)
(***************************************************************************)
NoRestart == "restart" \notin Faults
NoFavors  == Actions \cap Favoring = {}
Quiet     == Faults \subseteq {"churn"}

Busy    == pc \in OpSteps \/ resume = "draw"
Keyed   == Busy \/ pc \in LayoutFiles
Marking == Keyed /\ req.kind \in Favoring

LoadedLayout(k) == Load(diskLayouts[k], OutCount[k])

Calm        == outer = NoOuter /\ pc # "unwind"
LayoutTaken == Keyed => layouts[req.key] = NoLayout
BeforeDurable ==
    Busy \/ pc = "history" \/ Marking => before.layout = LoadedLayout(req.key)
FilesFollow ==
    /\ pc \in {"index", "offset"} => diskLayouts[req.key].history = work.history
    /\ pc = "index" => diskLayouts[req.key].idx <= before.layout.idx
    /\ pc = "offset" => diskLayouts[req.key].idx = work.idx

\* Marking a favourite finds a complete window, so it draws nothing.
MarkingFits ==
    Marking => /\ pc \in {"window", "apply"} \cup LayoutFiles
               /\ work = before.layout /\ Complete(work, N)

Books == Calm /\ CachedLayoutIsDurable /\ LayoutTaken /\ BeforeDurable /\ FilesFollow /\ MarkingFits

\* What TakeLayout reads, when memory agrees with the files.
LEMMA TakeLoaded ==
    ASSUME CachedLayoutIsDurable, NEW k \in Keys
    PROVE  TakeLayout(k) = LoadedLayout(k)
    BY DEF CachedLayoutIsDurable, TakeLayout, LoadedLayout

\* A step inside a request that touches neither memory nor files of layouts.
LEMMA WorkingKeepsBooks ==
    ASSUME Inductive, Books, Busy, pc' \in OpSteps \/ resume' = "draw", pc' \notin LayoutFiles, pc' # "unwind",
           UNCHANGED <<layouts, diskLayouts, before, req, outer>>,
           \/ req.kind \notin Favoring
           \/ pc' \in {"window", "apply"} /\ work' = work
    PROVE  Books'
    <1>1. Keyed /\ (Marking' => Marking)
          BY DEF Keyed, Marking
    <1>2. /\ Calm' /\ CachedLayoutIsDurable' /\ LayoutTaken' /\ BeforeDurable'
          BY <1>1 DEF Books, Calm, CachedLayoutIsDurable, LayoutTaken, BeforeDurable, LoadedLayout, N
    <1>3. FilesFollow'
          BY DEF FilesFollow, LayoutFiles
    <1>4. MarkingFits'
          BY <1>1 DEF Books, MarkingFits, Marking, N
    <1>5. QED  BY <1>2, <1>3, <1>4 DEF Books

\* A step after which no request works on a layout.
LEMMA DoneKeepsBooks ==
    ASSUME Books, CachedLayoutIsDurable', pc' \notin OpSteps \cup LayoutFiles \cup {"unwind"}, resume' # "draw",
           outer' = NoOuter
    PROVE  Books'
    <1>1. ~Keyed' /\ ~Busy' /\ ~Marking'
          BY DEF Busy, Keyed, Marking
    <1>2. QED  BY <1>1 DEF Books, Calm, LayoutTaken, BeforeDurable, FilesFollow, MarkingFits, LayoutFiles

LEMMA FinishKeepsBooks ==
    ASSUME Books, Finish, CachedLayoutIsDurable'
    PROVE  Books'
    <1>1. pc' = "idle" /\ resume' = "idle" /\ outer' = NoOuter
          BY DEF Finish, ResetOp, Books, Calm
    <1>2. QED  BY <1>1, DoneKeepsBooks DEF OpSteps, LayoutFiles

\* An early return from the middle of a request.
LEMMA FailKeepsBooks ==
    ASSUME Inductive, Books, Fail, Busy, UNCHANGED diskLayouts
    PROVE  Books'
    <1>1. Marking => work = LoadedLayout(req.key)
          BY DEF Books, MarkingFits, BeforeDurable
    <1>2. Marking <=> req.kind \in Favoring
          BY DEF Marking, Keyed
    <1>3. layouts' = layouts \/ (layouts' = [layouts EXCEPT ![req.key] = work] /\ Marking)
          BY <1>2 DEF Fail
    <1>4. CachedLayoutIsDurable'
      <2>1. DOMAIN layouts = Keys
            BY DEF Inductive, TypeOK, StoreType
      <2>2. \A k \in Keys : layouts'[k] = layouts[k] \/ (layouts'[k] = work /\ k = req.key /\ Marking)
            BY <1>3, <2>1
      <2>3. QED  BY <1>1, <2>2 DEF Books, CachedLayoutIsDurable, LoadedLayout
    <1>5. QED  BY <1>4, FinishKeepsBooks DEF Fail

LEMMA BeginKeepsBooks ==
    ASSUME Inductive, Books, pc = "idle", NEW kind \in AllActions, NEW k \in Keys, NEW i \in 1..OutCount[k],
           NEW capture \in BOOLEAN, Begin(kind, k, i, capture), UNCHANGED <<diskLayouts, outer>>,
           pc' \in {"init", "window"},
           kind \in Favoring => pc' = "window" /\ Complete(TakeLayout(k), OutCount[k])
    PROVE  Books'
    <1>1. /\ req'.key = k /\ req'.kind = kind /\ work' = TakeLayout(k) /\ before'.layout = TakeLayout(k)
          /\ layouts' = [layouts EXCEPT ![k] = NoLayout]
          BY DEF Begin
    <1>2. TakeLayout(k) = LoadedLayout(k) /\ LoadedLayout(k)' = LoadedLayout(k)
          BY TakeLoaded DEF Books, LoadedLayout
    <1>3. CachedLayoutIsDurable'
          BY <1>1 DEF Books, CachedLayoutIsDurable
    <1>4. LayoutTaken'
          BY <1>1 DEF Inductive, TypeOK, StoreType, LayoutTaken
    <1>5. BeforeDurable'
          BY <1>1, <1>2 DEF BeforeDurable, LoadedLayout
    <1>6. FilesFollow' /\ Calm'
          BY DEF FilesFollow, Books, Calm
    <1>7. MarkingFits'
          BY <1>1 DEF MarkingFits, Marking, N
    <1>8. QED  BY <1>3, <1>4, <1>5, <1>6, <1>7 DEF Books

LEMMA RequestKeepsBooks ==
    ASSUME Inductive, Books, Request \/ Restart,
           \A kind \in Actions, k \in Keys : \A i \in 1..OutCount[k] :
               PrepareFavorite(kind, k, i) => Complete(TakeLayout(k), OutCount[k])
    PROVE  Books'
    <1>1. ASSUME NEW kind \in Actions, NEW k \in Keys, NEW i \in 1..OutCount[k], NEW capture \in BOOLEAN,
                 Prepare(kind, k, i, capture)
          PROVE  Books'
      <2>1. pc = "idle" /\ pc' = "init" /\ Begin(kind, k, i, capture) /\ UNCHANGED <<diskLayouts, outer>>
            BY <1>1 DEF Prepare
      <2>2. kind \in AllActions /\ kind \notin Favoring
            BY <1>1, WallpaperAssumption DEF Prepare, Navigation, Replacing, Favoring
      <2>3. QED  BY <2>1, <2>2, BeginKeepsBooks
    <1>2. ASSUME NEW kind \in Actions, NEW k \in Keys, NEW i \in 1..OutCount[k], PrepareFavorite(kind, k, i)
          PROVE  Books'
      <2>1. pc = "idle" /\ pc' = "window" /\ Begin(kind, k, i, FALSE) /\ UNCHANGED <<diskLayouts, outer>>
            BY <1>2 DEF PrepareFavorite
      <2>2. kind \in AllActions /\ Complete(TakeLayout(k), OutCount[k])
            BY <1>2, WallpaperAssumption
      <2>3. QED  BY <2>1, <2>2, BeginKeepsBooks
    <1>3. ASSUME NEW k \in Keys, Current(k)
          PROVE  Books'
      <2>1. pc = "idle" /\ resume = "idle"
            BY <1>3 DEF Current, Inductive, Ready, RestReady
      <2>2. CachedLayoutIsDurable'
            BY <1>3, TakeLoaded DEF Current, Books, CachedLayoutIsDurable, LoadedLayout
      <2>3. pc' = "idle" /\ resume' = "idle" /\ outer' = NoOuter
            BY <1>3, <2>1 DEF Current, Books, Calm
      <2>4. QED  BY <2>2, <2>3, DoneKeepsBooks DEF OpSteps, LayoutFiles
    <1>4. ASSUME Rescan \/ Restart \/ \E w \in Walls : AddTopLevelFile(w)
          PROVE  Books'
      <2>1. /\ pc \in {"idle", "down"} /\ pc' = "library" /\ resume' = resume /\ outer' = outer
            /\ UNCHANGED <<layouts, diskLayouts>>
            BY <1>4 DEF Rescan, Restart, AddTopLevelFile
      <2>2. resume' = "idle" /\ outer' = NoOuter
            BY <2>1 DEF Inductive, Ready, RestReady, Books, Calm
      <2>3. CachedLayoutIsDurable'
            BY <2>1 DEF Books, CachedLayoutIsDurable
      <2>4. QED  BY <2>1, <2>2, <2>3, DoneKeepsBooks DEF OpSteps, LayoutFiles
    <1>5. QED  BY <1>1, <1>2, <1>3, <1>4 DEF Request

LEMMA StepKeepsBooks ==
    ASSUME Inductive, Books,
           \/ EnsureInitialized \/ EnsureWindow \/ Navigate \/ Replace \/ Heal \/ Stage
           \/ PickStart \/ DrawRebuild \/ Draw \/ DrawDone
    PROVE  Books'
    <1>1. CASE EnsureInitialized \/ EnsureWindow
      <2>1. /\ pc \in {"init", "window", "extend"} /\ pc' \in {"window", "apply", "heal", "pick"}
            /\ UNCHANGED <<layouts, diskLayouts, before, req, work, outer>>
            BY <1>1 DEF EnsureInitialized, EnsureWindow, CallPick
      <2>2. req.kind \in Favoring => pc' \in {"window", "apply"}
        <3>1. SUFFICES ASSUME req.kind \in Favoring
                       PROVE  pc' \in {"window", "apply"}
              OBVIOUS
        <3>2. Marking
              BY <2>1, <3>1 DEF Marking, Keyed, Busy, OpSteps
        <3>3. pc = "window" /\ Complete(work, N)
              BY <2>1, <3>2 DEF Books, MarkingFits, LayoutFiles
        <3>4. QED  BY <1>1, <3>3 DEF EnsureInitialized, EnsureWindow
      <2>3. QED  BY <2>1, <2>2, WorkingKeepsBooks DEF Busy, OpSteps, LayoutFiles
    <1>2. CASE Navigate \/ Replace \/ Heal \/ Stage \/ DrawDone
      <2>1. /\ pc \in {"apply", "heal", "draw"} /\ pc' \in {"extend", "pick", "heal", "render", "staged", "window", "apply"}
            /\ UNCHANGED <<layouts, diskLayouts, before, req, outer>>
            /\ pc = "apply" => req.kind \in Navigation \cup Replacing \cup {"startup"}
            BY <1>2 DEF Navigate, Replace, Heal, Stage, DrawDone, CallPick, pickFrame
      <2>2. req.kind \notin Favoring
        <3>1. pc = "apply" => req.kind \notin Favoring
              BY <2>1 DEF Navigation, Replacing, Favoring
        <3>2. pc # "apply" => ~Marking
              BY <2>1 DEF Books, MarkingFits, LayoutFiles
        <3>3. QED  BY <2>1, <3>1, <3>2 DEF Marking, Keyed, Busy, OpSteps
      <2>3. QED  BY <2>1, <2>2, WorkingKeepsBooks DEF Busy, OpSteps, LayoutFiles
    <1>3. CASE PickStart \/ DrawRebuild \/ Draw
      <2>1. pc \in {"pick", "draw"} /\ UNCHANGED diskLayouts
            BY <1>3 DEF PickStart, DrawRebuild, Draw, Drawing, pickFrame
      <2>2. CASE Fail
            BY <2>1, <2>2, FailKeepsBooks DEF Busy, OpSteps
      <2>3. CASE ~Fail
        <3>1. /\ UNCHANGED <<layouts, before, req, outer>>
              /\ pc' \in {"pick", "draw"} \/ (pc' = "library" /\ resume' = "draw")
              BY <1>3, <2>1, <2>3 DEF PickStart, DrawRebuild, Draw, opVars
        <3>2. req.kind \notin Favoring
              BY <2>1 DEF Books, MarkingFits, Marking, Keyed, Busy, OpSteps, LayoutFiles
        <3>3. QED  BY <2>1, <3>1, <3>2, WorkingKeepsBooks DEF Busy, OpSteps, LayoutFiles
      <2>4. QED  BY <2>2, <2>3
    <1>4. QED  BY <1>1, <1>2, <1>3

\* Putting the layout from before the request back.
LEMMA RollbackKeepsBooks ==
    ASSUME Inductive, Books, Busy, Rollback(req, before, quar), Finish, UNCHANGED diskLayouts
    PROVE  Books'
    <1>1. /\ before.layout = LoadedLayout(req.key) /\ layouts' = [layouts EXCEPT ![req.key] = before.layout]
          /\ DOMAIN layouts = Keys
          BY DEF Books, BeforeDurable, Rollback, Inductive, TypeOK, StoreType
    <1>2. \A k \in Keys : layouts'[k] = layouts[k] \/ (layouts'[k] = LoadedLayout(req.key) /\ k = req.key)
          BY <1>1
    <1>3. CachedLayoutIsDurable'
          BY <1>2 DEF Books, CachedLayoutIsDurable, LoadedLayout
    <1>4. QED  BY <1>3, FinishKeepsBooks

LEMMA TransactionKeepsBooks ==
    ASSUME Inductive, Books,
           RefuseMissing \/ RefuseWorld \/ MoveQuarantine \/ RenderOk \/ RenderFail \/ Favor
    PROVE  Books'
    <1>1. ASSUME RefuseMissing \/ (RenderFail /\ req.kind = "startup")
          PROVE  Books'
      <2>1. Finish /\ UNCHANGED <<layouts, diskLayouts>>
            BY <1>1 DEF RefuseMissing, RenderFail
      <2>2. QED  BY <2>1, FinishKeepsBooks DEF Books, CachedLayoutIsDurable
    <1>2. ASSUME RefuseWorld \/ (RenderFail /\ req.kind # "startup")
          PROVE  Books'
      <2>1. /\ pc \in {"staged", "render"} /\ Rollback(req, before, quar) /\ Finish
            /\ UNCHANGED diskLayouts
            BY <1>2 DEF RefuseWorld, RenderFail
      <2>2. QED  BY <2>1, RollbackKeepsBooks DEF Busy, OpSteps
    <1>3. CASE MoveQuarantine
      <2>1. pc = "staged" /\ pc' = "render" /\ UNCHANGED <<layouts, diskLayouts, before, req, outer>>
            BY <1>3 DEF MoveQuarantine
      <2>2. req.kind \notin Favoring
            BY <2>1 DEF Books, MarkingFits, Marking, Keyed, Busy, OpSteps, LayoutFiles
      <2>3. QED  BY <2>1, <2>2, WorkingKeepsBooks DEF Busy, OpSteps, LayoutFiles
    <1>4. ASSUME pc \in {"render", "apply"}, pc' = "history", UNCHANGED <<layouts, diskLayouts, opVars, outer>>
          PROVE  Books'
      <2>1. UNCHANGED <<req, before, work>> /\ Busy /\ Keyed
            BY <1>4 DEF opVars, Busy, Keyed, OpSteps
      <2>2. Calm' /\ CachedLayoutIsDurable' /\ LayoutTaken' /\ BeforeDurable'
            BY <1>4, <2>1 DEF Books, Calm, CachedLayoutIsDurable, LayoutTaken, BeforeDurable,
                              LoadedLayout, N
      <2>3. FilesFollow'
            BY <1>4 DEF FilesFollow
      <2>4. MarkingFits'
            BY <1>4, <2>1 DEF Books, MarkingFits, Marking, N, LayoutFiles
      <2>5. QED  BY <2>2, <2>3, <2>4 DEF Books
    <1>5. CASE RenderOk
          BY <1>4, <1>5 DEF RenderOk
    <1>6. CASE Favor
      <2>1. pc = "apply" /\ UNCHANGED diskLayouts
            BY <1>6 DEF Favor
      <2>2. CASE Fail
            BY <2>1, <2>2, FailKeepsBooks DEF Busy, OpSteps
      <2>3. CASE ~Fail
        <3>1. pc' = "history" /\ UNCHANGED <<layouts, opVars, outer>>
              BY <1>6, <2>3 DEF Favor
        <3>2. QED  BY <1>4, <2>1, <3>1
      <2>4. QED  BY <2>2, <2>3
    <1>7. QED  BY <1>1, <1>2, <1>3, <1>5, <1>6

\* Once all three files are written, the directory holds the layout itself.
LEMMA WriteOffsetStores ==
    ASSUME Inductive, Books, Normal(work), WriteOffset
    PROVE  /\ req.key \in Keys /\ work \in LayoutsOf(Walls, N)
           /\ diskLayouts' = [diskLayouts EXCEPT ![req.key] = work]
           /\ layouts' = [layouts EXCEPT ![req.key] = work]
           /\ Load(work, N) = work
    <1>1. pc = "offset" /\ pc \in LayoutFiles
          BY DEF WriteOffset, WriteLayoutFile, LayoutFiles
    <1>2. req.key \in Keys /\ N \in Nat \ {0} /\ work \in LayoutsOf(Walls, N)
          BY <1>1, WorkType
    <1>3. diskLayouts[req.key] \in LayoutsOf(Walls, N)
          BY <1>2, OutCountType DEF Inductive, TypeOK, StoreType, N
    <1>4. diskLayouts[req.key].history = work.history /\ diskLayouts[req.key].idx = work.idx
          BY <1>1 DEF Books, FilesFollow
    <1>5. [diskLayouts[req.key] EXCEPT !.offset = work.offset] = work
          BY <1>2, <1>3, <1>4 DEF LayoutsOf
    <1>6. /\ diskLayouts' = [diskLayouts EXCEPT ![req.key] = work]
          /\ layouts' = [layouts EXCEPT ![req.key] = work]
          BY <1>5 DEF WriteOffset, WriteLayoutFile
    <1>7. QED  BY <1>2, <1>6, LoadNormal

LEMMA WriteKeepsBooks ==
    ASSUME Inductive, Books, Normal(work), WriteHistory \/ WriteIndex \/ WriteOffset
    PROVE  Books'
    <1>1. /\ req.key \in Keys /\ N \in Nat \ {0} /\ work \in LayoutsOf(Walls, N) /\ Keyed
          /\ diskLayouts[req.key] \in LayoutsOf(Walls, N) /\ DOMAIN diskLayouts = Keys
          /\ DOMAIN layouts = Keys /\ layouts[req.key] = NoLayout /\ pc \in LayoutFiles
          /\ resume = "idle"
      <2>1. pc \in LayoutFiles /\ Keyed
            BY DEF WriteHistory, WriteIndex, WriteOffset, WriteLayoutFile, LayoutFiles, Keyed
      <2>2. req.key \in Keys /\ N \in Nat \ {0} /\ work \in LayoutsOf(Walls, N)
            BY <2>1, WorkType
      <2>3. diskLayouts[req.key] \in LayoutsOf(Walls, N)
            BY <2>2, OutCountType DEF Inductive, TypeOK, StoreType, N
      <2>4. resume = "idle"
            BY <2>1 DEF Inductive, TypeOK, RequestType, Ready, DrawReady, LayoutFiles, CoreFiles
      <2>5. QED  BY <2>1, <2>2, <2>3, <2>4 DEF Inductive, TypeOK, StoreType, Books, LayoutTaken
    <1> DEFINE d == diskLayouts[req.key]
    <1>2. Load(d, N).history = d.history /\ d.idx <= Load(d, N).idx /\ d.idx \in Nat
          BY <1>1, LoadNormal DEF LayoutsOf
    <1>3. CASE WriteHistory
      <2>1. /\ pc = "history" /\ pc' = "index" /\ UNCHANGED <<outer, layouts, resume, req, before, work>>
            /\ diskLayouts' = [diskLayouts EXCEPT ![req.key] = [d EXCEPT !.history = work.history]]
            BY <1>3 DEF WriteHistory, WriteLayoutFile, opVars
      <2>2. before.layout = Load(d, N)
            BY <2>1 DEF Books, BeforeDurable, LoadedLayout, N
      <2>3. /\ diskLayouts'[req.key].history = work.history /\ diskLayouts'[req.key].idx = d.idx
            /\ diskLayouts'[req.key] = [d EXCEPT !.history = work.history]
            BY <1>1, <2>1 DEF LayoutsOf
      <2>4. \A k \in Keys : layouts[k] # NoLayout => diskLayouts'[k] = diskLayouts[k]
            BY <1>1, <2>1
      <2>5. CachedLayoutIsDurable' /\ Calm' /\ LayoutTaken'
            BY <1>1, <2>1, <2>4 DEF Books, CachedLayoutIsDurable, Calm, LayoutTaken
      <2>6. FilesFollow'
            BY <1>2, <2>1, <2>2, <2>3 DEF FilesFollow
      <2>7. Marking' => Marking
            BY <1>1, <2>1 DEF Marking, Keyed
      <2>8. MarkingFits'
            BY <2>1, <2>7 DEF Books, MarkingFits, N, LayoutFiles
      <2>9. ASSUME Marking
            PROVE  diskLayouts'[req.key] = d
        <3>1. work.history = d.history
              BY <1>2, <2>2, <2>9 DEF Books, MarkingFits
        <3>2. QED  BY <1>1, <2>3, <3>1 DEF LayoutsOf
      <2>10. BeforeDurable'
        <3>1. ~Busy'
              BY <1>1, <2>1 DEF Busy, OpSteps
        <3>2. Marking' => before.layout = LoadedLayout(req.key)'
              BY <2>1, <2>2, <2>7, <2>9 DEF LoadedLayout, N
        <3>3. QED  BY <2>1, <3>1, <3>2 DEF BeforeDurable
      <2>11. QED  BY <2>5, <2>6, <2>8, <2>10 DEF Books
    <1>4. CASE WriteIndex
      <2>1. /\ pc = "index" /\ pc' = "offset" /\ UNCHANGED <<outer, layouts, resume, req, before, work>>
            /\ diskLayouts' = [diskLayouts EXCEPT ![req.key] = [d EXCEPT !.idx = work.idx]]
            BY <1>4 DEF WriteIndex, WriteLayoutFile, opVars
      <2>2. /\ diskLayouts'[req.key].history = work.history /\ diskLayouts'[req.key].idx = work.idx
            /\ diskLayouts'[req.key] = [d EXCEPT !.idx = work.idx]
            BY <1>1, <2>1 DEF LayoutsOf, Books, FilesFollow
      <2>3. \A k \in Keys : layouts[k] # NoLayout => diskLayouts'[k] = diskLayouts[k]
            BY <1>1, <2>1
      <2>4. CachedLayoutIsDurable' /\ Calm' /\ LayoutTaken'
            BY <1>1, <2>1, <2>3 DEF Books, CachedLayoutIsDurable, Calm, LayoutTaken
      <2>5. FilesFollow'
            BY <2>1, <2>2 DEF FilesFollow
      <2>6. Marking' => Marking
            BY <1>1, <2>1 DEF Marking, Keyed
      <2>7. MarkingFits'
            BY <2>1, <2>6 DEF Books, MarkingFits, N, LayoutFiles
      <2>8. ASSUME Marking
            PROVE  Load(diskLayouts'[req.key], N) = Load(d, N)
        <3>1. work.idx = Load(d, N).idx
              BY <2>8 DEF Books, MarkingFits, BeforeDurable, LoadedLayout, N
        <3>2. work.idx = IF d.idx < 1 /\ d.history # <<>> THEN 1 ELSE d.idx
              BY <3>1 DEF Load
        <3>3. /\ diskLayouts'[req.key].history = d.history /\ diskLayouts'[req.key].offset = d.offset
              BY <1>1, <2>2 DEF LayoutsOf
        <3>4. QED  BY <1>2, <2>2, <3>2, <3>3 DEF Load
      <2>9. BeforeDurable'
        <3>1. ~Busy'
              BY <1>1, <2>1 DEF Busy, OpSteps
        <3>2. Marking' => before.layout = LoadedLayout(req.key)'
              BY <2>1, <2>6, <2>8 DEF LoadedLayout, N, Books, BeforeDurable
        <3>3. QED  BY <2>1, <3>1, <3>2 DEF BeforeDurable
      <2>10. QED  BY <2>4, <2>5, <2>7, <2>9 DEF Books
    <1>5. CASE WriteOffset
      <2>1. /\ diskLayouts' = [diskLayouts EXCEPT ![req.key] = work]
            /\ layouts' = [layouts EXCEPT ![req.key] = work] /\ Load(work, OutCount[req.key]) = work
            BY <1>5, WriteOffsetStores DEF N, Books
      <2>2. CachedLayoutIsDurable'
            BY <1>1, <2>1 DEF Books, CachedLayoutIsDurable
      <2>3. pc' = "library" /\ resume' = "idle" /\ outer' = NoOuter
            BY <1>1, <1>5 DEF WriteOffset, WriteLayoutFile, Books, Calm
      <2>4. QED  BY <2>2, <2>3, DoneKeepsBooks DEF OpSteps, LayoutFiles
    <1>6. QED  BY <1>3, <1>4, <1>5

LEMMA CoreWritesKeepBooks ==
    ASSUME Inductive, Books, WriteLibrary \/ WriteFavorites \/ WriteWalls \/ WriteWallsIdx
    PROVE  Books'
    <1>1. pc \in CoreFiles /\ UNCHANGED <<layouts, diskLayouts>>
          BY DEF WriteLibrary, WriteFavorites, WriteWalls, WriteWallsIdx, WriteCoreFile, CoreFiles
    <1>2. CachedLayoutIsDurable'
          BY <1>1 DEF Books, CachedLayoutIsDurable
    <1>3. CASE Finish
          BY <1>2, <1>3, FinishKeepsBooks
    <1>4. CASE ~Finish
      <2>1. /\ UNCHANGED <<before, req, outer, work>>
            /\ \/ pc' \in {"favorites", "walls", "walls_idx"} /\ resume' = resume
               \/ pc' = "draw" /\ resume = "draw" /\ resume' = "idle"
            BY <1>4 DEF WriteLibrary, WriteFavorites, WriteWalls, WriteWallsIdx, WriteCoreFile, opVars
      <2>2. CASE resume = "draw"
        <3>1. req.kind \notin Favoring
              BY <1>1, <2>2 DEF Books, MarkingFits, Marking, Keyed, Busy, CoreFiles, LayoutFiles
        <3>2. QED  BY <1>1, <2>1, <2>2, <3>1, WorkingKeepsBooks DEF Busy, OpSteps, LayoutFiles
      <2>3. CASE resume # "draw"
            BY <1>2, <2>1, <2>3, DoneKeepsBooks DEF Books, Calm, OpSteps, LayoutFiles
      <2>4. QED  BY <2>2, <2>3
    <1>5. QED  BY <1>3, <1>4

LEMMA FaultKeepsBooks ==
    ASSUME Inductive, Books, NoRestart, Fault \/ Unwind
    PROVE  Books'
    <1>1. ASSUME Forget, UNCHANGED diskLayouts
          PROVE  Books'
      <2>1. /\ pc' = "down" /\ resume' = "idle" /\ outer' = NoOuter
            /\ layouts' = [k \in Keys |-> NoLayout]
            BY <1>1 DEF Forget, ResetOp
      <2>2. CachedLayoutIsDurable'
            BY <2>1 DEF CachedLayoutIsDurable
      <2>3. QED  BY <2>1, <2>2, DoneKeepsBooks DEF OpSteps, LayoutFiles
    <1>2. ASSUME Finish, UNCHANGED <<layouts, diskLayouts>>
          PROVE  Books'
          BY <1>2, FinishKeepsBooks DEF Books, CachedLayoutIsDurable
    <1>3. CASE WriteFails
      <2>1. UNCHANGED diskLayouts /\ (Forget \/ (Fail /\ resume = "draw") \/ (Finish /\ UNCHANGED layouts))
            BY <1>3 DEF WriteFails
      <2>2. QED  BY <1>1, <1>2, <2>1, FailKeepsBooks DEF Busy
    <1>4. CASE Crash \/ MoveFails
          BY <1>1, <1>2, <1>4 DEF Crash, MoveFails
    <1>5. CASE \E w \in Walls : CreateFile(w) \/ DeleteFile(w)
      <2>1. UNCHANGED <<layouts, diskLayouts, pc, opVars, resume, outer>>
            BY <1>5 DEF CreateFile, DeleteFile
      <2>2. QED  BY <2>1 DEF opVars, Books, Calm, CachedLayoutIsDurable, LayoutTaken, BeforeDurable,
                            FilesFollow, MarkingFits, Marking, Keyed, Busy, LoadedLayout, N
    <1>6. ASSUME Unwind \/ RendererLost \/ \E k \in Keys : RendererRestart(k)
          PROVE  FALSE
          BY <1>6 DEF Unwind, RendererLost, RendererRestart, NoRestart, Books, Calm
    <1>7. QED  BY <1>3, <1>4, <1>5, <1>6 DEF Fault

LEMMA NextKeepsBooks ==
    ASSUME Inductive, Books, NoRestart, Normal(work), [Next]_vars,
           \A kind \in Actions, k \in Keys : \A i \in 1..OutCount[k] :
               PrepareFavorite(kind, k, i) => Complete(TakeLayout(k), OutCount[k])
    PROVE  Books'
    <1>1. CASE UNCHANGED vars
          BY <1>1 DEF vars, Books, Calm, CachedLayoutIsDurable, LayoutTaken, BeforeDurable,
                      FilesFollow, MarkingFits, Marking, Keyed, Busy, LoadedLayout, N
    <1>2. CASE Step
          BY <1>2, RequestKeepsBooks, StepKeepsBooks, TransactionKeepsBooks, WriteKeepsBooks,
             CoreWritesKeepBooks, FaultKeepsBooks DEF Step
    <1>3. CASE Request \/ Fault
          BY <1>3, RequestKeepsBooks, FaultKeepsBooks
    <1>4. QED  BY <1>1, <1>2, <1>3 DEF Next

-----------------------------------------------------------------------------
(***************************************************************************)
(* The tapes.  No tape is longer than max_history and every cursor is set; *)
(* from healing on, the layout worked on is complete, and only one that is *)
(* not is extended.  When the files held a complete layout, the one worked *)
(* on still reaches their cursor.                                          *)
(***************************************************************************)
Short(l) == Len(l.history) <= MaxHistory

TapesShort == Short(work) /\ \A k \in Keys : Short(diskLayouts[k])

WorkComplete ==
    /\ InHeal \/ pc \in {"staged", "render"} \cup LayoutFiles => Complete(work, N)
    /\ InDraw /\ pick.ret = "extend" => ~Complete(work, N)

Unmoved == pc \in {"init", "window", "apply"} \/ (InDraw /\ pick.ret \in {"init", "window", "apply"})

CursorClose ==
    Keyed /\ Complete(before.layout, N) =>
        IF Unmoved THEN work = before.layout /\ (InDraw => pick.ret = "apply")
        ELSE before.layout.idx <= work.idx + 1 /\ before.layout.idx <= Len(work.history)

Tapes == Normal(work) /\ TapesShort /\ WorkComplete /\ CursorClose

\* Where a request is, for the steps that take it further.
Position ==
    /\ pc \in OpSteps \cup LayoutFiles => resume = "idle"
    /\ InDraw => pc \in PickSteps \cup CoreFiles
    /\ InDraw => Keyed

LEMMA PositionKnown == Inductive => Position
    BY DEF Inductive, TypeOK, RequestType, Ready, DrawReady, Position, InDraw, Keyed, Busy, OpSteps,
           LayoutFiles, CoreFiles, PickSteps

\* A step after which no request works on a layout.
LEMMA RestKeepsTapes ==
    ASSUME Tapes, pc' \notin OpSteps \cup LayoutFiles, resume' # "draw", UNCHANGED diskLayouts,
           work' = work \/ work' = EmptyLayout
    PROVE  Tapes'
    <1>1. Normal(work') /\ Short(work')
          BY MaxHistoryAssumption DEF Tapes, TapesShort, Short, Normal, EmptyLayout
    <1>2. ~InDraw' /\ ~InHeal' /\ ~Keyed' /\ pc' \notin {"staged", "render"} \cup LayoutFiles
          BY DEF InDraw, InHeal, Keyed, Busy, OpSteps, PickSteps
    <1>3. TapesShort' /\ WorkComplete' /\ CursorClose'
          BY <1>1, <1>2 DEF Tapes, TapesShort, WorkComplete, CursorClose, Short
    <1>4. QED  BY <1>1, <1>3 DEF Tapes

LEMMA FinishKeepsTapes ==
    ASSUME Tapes, Finish, UNCHANGED diskLayouts
    PROVE  Tapes'
    <1>1. pc' \in {"idle", "unwind"} /\ resume' = "idle" /\ work' = EmptyLayout
          BY DEF Finish, ResetOp
    <1>2. QED  BY <1>1, RestKeepsTapes DEF OpSteps, LayoutFiles

\* A step of a request that leaves the layouts alone.
LEMMA SameWorkKeepsTapes ==
    ASSUME Inductive, Tapes, Keyed, UNCHANGED <<work, diskLayouts, before, req>>,
           InHeal' \/ pc' \in {"staged", "render"} \cup LayoutFiles => Complete(work, N),
           InDraw' /\ pick'.ret = "extend" => ~Complete(work, N),
           Complete(before.layout, N) /\ Unmoved' => Unmoved /\ (InDraw' => pick'.ret = "apply")
    PROVE  Tapes'
    <1>1. Normal(work') /\ TapesShort'
          BY DEF Tapes, TapesShort, Short
    <1>2. WorkComplete'
          BY DEF WorkComplete, N
    <1>3. CursorClose'
      <2>1. SUFFICES ASSUME Complete(before.layout, N)
                     PROVE  CursorClose'
            BY DEF CursorClose, N
      <2>2. CASE Unmoved'
            BY <2>1, <2>2 DEF Tapes, CursorClose, N
      <2>3. CASE ~Unmoved' /\ ~Unmoved
            BY <2>1, <2>3 DEF Tapes, CursorClose, N
      <2>4. CASE ~Unmoved' /\ Unmoved
        <3>1. work = before.layout
              BY <2>1, <2>4 DEF Tapes, CursorClose
        <3>2. req.key \in Keys /\ N \in Nat \ {0} /\ work \in LayoutsOf(Walls, N)
              BY WorkType DEF Keyed, Busy
        <3>3. work.idx <= Len(work.history) /\ work.idx \in Nat
              BY <2>1, <3>1, <3>2, CompleteCursor DEF LayoutsOf
        <3>4. before.layout.idx <= work.idx + 1 /\ before.layout.idx <= Len(work.history)
              BY <3>1, <3>3
        <3>5. QED  BY <2>4, <3>4 DEF CursorClose
      <2>5. QED  BY <2>2, <2>3, <2>4
    <1>4. QED  BY <1>1, <1>2, <1>3 DEF Tapes

\* A turn of the draw loop, and the files a rescan in it writes.
LEMMA DrawingKeepsTapes ==
    ASSUME Inductive, Tapes, InDraw, InDraw', pick'.ret = pick.ret, pc' \in PickSteps \cup CoreFiles,
           UNCHANGED <<work, diskLayouts, before, req>>
    PROVE  Tapes'
    <1>1. pc \in PickSteps \cup CoreFiles /\ Keyed
          BY PositionKnown DEF Position
    <1>2. (Unmoved' <=> Unmoved) /\ (InHeal' <=> InHeal)
          BY <1>1 DEF Unmoved, InHeal, PickSteps, CoreFiles
    <1>3. InHeal' \/ pc' \in {"staged", "render"} \cup LayoutFiles => Complete(work, N)
          BY <1>2 DEF Tapes, WorkComplete, PickSteps, CoreFiles, LayoutFiles
    <1>4. InDraw' /\ pick'.ret = "extend" => ~Complete(work, N)
          BY DEF Tapes, WorkComplete
    <1>5. Complete(before.layout, N) /\ Unmoved' => Unmoved /\ (InDraw' => pick'.ret = "apply")
          BY <1>1, <1>2 DEF Tapes, CursorClose
    <1>6. QED  BY <1>1, <1>3, <1>4, <1>5, SameWorkKeepsTapes

LEMMA BeginKeepsTapes ==
    ASSUME Inductive, Tapes, CachedLayoutIsDurable, pc = "idle", NEW kind, NEW k \in Keys, NEW i, NEW capture,
           Begin(kind, k, i, capture), UNCHANGED diskLayouts, pc' \in {"init", "window"}
    PROVE  Tapes'
    <1>1. /\ work' = TakeLayout(k) /\ before'.layout = TakeLayout(k) /\ req'.key = k /\ UNCHANGED resume
          BY DEF Begin
    <1>2. /\ OutCount[k] \in Nat \ {0} /\ diskLayouts[k] \in LayoutsOf(Walls, OutCount[k])
          BY OutCountType DEF Inductive, TypeOK, StoreType
    <1>3. Normal(work') /\ work'.history = diskLayouts[k].history
          BY <1>1, <1>2, LoadNormal, TakeLoaded DEF LoadedLayout
    <1>4. TapesShort'
          BY <1>3 DEF Tapes, TapesShort, Short
    <1>5. resume = "idle"
          BY DEF Inductive, Ready, RestReady
    <1>6. ~InDraw' /\ ~InHeal' /\ pc' \notin {"staged", "render"} \cup LayoutFiles
          BY <1>1, <1>5 DEF InDraw, InHeal, PickSteps, LayoutFiles
    <1>7. WorkComplete' /\ CursorClose'
          BY <1>1, <1>6 DEF WorkComplete, CursorClose, Unmoved
    <1>8. QED  BY <1>3, <1>4, <1>7 DEF Tapes

LEMMA RequestKeepsTapes ==
    ASSUME Inductive, Tapes, CachedLayoutIsDurable, Request \/ Restart
    PROVE  Tapes'
    <1>1. ASSUME NEW kind, NEW k \in Keys, NEW i, NEW capture,
                 Prepare(kind, k, i, capture) \/ PrepareFavorite(kind, k, i)
          PROVE  Tapes'
          BY <1>1, BeginKeepsTapes DEF Prepare, PrepareFavorite
    <1>2. ASSUME Rescan \/ Restart \/ (\E k \in Keys : Current(k)) \/ \E w \in Walls : AddTopLevelFile(w)
          PROVE  Tapes'
      <2>1. pc \in {"idle", "down"} /\ pc' \in {"idle", "library"} /\ UNCHANGED <<resume, diskLayouts, work>>
            BY <1>2 DEF Rescan, Restart, Current, AddTopLevelFile, opVars
      <2>2. resume = "idle"
            BY <2>1 DEF Inductive, Ready, RestReady
      <2>3. QED  BY <2>1, <2>2, RestKeepsTapes DEF OpSteps, LayoutFiles
    <1>3. QED  BY <1>1, <1>2 DEF Request

\* Looking for walls, by the steps that leave the tape alone.
LEMMA SearchKeepsTapes ==
    ASSUME Inductive, Tapes, EnsureInitialized \/ EnsureWindow \/ Replace \/ Heal
    PROVE  Tapes'
    <1>1. /\ UNCHANGED <<work, diskLayouts, before, req, resume>>
          /\ pc \in {"init", "window", "extend", "apply", "heal"}
          BY DEF EnsureInitialized, EnsureWindow, Replace, Heal, CallPick
    <1>2. resume = "idle" /\ Keyed /\ ~InDraw
          BY <1>1, PositionKnown DEF Position, Keyed, Busy, OpSteps, InDraw, PickSteps
    <1>3. /\ req.key \in Keys /\ N \in Nat \ {0} /\ work \in LayoutsOf(Walls, N)
          BY <1>1, WorkType DEF OpSteps
    <1>4. CASE EnsureInitialized
      <2>1. \/ pc = "init" /\ pc' \in {"window", "apply"}
            \/ pc = "init" /\ pc' = "pick" /\ pick'.ret = "init" /\ work.history = <<>>
            BY <1>4 DEF EnsureInitialized, CallPick, NoPick
      <2>2. work.history = <<>> => ~Complete(work, N)
            BY <1>3, CompleteCursor
      <2>3. Unmoved
            BY <2>1 DEF Unmoved
      <2>4. ~Complete(before.layout, N) \/ work.history # <<>>
            BY <1>2, <2>2, <2>3 DEF Tapes, CursorClose
      <2>5. QED  BY <1>1, <1>2, <2>1, <2>3, <2>4, SameWorkKeepsTapes DEF InHeal, InDraw, PickSteps, LayoutFiles, Unmoved
    <1>5. CASE EnsureWindow
      <2>1. \/ pc = "window" /\ pc' = "pick" /\ pick'.ret = "window" /\ ~Complete(work, N)
            \/ pc = "window" /\ pc' = "apply" /\ Complete(work, N)
            \/ pc = "extend" /\ pc' = "pick" /\ pick'.ret = "extend" /\ ~Complete(work, N)
            \/ pc = "extend" /\ pc' = "heal" /\ Complete(work, N)
            BY <1>5 DEF EnsureWindow, CallPick, NoPick
      <2>2. pc = "window" => Unmoved
            BY DEF Unmoved
      <2>3. pc = "window" /\ Complete(before.layout, N) => Complete(work, N)
            BY <1>2, <2>2 DEF Tapes, CursorClose
      <2>4. QED  BY <1>1, <1>2, <2>1, <2>2, <2>3, SameWorkKeepsTapes DEF InHeal, InDraw, PickSteps, LayoutFiles, Unmoved
    <1>6. CASE Replace
      <2>1. pc = "apply" /\ pc' = "pick" /\ pick'.ret = "apply"
            BY <1>6 DEF Replace, CallPick, NoPick
      <2>2. QED  BY <1>1, <1>2, <2>1, SameWorkKeepsTapes DEF InHeal, InDraw, PickSteps, LayoutFiles, Unmoved
    <1>7. CASE Heal
      <2>1. pc = "heal" /\ (pc' = "heal" \/ (pc' = "pick" /\ pick'.ret = "heal"))
            BY <1>7 DEF Heal, CallPick, NoPick
      <2>2. Complete(work, N)
            BY <2>1 DEF Tapes, WorkComplete, InHeal
      <2>3. QED  BY <1>1, <1>2, <2>1, <2>2, SameWorkKeepsTapes DEF InHeal, InDraw, PickSteps, LayoutFiles, Unmoved
    <1>8. QED  BY <1>4, <1>5, <1>6, <1>7

LEMMA DrawKeepsTapes ==
    ASSUME Inductive, Tapes, PickStart \/ DrawRebuild \/ Draw
    PROVE  Tapes'
    <1>1. UNCHANGED diskLayouts
          BY DEF PickStart, DrawRebuild, Draw, pickFrame
    <1>2. CASE Fail
          BY <1>1, <1>2, FinishKeepsTapes DEF Fail
    <1>3. CASE ~Fail
      <2>1. /\ pc \in PickSteps /\ UNCHANGED <<work, before, req>> /\ pick'.ret = pick.ret
            /\ pc' \in PickSteps \/ (pc' = "library" /\ resume' = "draw")
        <3>1. pick \in Pick
              BY DEF Inductive, TypeOK, RequestType
        <3>2. CASE PickStart \/ DrawRebuild
              BY <1>3, <3>1, <3>2 DEF PickStart, DrawRebuild, Drawing, PickSteps, opVars, Pick
        <3>3. CASE Draw
              BY <3>1, <3>3, Zenon DEF Draw, Drawing, PickSteps, Pick
        <3>4. QED  BY <3>2, <3>3
      <2>2. InDraw /\ InDraw' /\ pc' \in PickSteps \cup CoreFiles
            BY <2>1 DEF InDraw, CoreFiles
      <2>3. QED  BY <1>1, <2>1, <2>2, DrawingKeepsTapes
    <1>4. QED  BY <1>2, <1>3

-----------------------------------------------------------------------------
(* The steps that write on the tape. *)

\* A step whose new tape is judged by the old one.
LEMMA MovedWorkKeepsTapes ==
    ASSUME Inductive, Tapes, Keyed, UNCHANGED <<diskLayouts, before, req, resume>>,
           Normal(work'), Short(work'),
           pc' \in {"window", "apply", "extend", "staged", "render"}, resume = "idle",
           pc' \in {"staged", "render"} => Complete(work', N),
           Complete(before.layout, N) =>
               /\ pc' \notin {"window", "apply"}
               /\ before.layout.idx <= work'.idx + 1 /\ before.layout.idx <= Len(work'.history)
    PROVE  Tapes'
    <1>1. ~InDraw' /\ ~InHeal'
          BY DEF InDraw, InHeal, PickSteps
    <1>2. TapesShort'
          BY DEF Tapes, TapesShort, Short
    <1>3. WorkComplete'
          BY <1>1 DEF WorkComplete, N, LayoutFiles
    <1>4. Unmoved' <=> pc' \in {"window", "apply"}
          BY <1>1 DEF Unmoved
    <1>5. CursorClose'
          BY <1>4 DEF CursorClose, N
    <1>6. QED  BY <1>2, <1>3, <1>5 DEF Tapes

LEMMA NavigateKeepsTapes ==
    ASSUME Inductive, Tapes, Navigate
    PROVE  Tapes'
    <1>1. /\ pc = "apply" /\ pc' = "extend" /\ work' = Moved(work)
          /\ UNCHANGED <<diskLayouts, before, req, resume>>
          BY DEF Navigate
    <1>2. /\ N \in Nat \ {0} /\ work \in LayoutsOf(Walls, N) /\ Keyed /\ resume = "idle" /\ Unmoved
          BY <1>1, WorkType, PositionKnown DEF OpSteps, Keyed, Busy, Position, Unmoved
    <1>3. work.idx \in Nat
          BY <1>2 DEF LayoutsOf
    <1>4. /\ Moved(work).history = work.history
          /\ work.idx <= Moved(work).idx + 1 /\ (work.idx >= 1 => Moved(work).idx >= 1)
      <2>1. \/ Moved(work) = work \/ Moved(work) = StepForward(work) \/ Moved(work) = StepBack(work)
            \/ Moved(work) = ShiftForward(work, N) \/ Moved(work) = ShiftBack(work, N)
            BY DEF Moved
      <2>2. CASE Moved(work) = work
            BY <1>3, <2>2
      <2>3. CASE Moved(work) = StepForward(work)
            BY <1>2, <1>3, <2>3 DEF StepForward, Greatest, LayoutsOf
      <2>4. CASE Moved(work) = StepBack(work)
            BY <1>2, <1>3, <2>4 DEF StepBack, Greatest, LayoutsOf
      <2>5. CASE Moved(work) = ShiftForward(work, N)
            BY <1>2, <1>3, <2>5 DEF ShiftForward, LayoutsOf
      <2>6. CASE Moved(work) = ShiftBack(work, N)
            BY <1>2, <1>3, <2>6 DEF ShiftBack, LayoutsOf
      <2>7. QED  BY <2>1, <2>2, <2>3, <2>4, <2>5, <2>6
    <1>5. Normal(work') /\ Short(work')
          BY <1>1, <1>4 DEF Tapes, TapesShort, Normal, Short
    <1>6. ASSUME Complete(before.layout, N)
          PROVE  before.layout.idx <= work'.idx + 1 /\ before.layout.idx <= Len(work'.history)
      <2>1. work = before.layout
            BY <1>2, <1>6 DEF Tapes, CursorClose
      <2>2. work.idx <= Len(work.history)
            BY <1>2, <1>6, <2>1, CompleteCursor
      <2>3. QED  BY <1>1, <1>4, <2>1, <2>2
    <1>7. QED  BY <1>1, <1>2, <1>5, <1>6, MovedWorkKeepsTapes

LEMMA StageKeepsTapes ==
    ASSUME Inductive, Tapes, Stage
    PROVE  Tapes'
    <1>1. /\ pc = "heal" /\ pc' \in {"staged", "render"} /\ work' = Healed(work) /\ Len(healed.walls) = Len(sel)
          /\ UNCHANGED <<diskLayouts, before, req, resume>>
          BY DEF Stage
    <1>2. /\ N \in Nat \ {0} /\ work \in LayoutsOf(Walls, N) /\ Keyed /\ resume = "idle" /\ ~Unmoved
          BY <1>1, WorkType, PositionKnown DEF OpSteps, Keyed, Busy, Position, Unmoved, InDraw, PickSteps
    <1>3. Complete(work, N)
          BY <1>1 DEF Tapes, WorkComplete, InHeal
    <1>4. healed.walls \in SetsOf(Walls, N)
          BY <1>1 DEF Inductive, TypeOK, RequestType, Ready, HealReady, InHeal, SetsOf
    <1>5. /\ work.idx \in Nat /\ work.history \in Seq(SetsOf(Walls, N)) /\ Len(work.history) \in Nat
          /\ MaxHistory \in Nat \ {0}
          BY <1>2, LenProperties, MaxHistoryAssumption DEF LayoutsOf
    <1>6. work.idx <= Len(work.history) /\ Len(work.history) <= MaxHistory
          BY <1>2, <1>3, CompleteCursor DEF Tapes, TapesShort, Short
    <1>7. Complete(before.layout, N) =>
              before.layout.idx <= work.idx + 1 /\ before.layout.idx <= Len(work.history)
          BY <1>2 DEF Tapes, CursorClose
    <1>8. CASE ~healed.changed
      <2>1. work' = work
            BY <1>1, <1>8 DEF Healed
      <2>2. QED  BY <1>1, <1>2, <1>3, <1>7, <2>1, MovedWorkKeepsTapes DEF Tapes, TapesShort
    <1>9. CASE healed.changed /\ work.offset = 0 /\ work.idx \in 1..Len(work.history)
      <2>1. work' = [work EXCEPT !.history[work.idx] = healed.walls]
            BY <1>1, <1>9 DEF Healed
      <2>2. work'.idx = work.idx /\ work'.offset = work.offset /\ Len(work'.history) = Len(work.history)
        <3>1. work'.history = [work.history EXCEPT ![work.idx] = healed.walls]
              BY <1>2, <2>1 DEF LayoutsOf
        <3>2. Len(work'.history) = Len(work.history)
              BY <1>5, <3>1
        <3>3. QED  BY <1>2, <2>1, <3>2 DEF LayoutsOf
      <2>3. Complete(work', N)
            BY <1>3, <2>2 DEF Complete, WindowStart
      <2>4. Normal(work') /\ Short(work')
            BY <1>5, <1>6, <1>9, <2>2 DEF Normal, Short
      <2>5. QED  BY <1>1, <1>2, <1>7, <2>2, <2>3, <2>4, MovedWorkKeepsTapes
    <1>10. CASE healed.changed /\ ~(work.offset = 0 /\ work.idx \in 1..Len(work.history))
      <2>1. work' = ReplaceTail(work, healed.walls)
            BY <1>1, <1>10 DEF Healed
      <2>2. /\ Complete(work', N) /\ Normal(work') /\ work'.idx = Len(work'.history)
            /\ Len(work'.history) = Least(Least(work.idx, Len(work.history)) + 1, MaxHistory)
            BY <1>2, <1>4, <2>1, ReplaceTailShape
      <2>3. Len(work'.history) = Least(work.idx + 1, MaxHistory)
            BY <1>5, <1>6, <2>2 DEF Least
      <2>4. Short(work')
            BY <1>5, <2>3 DEF Short, Least
      <2>5. Len(work'.history) \in Nat
            BY <1>5, <2>3 DEF Least
      <2>6. ASSUME Complete(before.layout, N)
            PROVE  before.layout.idx <= work'.idx + 1 /\ before.layout.idx <= Len(work'.history)
        <3>1. before.layout.idx \in Nat
          <4>1. before.layout \in LayoutFor(req.key)
                BY DEF Inductive, TypeOK, RequestType, BeforeOK
          <4>2. LayoutFor(req.key) = LayoutsOf(Walls, N)
                BY <1>1, WorkType DEF OpSteps
          <4>3. QED  BY <4>1, <4>2 DEF LayoutsOf
        <3>2. before.layout.idx <= Least(work.idx + 1, MaxHistory)
              BY <1>5, <1>6, <1>7, <2>6, <3>1 DEF Least
        <3>3. QED  BY <2>2, <2>3, <2>5, <3>1, <3>2
      <2>7. QED  BY <1>1, <1>2, <2>2, <2>4, <2>6, MovedWorkKeepsTapes
    <1>11. QED  BY <1>8, <1>9, <1>10

LEMMA DrawDoneKeepsTapes ==
    ASSUME Inductive, Tapes, DrawDone
    PROVE  Tapes'
    <1>1. /\ pc = "draw" /\ Len(pick.got) = pick.need /\ UNCHANGED <<diskLayouts, before, req, resume>>
          BY DEF DrawDone, pickFrame
    <1>2. /\ N \in Nat \ {0} /\ work \in LayoutsOf(Walls, N) /\ req.index \in 1..N
          /\ Keyed /\ resume = "idle" /\ InDraw
          BY <1>1, WorkType, PositionKnown DEF OpSteps, Keyed, Busy, Position, InDraw, PickSteps
    <1>3. /\ pick.need = IF pick.ret \in {"apply", "heal"} THEN 1 ELSE N
          /\ pick.got \in Seq(Walls) /\ pick.ret \in {"init", "window", "extend", "apply", "heal"}
          BY <1>2 DEF Inductive, TypeOK, RequestType, Pick, Ready, DrawReady
    <1>4. /\ work.idx \in Nat /\ Len(work.history) \in Nat /\ MaxHistory \in Nat \ {0}
          /\ Len(work.history) <= MaxHistory
          BY <1>2, LenProperties, MaxHistoryAssumption DEF LayoutsOf, Tapes, TapesShort, Short
    <1>5. CASE pick.ret \in {"init", "window", "extend"}
      <2> DEFINE l == AppendSet(work, pick.got)
      <2>1. pick.got \in SetsOf(Walls, N)
            BY <1>1, <1>3, <1>5 DEF SetsOf
      <2>2. l \in LayoutsOf(Walls, N) /\ Len(l.history) = Least(Len(work.history) + 1, MaxHistory)
            BY <1>2, <2>1, AppendSetType, AppendSetShape
      <2>3. work.idx >= 1 =>
                l.idx = Greatest(work.idx - MinusToZero(Len(work.history) + 1, MaxHistory), 1)
            BY <1>2, <2>1, AppendSetShape
      <2> HIDE DEF l
      <2>4. Len(l.history) <= MaxHistory /\ l.idx \in Nat
            BY <1>4, <2>2 DEF Least, LayoutsOf
      <2>5. CASE pick.ret \in {"init", "window"}
        <3>1. /\ work' = [l EXCEPT !.idx = 1, !.offset = 0] \/ (work' = l /\ l.idx >= 1)
              /\ pc' \in {"window", "apply"}
          <4>1. pick.ret \notin {"extend", "apply", "heal"} /\ pick.ret # "extend"
                BY <2>5
          <4>2. \/ work' = [l EXCEPT !.idx = 1, !.offset = 0]
                \/ work' = IF l.idx < 1 THEN [l EXCEPT !.idx = 1, !.offset = 0] ELSE l
                BY <4>1 DEF DrawDone, l
          <4>3. l.idx < 1 \/ l.idx >= 1
                BY <2>4
          <4>4. pc' \in {"window", "apply"}
                BY <2>5, <4>1 DEF DrawDone
          <4>5. QED  BY <4>2, <4>3, <4>4
        <3>2. work'.history = l.history /\ work'.idx >= 1
          <4>1. l = [history |-> l.history, idx |-> l.idx, offset |-> l.offset]
                BY <2>2 DEF LayoutsOf
          <4>2. [l EXCEPT !.idx = 1, !.offset = 0].history = l.history /\ [l EXCEPT !.idx = 1, !.offset = 0].idx = 1
                BY <4>1
          <4>3. CASE work' = [l EXCEPT !.idx = 1, !.offset = 0]
                BY <4>2, <4>3
          <4>4. CASE work' = l /\ l.idx >= 1
                BY <4>4
          <4>5. QED  BY <3>1, <4>3, <4>4
        <3>3. Normal(work') /\ Short(work')
              BY <2>4, <3>2 DEF Normal, Short
        <3>4. ~Complete(before.layout, N)
              BY <1>2, <2>5 DEF Tapes, CursorClose, Unmoved
        <3>5. QED  BY <1>2, <1>1, <3>1, <3>3, <3>4, MovedWorkKeepsTapes
      <2>6. CASE pick.ret = "extend"
        <3>1. work' = IF l.idx < 1 THEN [l EXCEPT !.idx = 1, !.offset = 0] ELSE l
              BY <2>6 DEF DrawDone, l
        <3>2. pc' = "extend"
              BY <2>6 DEF DrawDone
        <3>3. work'.history = l.history /\ work'.idx >= 1 /\ work'.idx >= l.idx
              BY <2>2, <2>4, <3>1 DEF LayoutsOf
        <3>4. Normal(work') /\ Short(work')
              BY <2>4, <3>3 DEF Normal, Short
        <3>5. ASSUME Complete(before.layout, N)
              PROVE  before.layout.idx <= work'.idx + 1 /\ before.layout.idx <= Len(work'.history)
          <4> DEFINE m   == before.layout.idx
                     i   == work.idx
                     len == Len(work.history)
          <4>1. m \in Nat
            <5>1. before.layout \in LayoutFor(req.key)
                  BY DEF Inductive, TypeOK, RequestType, BeforeOK
            <5>2. LayoutFor(req.key) = LayoutsOf(Walls, N)
                  BY <1>1, WorkType DEF OpSteps
            <5>3. QED  BY <5>1, <5>2 DEF LayoutsOf
          <4>2. ~Unmoved
                BY <1>1, <2>6 DEF Unmoved
          <4>3. m <= i + 1 /\ m <= len
                BY <1>2, <3>5, <4>2 DEF Tapes, CursorClose
          <4>4. CASE m = 0
            <5>1. Len(work'.history) \in Nat /\ work'.idx >= 1
                  BY <1>4, <2>2, <3>3 DEF Least
            <5> HIDE DEF m
            <5>2. m <= 1 + 1 /\ m <= Len(work'.history)
                  BY <4>4, <5>1
            <5>3. work'.idx \in Nat
                  BY <2>2, <2>4, <3>1 DEF LayoutsOf
            <5>4. QED  BY <4>4, <5>1, <5>2, <5>3 DEF m
          <4>5. CASE m >= 1
            <5>1. i >= 1
              <6>1. Len(work.history) >= 1
                    BY <1>4, <4>1, <4>3, <4>5
              <6>2. work.history # <<>>
                    BY <6>1
              <6>3. QED  BY <6>2 DEF Tapes, Normal
            <5>2. len <= i
                  BY <1>2, <2>6, <5>1, IncompleteCursor DEF Tapes, WorkComplete
            <5>3. l.idx = Greatest(i - MinusToZero(len + 1, MaxHistory), 1)
                  BY <2>3, <5>1
            <5> HIDE DEF m, i, len
            <5>4. l.idx >= i - 1
                  BY <1>4, <5>1, <5>3 DEF i, len, Greatest, MinusToZero
            <5>5. m <= work'.idx + 1
                  BY <1>4, <2>4, <3>3, <4>1, <4>3, <5>1, <5>2, <5>4, <3>1, <2>2 DEF i, len, LayoutsOf
            <5>6. m <= Len(work'.history)
                  BY <1>4, <2>2, <3>3, <4>1, <4>3 DEF i, len, Least
            <5>7. QED  BY <5>5, <5>6 DEF m
          <4>6. QED  BY <4>1, <4>4, <4>5
        <3>6. QED  BY <1>1, <1>2, <3>2, <3>4, <3>5, MovedWorkKeepsTapes
      <2>7. QED  BY <1>5, <2>5, <2>6
    <1>6. CASE pick.ret = "apply"
      <2> DEFINE s == [Window(work) EXCEPT ![req.index] = pick.got[1]]
      <2>1. pc' = "extend" /\ work' = ReplaceTail(work, s)
            BY <1>6 DEF DrawDone
      <2>2. Complete(work, N)
            BY <1>2, <1>6 DEF Inductive, Ready, WindowReady
      <2>3. s \in SetsOf(Walls, N)
        <3>1. Window(work) \in SetsOf(Walls, N)
              BY <1>2, <2>2, WindowType
        <3>2. pick.got[1] \in Walls
              BY <1>1, <1>3, <1>6
        <3>3. QED  BY <1>2, <3>1, <3>2 DEF SetsOf
      <2> HIDE DEF s
      <2>4. /\ Normal(work') /\ work'.idx = Len(work'.history)
            /\ Len(work'.history) = Least(Least(work.idx, Len(work.history)) + 1, MaxHistory)
            BY <1>2, <2>1, <2>3, ReplaceTailShape
      <2>5. Len(work'.history) = Least(work.idx + 1, MaxHistory) /\ work.idx <= MaxHistory
            BY <1>2, <1>4, <2>2, <2>4, CompleteCursor DEF Least
      <2>6. Short(work') /\ work.idx <= Len(work'.history) /\ Len(work'.history) \in Nat
            BY <1>4, <2>5 DEF Short, Least
      <2>7. Complete(before.layout, N) => work = before.layout
            BY <1>2, <1>6 DEF Tapes, CursorClose, Unmoved
      <2>8. Complete(before.layout, N) =>
                before.layout.idx <= work'.idx + 1 /\ before.layout.idx <= Len(work'.history)
            BY <1>4, <2>4, <2>6, <2>7
      <2>9. QED  BY <1>1, <1>2, <2>1, <2>4, <2>6, <2>8, MovedWorkKeepsTapes
    <1>7. CASE pick.ret = "heal"
      <2>1. UNCHANGED work /\ pc' = "heal"
            BY <1>7 DEF DrawDone
      <2>2. Complete(work, N)
            BY <1>2, <1>7 DEF Tapes, WorkComplete, InHeal
      <2>3. ~InDraw' /\ ~Unmoved'
            BY <1>1, <1>2, <2>1 DEF InDraw, PickSteps, Unmoved
      <2>4. QED  BY <1>1, <1>2, <2>1, <2>2, <2>3, SameWorkKeepsTapes
    <1>8. QED  BY <1>3, <1>5, <1>6, <1>7

LEMMA TransactionKeepsTapes ==
    ASSUME Inductive, Tapes,
           RefuseMissing \/ RefuseWorld \/ MoveQuarantine \/ RenderOk \/ RenderFail \/ Favor
    PROVE  Tapes'
    <1>1. UNCHANGED diskLayouts
          BY DEF RefuseMissing, RefuseWorld, MoveQuarantine, RenderOk, RenderFail, Favor
    <1>2. CASE Finish
          BY <1>1, <1>2, FinishKeepsTapes
    <1>3. CASE ~Finish
      <2>1. /\ UNCHANGED <<work, before, req, resume>>
            /\ \/ pc \in {"staged", "render"} /\ pc' \in {"render", "history"}
               \/ pc = "apply" /\ req.kind \in Favoring /\ pc' = "history"
            BY <1>3 DEF RefuseMissing, RefuseWorld, MoveQuarantine, RenderOk, RenderFail, Favor, Fail, opVars
      <2>2. Keyed /\ resume = "idle"
            BY <2>1, PositionKnown DEF Position, Keyed, Busy, OpSteps
      <2>3. Complete(work, N)
            BY <2>1 DEF Tapes, WorkComplete, Inductive, Ready, WindowReady
      <2>4. ~InDraw' /\ ~Unmoved'
            BY <2>1, <2>2 DEF InDraw, PickSteps, Unmoved
      <2>5. QED  BY <1>1, <2>1, <2>2, <2>3, <2>4, SameWorkKeepsTapes
    <1>4. QED  BY <1>2, <1>3

LEMMA WriteKeepsTapes ==
    ASSUME Inductive, Tapes, FilesFollow, WriteHistory \/ WriteIndex \/ WriteOffset
    PROVE  Tapes'
    <1>1. /\ pc \in LayoutFiles /\ pc' \in {"index", "offset", "library"}
          /\ UNCHANGED <<work, before, req, resume>> /\ Keyed /\ resume = "idle"
          BY PositionKnown DEF WriteHistory, WriteIndex, WriteOffset, WriteLayoutFile, LayoutFiles, opVars,
                               Keyed, Position
    <1>2. PICK d : /\ diskLayouts' = [diskLayouts EXCEPT ![req.key] = d]
                   /\ d.history = work.history \/ d.history = diskLayouts[req.key].history
      <2>1. req.key \in Keys
            BY <1>1, WorkType
      <2>2. diskLayouts[req.key] \in LayoutsOf(Walls, N)
            BY <2>1, OutCountType DEF Inductive, TypeOK, StoreType, N
      <2>3. QED  BY <2>2 DEF WriteHistory, WriteIndex, WriteOffset, WriteLayoutFile, LayoutsOf
    <1>3. \A k \in Keys : Short(diskLayouts'[k])
          BY <1>2 DEF Inductive, TypeOK, StoreType, Tapes, TapesShort, Short
    <1>4. Normal(work') /\ TapesShort'
          BY <1>1, <1>3 DEF Tapes, TapesShort, Short
    <1>5. Complete(work, N)
          BY <1>1 DEF Tapes, WorkComplete
    <1>6. ~InDraw /\ ~InDraw' /\ ~Unmoved /\ ~Unmoved'
          BY <1>1 DEF InDraw, PickSteps, LayoutFiles, Unmoved
    <1>7. WorkComplete' /\ CursorClose'
          BY <1>1, <1>5, <1>6 DEF WorkComplete, CursorClose, Tapes, N
    <1>8. QED  BY <1>4, <1>7 DEF Tapes

LEMMA CoreWritesKeepTapes ==
    ASSUME Inductive, Tapes, WriteLibrary \/ WriteFavorites \/ WriteWalls \/ WriteWallsIdx
    PROVE  Tapes'
    <1>1. pc \in CoreFiles /\ UNCHANGED diskLayouts
          BY DEF WriteLibrary, WriteFavorites, WriteWalls, WriteWallsIdx, WriteCoreFile, CoreFiles
    <1>2. CASE Finish
          BY <1>1, <1>2, FinishKeepsTapes
    <1>3. CASE ~Finish
      <2>1. /\ UNCHANGED <<work, before, req, pick>>
            /\ \/ pc' \in CoreFiles /\ resume' = resume
               \/ pc' = "draw" /\ resume = "draw" /\ resume' = "idle"
            BY <1>3 DEF WriteLibrary, WriteFavorites, WriteWalls, WriteWallsIdx, WriteCoreFile, opVars, CoreFiles
      <2>2. CASE resume = "draw"
        <3>1. InDraw /\ InDraw' /\ pc' \in PickSteps \cup CoreFiles
              BY <2>1, <2>2 DEF InDraw, PickSteps
        <3>2. QED  BY <1>1, <2>1, <3>1, DrawingKeepsTapes
      <2>3. CASE resume # "draw"
            BY <1>1, <2>1, <2>3, RestKeepsTapes DEF OpSteps, LayoutFiles, CoreFiles
      <2>4. QED  BY <2>2, <2>3
    <1>4. QED  BY <1>2, <1>3

LEMMA FaultKeepsTapes ==
    ASSUME Inductive, Tapes, NoRestart, Fault \/ Unwind
    PROVE  Tapes'
    <1>1. ASSUME Forget, UNCHANGED diskLayouts
          PROVE  Tapes'
      <2>1. pc' = "down" /\ resume' = "idle" /\ work' = EmptyLayout
            BY <1>1 DEF Forget, ResetOp
      <2>2. QED  BY <1>1, <2>1, RestKeepsTapes DEF OpSteps, LayoutFiles
    <1>2. CASE WriteFails
      <2>1. UNCHANGED diskLayouts /\ (Forget \/ Finish)
            BY <1>2 DEF WriteFails, Fail
      <2>2. QED  BY <1>1, <2>1, FinishKeepsTapes
    <1>3. CASE Crash \/ MoveFails
      <2>1. UNCHANGED diskLayouts /\ (Forget \/ Finish)
            BY <1>3 DEF Crash, MoveFails
      <2>2. QED  BY <1>1, <2>1, FinishKeepsTapes
    <1>4. CASE \E w \in Walls : CreateFile(w) \/ DeleteFile(w)
      <2>1. UNCHANGED <<diskLayouts, pc, req, work, before, pick, resume>>
            BY <1>4 DEF CreateFile, DeleteFile, opVars
      <2>2. QED  BY <2>1 DEF Tapes, TapesShort, WorkComplete, CursorClose, Unmoved, Keyed, Busy, InDraw, InHeal, N
    <1>5. CASE Unwind
      <2>1. pc = "unwind" /\ pc' = "idle" /\ UNCHANGED <<diskLayouts, resume, work>>
            BY <1>5 DEF Unwind, opVars
      <2>2. resume = "idle"
            BY <2>1 DEF Inductive, Ready, RestReady
      <2>3. QED  BY <2>1, <2>2, RestKeepsTapes DEF OpSteps, LayoutFiles
    <1>6. ASSUME RendererLost \/ \E k \in Keys : RendererRestart(k)
          PROVE  FALSE
          BY <1>6 DEF RendererLost, RendererRestart, NoRestart
    <1>7. QED  BY <1>2, <1>3, <1>4, <1>5, <1>6 DEF Fault

LEMMA NextKeepsTapes ==
    ASSUME Inductive, Books, Tapes, NoRestart, [Next]_vars
    PROVE  Tapes'
    <1>1. CASE UNCHANGED vars
          BY <1>1 DEF vars, Tapes, TapesShort, WorkComplete, CursorClose, Unmoved, Keyed, Busy, InDraw, InHeal, N
    <1>2. CASE Step
          BY <1>2, RequestKeepsTapes, SearchKeepsTapes, DrawKeepsTapes, NavigateKeepsTapes, StageKeepsTapes,
             DrawDoneKeepsTapes, TransactionKeepsTapes, WriteKeepsTapes, CoreWritesKeepTapes, FaultKeepsTapes
          DEF Step, Books
    <1>3. CASE Request \/ Fault
          BY <1>3, RequestKeepsTapes, FaultKeepsTapes DEF Books
    <1>4. QED  BY <1>1, <1>2, <1>3 DEF Next

-----------------------------------------------------------------------------
(***************************************************************************)
(* The layouts on disk.  When nothing but the wall directory changes under *)
(* the supervisor, every layout whose files are not being written is empty *)
(* or complete.  After a failed write or a crash that need not hold, and   *)
(* then marking a favourite may extend the layout in memory only.          *)
(***************************************************************************)
Filled(l, n) == l.history = <<>> \/ Complete(l, n)

DisksComplete ==
    \A k \in Keys : ~(pc \in {"index", "offset"} /\ k = req.key) => Filled(LoadedLayout(k), OutCount[k])

LEMMA NextKeepsDisks ==
    ASSUME Inductive, Books, Tapes, DisksComplete, Quiet, [Next]_vars
    PROVE  DisksComplete'
    <1>1. CASE pc \notin {"index", "offset"} /\ UNCHANGED diskLayouts
          BY <1>1 DEF DisksComplete, LoadedLayout
    <1>2. CASE UNCHANGED <<diskLayouts, pc, req>>
          BY <1>2 DEF DisksComplete, LoadedLayout
    <1>3. CASE WriteHistory \/ WriteIndex
      <2>1. /\ pc' \in {"index", "offset"} /\ UNCHANGED req /\ pc \in LayoutFiles
            /\ \E d : diskLayouts' = [diskLayouts EXCEPT ![req.key] = d]
            BY <1>3 DEF WriteHistory, WriteIndex, WriteLayoutFile, opVars, LayoutFiles
      <2>2. \A k \in Keys : k # req.key => diskLayouts'[k] = diskLayouts[k]
            BY <2>1 DEF Inductive, TypeOK, StoreType
      <2>3. QED  BY <2>1, <2>2 DEF DisksComplete, LoadedLayout
    <1>4. CASE WriteOffset
      <2>1. /\ req.key \in Keys /\ diskLayouts' = [diskLayouts EXCEPT ![req.key] = work] /\ Load(work, N) = work
            BY <1>4, WriteOffsetStores DEF Tapes
      <2>2. pc = "offset" /\ pc' = "library" /\ UNCHANGED req
            BY <1>4 DEF WriteOffset, WriteLayoutFile, opVars
      <2>3. Complete(work, N)
            BY <2>2 DEF Tapes, WorkComplete, LayoutFiles
      <2>4. LoadedLayout(req.key)' = work
            BY <2>1, <2>2 DEF LoadedLayout, N, Inductive, TypeOK, StoreType
      <2>5. \A k \in Keys : k # req.key => LoadedLayout(k)' = LoadedLayout(k)
            BY <2>1 DEF LoadedLayout, Inductive, TypeOK, StoreType
      <2>6. QED  BY <2>2, <2>3, <2>4, <2>5 DEF DisksComplete, Filled, N
    <1>5. ASSUME Request \/ Restart \/ Unwind
          PROVE  pc \notin {"index", "offset"} /\ UNCHANGED diskLayouts
          BY <1>5 DEF Request, Prepare, PrepareFavorite, Current, Rescan, AddTopLevelFile, Restart, Unwind
    <1>6. ASSUME \/ EnsureInitialized \/ EnsureWindow \/ Navigate \/ Replace \/ Heal \/ Stage
                 \/ PickStart \/ DrawRebuild \/ Draw \/ DrawDone
          PROVE  pc \notin {"index", "offset"} /\ UNCHANGED diskLayouts
          BY <1>6 DEF EnsureInitialized, EnsureWindow, Navigate, Replace, Heal, Stage,
                      PickStart, DrawRebuild, Draw, DrawDone, Drawing, pickFrame
    <1>7. ASSUME \/ RefuseMissing \/ RefuseWorld \/ MoveQuarantine \/ RenderOk \/ RenderFail \/ Favor
                 \/ WriteLibrary \/ WriteFavorites \/ WriteWalls \/ WriteWallsIdx
          PROVE  pc \notin {"index", "offset"} /\ UNCHANGED diskLayouts
          BY <1>7 DEF RefuseMissing, RefuseWorld, MoveQuarantine, RenderOk, RenderFail, Favor,
                      WriteLibrary, WriteFavorites, WriteWalls, WriteWallsIdx, WriteCoreFile
    <1>8. ASSUME Fault
          PROVE  UNCHANGED <<diskLayouts, pc, req>>
          BY <1>8 DEF Fault, Quiet, CreateFile, DeleteFile, opVars, Crash, WriteFails, MoveFails,
                      RendererRestart, RendererLost
    <1>9. CASE UNCHANGED vars
          BY <1>2, <1>9 DEF vars
    <1>10. QED  BY <1>1, <1>2, <1>3, <1>4, <1>5, <1>6, <1>7, <1>8, <1>9 DEF Next, Step

-----------------------------------------------------------------------------
(* The theorems on memory and the state files. *)

Agreement == Inductive /\ Books /\ Tapes /\ (Quiet => DisksComplete)

LEMMA InitAgreement == Init => Agreement
    <1> SUFFICES ASSUME Init
                 PROVE  Agreement
        OBVIOUS
    <1>1. Inductive
          BY InitInductive
    <1>2. /\ pc = "library" /\ resume = "idle" /\ outer = NoOuter /\ work = EmptyLayout
          /\ \A k \in Keys : layouts[k] = NoLayout /\ diskLayouts[k] = EmptyLayout
          BY DEF Init
    <1>3. ~Busy /\ ~Keyed /\ ~Marking /\ ~InDraw /\ ~InHeal
          BY <1>2 DEF Busy, Keyed, Marking, InDraw, InHeal, OpSteps, LayoutFiles, PickSteps
    <1>4. Books
          BY <1>2, <1>3 DEF Books, Calm, CachedLayoutIsDurable, LayoutTaken, BeforeDurable, FilesFollow, MarkingFits
    <1>5. Tapes
          BY <1>2, <1>3, MaxHistoryAssumption
          DEF Tapes, Normal, TapesShort, Short, WorkComplete, CursorClose, EmptyLayout, LayoutFiles
    <1>6. DisksComplete
          BY <1>2 DEF DisksComplete, Filled, LoadedLayout, Load, EmptyLayout
    <1>7. QED  BY <1>1, <1>4, <1>5, <1>6 DEF Agreement

LEMMA NextAgreement ==
    ASSUME NoRestart, NoFavors \/ Quiet, Agreement, Inductive', [Next]_vars
    PROVE  Agreement'
    <1>1. ASSUME NEW kind \in Actions, NEW k \in Keys, NEW i \in 1..OutCount[k], PrepareFavorite(kind, k, i)
          PROVE  Complete(TakeLayout(k), OutCount[k])
      <2>1. ~NoFavors /\ pc = "idle" /\ TakeLayout(k).history # <<>>
            BY <1>1 DEF PrepareFavorite, NoFavors
      <2>2. TakeLayout(k) = LoadedLayout(k)
            BY TakeLoaded DEF Agreement, Books
      <2>3. Filled(LoadedLayout(k), OutCount[k])
            BY <2>1 DEF Agreement, DisksComplete
      <2>4. QED  BY <2>1, <2>2, <2>3 DEF Filled
    <1>2. Books'
          BY <1>1, NextKeepsBooks DEF Agreement, Tapes
    <1>3. Tapes'
          BY NextKeepsTapes DEF Agreement
    <1>4. Quiet => DisksComplete'
          BY NextKeepsDisks DEF Agreement
    <1>5. QED  BY <1>2, <1>3, <1>4 DEF Agreement

LEMMA AlwaysAgreement ==
    ASSUME NoRestart, NoFavors \/ Quiet
    PROVE  Spec => []Agreement
    <1>1. Agreement /\ Inductive' /\ [Next]_vars => Agreement'
          BY NextAgreement
    <1>2. QED  BY <1>1, InitAgreement, StepsAreReady, PTL DEF Spec

\* Memory and the layout files agree, whatever fails, is refused, is rolled
\* back or crashes, as long as the renderer is not restarted; with favourite
\* actions, as long as no write fails and nothing crashes.
THEOREM MemoryIsDurable ==
    ASSUME NoRestart, NoFavors \/ Quiet
    PROVE  Spec => []CachedLayoutIsDurable
    <1>1. Agreement => CachedLayoutIsDurable
          BY DEF Agreement, Books
    <1>2. QED  BY <1>1, AlwaysAgreement, PTL

\* Under the same conditions, at no point of the three writes does the cursor
\* file point behind the history file, so a crash there leaves a layout that
\* can be read.
THEOREM CursorStaysInHistory ==
    ASSUME NoRestart, NoFavors \/ Quiet
    PROVE  Spec => []DurableCursorInHistory
    <1>1. ASSUME Agreement, pc \in LayoutFiles, before.layout = EmptyLayout \/ Complete(before.layout, N)
          PROVE  diskLayouts[req.key].idx <= Len(diskLayouts[req.key].history)
      <2> DEFINE d == diskLayouts[req.key]
      <2>1. /\ req.key \in Keys /\ N \in Nat \ {0} /\ work \in LayoutsOf(Walls, N)
            /\ LayoutFor(req.key) = LayoutsOf(Walls, N)
            BY <1>1, WorkType DEF Agreement
      <2>2. /\ d \in LayoutsOf(Walls, N) /\ before.layout \in LayoutsOf(Walls, N)
            BY <1>1, <2>1 DEF Agreement, Inductive, TypeOK, StoreType, RequestType, BeforeOK
      <2>3. /\ d.idx \in Nat /\ before.layout.idx \in Nat /\ work.idx \in Nat
            /\ Len(d.history) \in Nat /\ Len(before.layout.history) \in Nat /\ Len(work.history) \in Nat
            BY <2>1, <2>2, LenProperties DEF LayoutsOf
      <2>4. before.layout.idx <= Len(before.layout.history)
            BY <1>1, <2>1, <2>2, CompleteCursor DEF EmptyLayout
      <2>5. Keyed /\ ~Unmoved
            BY <1>1, PositionKnown DEF Keyed, Unmoved, InDraw, PickSteps, CoreFiles, LayoutFiles, Position, Agreement
      <2> HIDE DEF d
      <2>6. CASE pc = "history"
        <3>1. before.layout = Load(d, N)
              BY <1>1, <2>6 DEF Agreement, Books, BeforeDurable, LoadedLayout, d, N
        <3>2. d.idx <= before.layout.idx /\ before.layout.history = d.history
              BY <2>1, <2>2, <3>1, LoadNormal
        <3>3. QED  BY <2>3, <2>4, <3>2 DEF d
      <2>7. CASE pc = "index"
        <3>1. d.history = work.history /\ d.idx <= before.layout.idx
              BY <1>1, <2>7 DEF Agreement, Books, FilesFollow, d
        <3>2. CASE before.layout = EmptyLayout
          <4>1. before.layout.idx = 0
                BY <3>2 DEF EmptyLayout
          <4>2. QED  BY <2>3, <3>1, <4>1 DEF d
        <3>3. CASE Complete(before.layout, N)
          <4>1. before.layout.idx <= Len(work.history)
                BY <1>1, <2>5, <3>3 DEF Agreement, Tapes, CursorClose
          <4>2. QED  BY <2>3, <3>1, <4>1 DEF d
        <3>4. QED  BY <1>1, <3>2, <3>3
      <2>8. CASE pc = "offset"
        <3>1. d.history = work.history /\ d.idx = work.idx
              BY <1>1, <2>8 DEF Agreement, Books, FilesFollow, d
        <3>2. Complete(work, N)
              BY <1>1 DEF Agreement, Tapes, WorkComplete
        <3>3. work.idx <= Len(work.history)
              BY <2>1, <3>2, CompleteCursor
        <3>4. QED  BY <3>1, <3>3 DEF d
      <2>9. QED  BY <1>1, <2>6, <2>7, <2>8 DEF LayoutFiles
    <1>2. Agreement => DurableCursorInHistory
          BY <1>1 DEF DurableCursorInHistory
    <1>3. QED  BY <1>2, AlwaysAgreement, PTL

-----------------------------------------------------------------------------
(***************************************************************************)
(* The abstract transaction.  Without failed writes and restarts a step    *)
(* leaves what is current, shown and offered alone, or is the renderer's   *)
(* acceptance, or the commit of what it accepted, or the end of the        *)
(* supervisor, which takes the renderer with it.                           *)
(***************************************************************************)
OnlyCrashes == Faults \subseteq {"churn", "crash"}

CommitFits == Committing => sel = Window(work) /\ sel \in SetsOf(Walls, N)

Stutters ==
    /\ \A k \in Keys : CurrentLayout(k)' = CurrentLayout(k)
    /\ shown' = shown /\ (Committing' <=> Committing)
    /\ Committing => req' = req /\ sel' = sel /\ work' = work

Accepts ==
    /\ ~Committing /\ Committing' /\ req' = req /\ sel' = sel /\ work' = work
    /\ Window(work) = sel /\ req.key \in Keys /\ sel \in SetsOf(Walls, N)
    /\ shown' = [key |-> req.key, walls |-> sel]
    /\ \A k \in Keys : CurrentLayout(k)' = CurrentLayout(k)

Commits ==
    /\ Committing /\ ~Committing' /\ shown' = shown
    /\ req.key \in Keys
    /\ \A k \in Keys : Window(CurrentLayout(k)') = IF k = req.key THEN sel ELSE Window(CurrentLayout(k))

Loses == ~Committing' /\ shown' = NoShown

LEMMA CurrentLoaded ==
    ASSUME CachedLayoutIsDurable, NEW k \in Keys
    PROVE  CurrentLayout(k) = IF Committing /\ k = req.key THEN before.layout ELSE LoadedLayout(k)
    BY TakeLoaded DEF CurrentLayout

\* A step outside the writes of a commit.
LEMMA RestStutters ==
    ASSUME Agreement, Agreement', ~Committing, ~Committing', UNCHANGED <<diskLayouts, shown>>
    PROVE  Stutters
    <1>1. \A k \in Keys : CurrentLayout(k) = LoadedLayout(k) /\ LoadedLayout(k)' = LoadedLayout(k)
          BY CurrentLoaded DEF Agreement, Books, LoadedLayout
    <1>2. \A k \in Keys : CurrentLayout(k)' = LoadedLayout(k)'
          BY TakeLoaded DEF CurrentLayout, Agreement, Books, CachedLayoutIsDurable, TakeLayout, LoadedLayout
    <1>3. QED  BY <1>1, <1>2 DEF Stutters

LEMMA RenderOkAccepts ==
    ASSUME Agreement, Agreement', RenderOk
    PROVE  Accepts
    <1>1. /\ pc = "render" /\ pc' = "history" /\ UNCHANGED <<req, sel, work, before, diskLayouts>>
          /\ shown' = [key |-> req.key, walls |-> sel]
          BY DEF RenderOk, opVars
    <1>2. Busy /\ Keyed
          BY <1>1 DEF Busy, Keyed, OpSteps
    <1>3. req.kind \notin Favoring
          BY <1>1, <1>2 DEF Agreement, Books, MarkingFits, Marking, LayoutFiles
    <1>4. ~Committing /\ Committing'
          BY <1>1, <1>3 DEF Committing, LayoutFiles
    <1>5. req.key \in Keys /\ N \in Nat
          BY <1>1, WorkType DEF Agreement, OpSteps
    <1>6. sel \in SetsOf(Walls, N) /\ Window(work) = sel
          BY <1>1 DEF Agreement, Inductive, TypeOK, RequestType, Ready, StagedIsWindow, SetsOf
    <1>7. before.layout = LoadedLayout(req.key)
          BY <1>2 DEF Agreement, Books, BeforeDurable
    <1>8. ASSUME NEW k \in Keys
          PROVE  CurrentLayout(k)' = CurrentLayout(k)
      <2>1. CurrentLayout(k) = LoadedLayout(k) /\ LoadedLayout(k)' = LoadedLayout(k)
            BY <1>1, <1>4, CurrentLoaded DEF Agreement, Books, LoadedLayout
      <2>2. TakeLayout(k)' = LoadedLayout(k)'
            BY DEF Agreement, Books, CachedLayoutIsDurable, TakeLayout, LoadedLayout
      <2>3. CurrentLayout(k)' = IF k = req.key THEN before.layout ELSE LoadedLayout(k)'
            BY <1>1, <1>4, <2>2 DEF CurrentLayout
      <2>4. QED  BY <1>7, <2>1, <2>3
    <1>9. QED  BY <1>1, <1>4, <1>5, <1>6, <1>8 DEF Accepts

LEMMA WritesStutterOrCommit ==
    ASSUME Agreement, Agreement', CommitFits, WriteHistory \/ WriteIndex \/ WriteOffset
    PROVE  Stutters \/ Commits
    <1>1. /\ pc \in LayoutFiles /\ UNCHANGED <<req, sel, work, before, shown>> /\ Keyed
          BY DEF WriteHistory, WriteIndex, WriteOffset, WriteLayoutFile, LayoutFiles, opVars, Keyed
    <1>2. req.key \in Keys /\ DOMAIN diskLayouts = Keys
          BY <1>1, WorkType DEF Agreement, Inductive, TypeOK, StoreType
    <1>3. \A k \in Keys : k # req.key => LoadedLayout(k)' = LoadedLayout(k)
          BY <1>2 DEF WriteHistory, WriteIndex, WriteOffset, WriteLayoutFile, LoadedLayout
    <1>4. \A k \in Keys : TakeLayout(k) = LoadedLayout(k) /\ TakeLayout(k)' = LoadedLayout(k)'
          BY TakeLoaded DEF Agreement, Books, CachedLayoutIsDurable, TakeLayout, LoadedLayout
    <1>5. \A k \in Keys : k # req.key => CurrentLayout(k)' = CurrentLayout(k)
          BY <1>1, <1>3, <1>4 DEF CurrentLayout
    <1>6. CASE Marking
      <2>1. ~Committing /\ ~Committing'
            BY <1>1, <1>6 DEF Committing, Marking
      <2>2. LoadedLayout(req.key) = before.layout
            BY <1>6 DEF Agreement, Books, BeforeDurable
      <2>3. LoadedLayout(req.key)' = before.layout
        <3>1. CASE WriteOffset
          <4>1. diskLayouts'[req.key] = work /\ Load(work, N) = work
                BY <1>2, <3>1, WriteOffsetStores DEF Agreement, Tapes
          <4>2. work = before.layout
                BY <1>6 DEF Agreement, Books, MarkingFits
          <4>3. QED  BY <1>1, <4>1, <4>2 DEF LoadedLayout, N
        <3>2. CASE WriteHistory \/ WriteIndex
          <4>1. pc' \in LayoutFiles
                BY <3>2 DEF WriteHistory, WriteIndex, WriteLayoutFile, LayoutFiles
          <4>2. Marking'
                BY <1>1, <1>6, <4>1 DEF Marking, Keyed
          <4>3. QED  BY <1>1, <4>2 DEF Agreement, Books, BeforeDurable
        <3>3. QED  BY <3>1, <3>2
      <2>4. CurrentLayout(req.key)' = CurrentLayout(req.key)
            BY <1>1, <1>2, <1>4, <2>1, <2>2, <2>3 DEF CurrentLayout
      <2>5. QED  BY <1>1, <1>5, <2>1, <2>4 DEF Stutters
    <1>7. CASE ~Marking /\ (WriteHistory \/ WriteIndex)
      <2>1. pc' \in LayoutFiles
            BY <1>7 DEF WriteHistory, WriteIndex, WriteLayoutFile, LayoutFiles
      <2>2. Committing /\ Committing'
            BY <1>1, <1>7, <2>1 DEF Committing, Marking
      <2>3. CurrentLayout(req.key)' = CurrentLayout(req.key)
            BY <1>1, <2>2 DEF CurrentLayout
      <2>4. QED  BY <1>1, <1>5, <2>2, <2>3 DEF Stutters
    <1>8. CASE ~Marking /\ WriteOffset
      <2>1. Committing /\ ~Committing'
            BY <1>1, <1>8 DEF Committing, Marking, WriteOffset, WriteLayoutFile, LayoutFiles
      <2>2. diskLayouts'[req.key] = work /\ Load(work, N) = work
            BY <1>2, <1>8, WriteOffsetStores DEF Agreement, Tapes
      <2>3. LoadedLayout(req.key)' = work
            BY <1>1, <2>2 DEF LoadedLayout, N
      <2>4. CurrentLayout(req.key)' = work
            BY <1>1, <1>2, <1>4, <2>1, <2>3 DEF CurrentLayout
      <2>5. QED  BY <1>1, <1>2, <1>5, <2>1, <2>4 DEF Commits, CommitFits
    <1>9. QED  BY <1>6, <1>7, <1>8

LEMMA StepsOfTransaction ==
    ASSUME Agreement, Agreement', CommitFits, OnlyCrashes, [Next]_vars
    PROVE  /\ Stutters \/ Accepts \/ Commits \/ Loses
           /\ Quiet => Stutters \/ Accepts \/ Commits
    <1>1. CASE UNCHANGED vars \/ \E w \in Walls : CreateFile(w) \/ DeleteFile(w)
      <2>1. UNCHANGED <<diskLayouts, layouts, pc, req, work, before, sel, shown>>
            BY <1>1 DEF vars, CreateFile, DeleteFile, opVars
      <2>2. QED  BY <2>1 DEF Stutters, Committing, CurrentLayout, TakeLayout
    <1>2. CASE Crash
          BY <1>2 DEF Crash, Forget, Loses, Committing, LayoutFiles, Quiet
    <1>3. ASSUME WriteFails \/ MoveFails \/ RendererLost \/ \E k \in Keys : RendererRestart(k)
          PROVE  FALSE
          BY <1>3 DEF WriteFails, MoveFails, RendererLost, RendererRestart, OnlyCrashes
    <1>4. CASE RenderOk
          BY <1>4, RenderOkAccepts
    <1>5. CASE WriteHistory \/ WriteIndex \/ WriteOffset
          BY <1>5, WritesStutterOrCommit
    <1>6. ASSUME pc \notin LayoutFiles, pc' \notin LayoutFiles, UNCHANGED <<diskLayouts, shown>>
          PROVE  Stutters
          BY <1>6, RestStutters DEF Committing
    <1>7. CASE Favor
      <2>1. /\ pc = "apply" /\ req.kind \in Favoring /\ UNCHANGED <<diskLayouts, shown>>
            /\ pc' \in LayoutFiles => req' = req
            BY <1>7 DEF Favor, Fail, Finish, opVars, LayoutFiles
      <2>2. ~Committing /\ ~Committing'
            BY <2>1 DEF Committing, LayoutFiles
      <2>3. QED  BY <2>1, <2>2, RestStutters
    <1>8. ASSUME Finish
          PROVE  pc' \notin LayoutFiles
          BY <1>8 DEF Finish, LayoutFiles
    <1>9. CASE Request \/ Restart \/ Unwind
      <2>1. pc \notin LayoutFiles /\ pc' \notin LayoutFiles /\ UNCHANGED <<diskLayouts, shown>>
            BY <1>9 DEF Request, Prepare, PrepareFavorite, Current, Rescan, AddTopLevelFile, Restart, Unwind, LayoutFiles
      <2>2. QED  BY <1>6, <2>1
    <1>10. CASE \/ EnsureInitialized \/ EnsureWindow \/ Navigate \/ Replace \/ Heal \/ Stage
                \/ DrawDone \/ MoveQuarantine
      <2>1. pc \notin LayoutFiles /\ pc' \notin LayoutFiles /\ UNCHANGED <<diskLayouts, shown>>
            BY <1>10 DEF EnsureInitialized, EnsureWindow, Navigate, Replace, Heal, Stage, DrawDone, MoveQuarantine,
                         CallPick, pickFrame, LayoutFiles
      <2>2. QED  BY <1>6, <2>1
    <1>11. CASE \/ PickStart \/ DrawRebuild \/ Draw \/ RefuseMissing \/ RefuseWorld \/ RenderFail
                \/ WriteLibrary \/ WriteFavorites \/ WriteWalls \/ WriteWallsIdx
      <2>1. pc \notin LayoutFiles /\ pc' \notin LayoutFiles /\ UNCHANGED <<diskLayouts, shown>>
            BY <1>8, <1>11 DEF PickStart, DrawRebuild, Draw, Drawing, RefuseMissing, RefuseWorld, RenderFail, Fail,
                         WriteLibrary, WriteFavorites, WriteWalls, WriteWallsIdx, WriteCoreFile, pickFrame, LayoutFiles
      <2>2. QED  BY <1>6, <2>1
    <1>12. QED  BY <1>1, <1>2, <1>3, <1>4, <1>5, <1>7, <1>9, <1>10, <1>11 DEF Next, Step, Fault

LEMMA NextKeepsCommitFits ==
    ASSUME CommitFits, Stutters \/ Accepts \/ Commits \/ Loses
    PROVE  CommitFits'
    BY DEF CommitFits, Stutters, Accepts, Commits, Loses, N

LEMMA InitTransaction ==
    ASSUME Init
    PROVE  ~Committing /\ shown = NoShown /\ \A k \in Keys : Window(CurrentLayout(k)) = <<>>
    <1>1. pc = "library" /\ shown = NoShown
          BY DEF Init
    <1>2. ~Committing
          BY <1>1 DEF Committing, LayoutFiles
    <1>3. ASSUME NEW k \in Keys
          PROVE  Window(CurrentLayout(k)) = <<>>
      <2>1. CurrentLayout(k) = Load(EmptyLayout, OutCount[k])
            BY <1>2 DEF Init, CurrentLayout, TakeLayout
      <2>2. Load(EmptyLayout, OutCount[k]) = EmptyLayout
            BY OutCountType, EmptyLayoutType, LoadNormal DEF Normal, EmptyLayout
      <2>3. Window(EmptyLayout) = <<>>
            BY DEF Window, SetAt, EmptyLayout, Greatest, Least
      <2>4. QED  BY <2>1, <2>2, <2>3
    <1>4. QED  BY <1>1, <1>2, <1>3

\* The rest of the mapping: what is shown for no outputs is not an offer.
LEMMA SelectionsShown ==
    ASSUME NEW k \in Keys, NEW w \in SetsOf(Walls, OutCount[k])
    PROVE  /\ [key |-> k, walls |-> w] # NoShown
           /\ w \in UNION {[1..OutCount[j] -> Walls] : j \in Keys}
    <1>1. w \in Seq(Walls) /\ Len(w) = OutCount[k] /\ Len(w) # 0
          BY OutCountType DEF SetsOf
    <1>2. w # <<>>
          BY <1>1
    <1>3. w \in [1..OutCount[k] -> Walls]
          BY <1>1
    <1>4. QED  BY <1>2, <1>3 DEF NoShown

\* The requests implement the transaction that the render supervisor plan
\* promises: the walls of a set of outputs change only to walls the renderer
\* has accepted for them, an accepted window is committed whole before the
\* renderer is asked again, and a refused or failed request changes nothing.
\* Files of the wall directory may come and go at any moment.
THEOREM RequestsAreTransactions ==
    ASSUME Quiet
    PROVE  Spec => ImplementsTransaction
    <1>1. OnlyCrashes /\ NoRestart
          BY DEF Quiet, OnlyCrashes, NoRestart
    <1>2. Init => Transaction!Init /\ CommitFits
          BY InitTransaction DEF Transaction!Init, CommitFits
    <1>3. ASSUME Stutters
          PROVE  UNCHANGED Transaction!vars
      <2>1. [k \in Keys |-> Window(CurrentLayout(k))]' = [k \in Keys |-> Window(CurrentLayout(k))]
            BY <1>3 DEF Stutters
      <2>2. (IF Committing THEN {[key |-> req.key, walls |-> sel]} ELSE {})'
              = IF Committing THEN {[key |-> req.key, walls |-> sel]} ELSE {}
            BY <1>3 DEF Stutters
      <2>3. ({shown} \ {NoShown})' = {shown} \ {NoShown}
            BY <1>3 DEF Stutters
      <2>4. QED  BY <2>1, <2>2, <2>3 DEF Transaction!vars
    <1>4. ASSUME Accepts
          PROVE  Transaction!Next
      <2>1. req.key \in Keys /\ sel \in SetsOf(Walls, OutCount[req.key])
            BY <1>4 DEF Accepts, N
      <2>2. shown' # NoShown /\ sel \in UNION {[1..OutCount[j] -> Walls] : j \in Keys}
            BY <1>4, <2>1, SelectionsShown DEF Accepts
      <2>3. [k \in Keys |-> Window(CurrentLayout(k))]' = [k \in Keys |-> Window(CurrentLayout(k))]
            BY <1>4 DEF Accepts
      <2>4. /\ (IF Committing THEN {[key |-> req.key, walls |-> sel]} ELSE {}) = {}
            /\ (IF Committing THEN {[key |-> req.key, walls |-> sel]} ELSE {})' = {[key |-> req.key, walls |-> sel]}
            /\ ({shown} \ {NoShown})' = {[key |-> req.key, walls |-> sel]}
            BY <1>4, <2>2 DEF Accepts
      <2>5. Transaction!Accept(req.key, sel)
            BY <2>3, <2>4 DEF Transaction!Accept
      <2>6. QED  BY <2>1, <2>2, <2>5 DEF Transaction!Next
    <1>5. ASSUME Commits
          PROVE  Transaction!Next
      <2> DEFINE o   == [key |-> req.key, walls |-> sel]
                 cur == [k \in Keys |-> Window(CurrentLayout(k))]
      <2>1. /\ (IF Committing THEN {[key |-> req.key, walls |-> sel]} ELSE {}) = {o}
            /\ (IF Committing THEN {[key |-> req.key, walls |-> sel]} ELSE {})' = {}
            /\ ({shown} \ {NoShown})' = {shown} \ {NoShown}
            BY <1>5 DEF Commits
      <2>2. cur' = [cur EXCEPT ![o.key] = o.walls]
            BY <1>5 DEF Commits
      <2>3. Transaction!Commit
            BY <2>1, <2>2 DEF Transaction!Commit
      <2>4. QED  BY <2>3 DEF Transaction!Next
    <1>6. Agreement /\ Agreement' /\ CommitFits /\ [Next]_vars =>
              CommitFits' /\ [Transaction!Next]_(Transaction!vars)
          BY <1>1, <1>3, <1>4, <1>5, StepsOfTransaction, NextKeepsCommitFits
    <1>7. QED  BY <1>1, <1>2, <1>6, AlwaysAgreement, PTL DEF Spec, ImplementsTransaction, Transaction!Spec

\* What the renderer accepted last is the window of the current layout for its
\* outputs, and stays so through crashes, refusals and rollbacks.
ShownSettled ==
    shown # NoShown =>
        /\ shown.key \in Keys
        /\ IF Committing THEN shown = [key |-> req.key, walls |-> sel]
           ELSE Window(CurrentLayout(shown.key)) = shown.walls

LEMMA NextKeepsShown ==
    ASSUME ShownSettled, Stutters \/ Accepts \/ Commits \/ Loses
    PROVE  ShownSettled'
    <1>1. CASE Stutters \/ Accepts \/ Loses
          BY <1>1 DEF ShownSettled, Stutters, Accepts, Loses
    <1>2. CASE Commits
      <2>1. shown # NoShown => shown.key = req.key /\ shown.walls = sel
            BY <1>2 DEF Commits, ShownSettled
      <2>2. QED  BY <1>2, <2>1 DEF Commits, ShownSettled
    <1>3. QED  BY <1>1, <1>2

\* Between requests the outputs show the window of their current layout, also
\* after crashes; without favourite actions unless the daemon never crashes.
THEOREM ScreenShowsCurrent ==
    ASSUME OnlyCrashes, NoFavors \/ Quiet
    PROVE  Spec => []ShownIsCurrent
    <1>1. NoRestart
          BY DEF OnlyCrashes, NoRestart
    <1>2. Init => ShownSettled /\ CommitFits
          BY InitTransaction DEF ShownSettled, CommitFits
    <1>3. Agreement /\ Agreement' /\ CommitFits /\ ShownSettled /\ [Next]_vars => CommitFits' /\ ShownSettled'
          BY StepsOfTransaction, NextKeepsCommitFits, NextKeepsShown
    <1>4. ShownSettled => ShownIsCurrent
      <2>1. pc = "idle" => ~Committing
            BY DEF Committing, LayoutFiles
      <2>2. QED  BY <2>1 DEF ShownSettled, ShownIsCurrent, CurrentLayout
    <1>5. QED  BY <1>1, <1>2, <1>3, <1>4, AlwaysAgreement, PTL DEF Spec

-----------------------------------------------------------------------------
(***************************************************************************)
(* The bag.  While the supervisor lives, the bag in memory fits the        *)
(* library at every step of every request.  A supervisor that dies while   *)
(* the four core files are being written leaves files that do not fit.     *)
(***************************************************************************)
NeverDies == Faults \subseteq {"churn", "restart"}

BagFits == pc # "down" /\ Fits(core)

LEMMA MovedCursorFits ==
    ASSUME NEW c \in Cores(Walls), Fits(c), NEW n \in Nat
    PROVE  [c EXCEPT !.pos = n] \in Cores(Walls) /\ Fits([c EXCEPT !.pos = n])
    <1> DEFINE d == [c EXCEPT !.pos = n]
    <1>1. d \in Cores(Walls) /\ d.lib = c.lib /\ d.favs = c.favs /\ d.bag = c.bag
          BY DEF Cores
    <1> HIDE DEF d
    <1>2. Fits(d)
          BY <1>1 DEF Fits
    <1>3. QED  BY <1>1, <1>2 DEF d

\* Memory is scanned again, and a new supervisor starts from nothing.
LEMMA ScanFits ==
    ASSUME NEW c \in Cores(Walls), Fits(c), files \subseteq Walls, NEW d \in Rescanned(c, files)
    PROVE  Fits(d)
    BY RescannedFits, WallpaperAssumption

LEMMA RollbackFits ==
    ASSUME Inductive, Fits(core), NEW r, NEW b, BeforeOK(b, r), NEW q, Rollback(r, b, q)
    PROVE  Fits(core')
    <1>1. core \in Cores(Walls)
          BY DEF Inductive, TypeOK, StoreType
    <1>2. Least(b.pos, Len(core.bag)) \in Nat
          BY <1>1, LenProperties DEF BeforeOK, Least, Cores
    <1>3. core' = core \/ core' = [core EXCEPT !.pos = Least(b.pos, Len(core.bag))]
          BY DEF Rollback
    <1>4. QED  BY <1>1, <1>2, <1>3, MovedCursorFits

LEMMA DrawKeepsFits ==
    ASSUME Inductive, Fits(core), PickStart \/ DrawRebuild \/ Draw
    PROVE  Fits(core')
    <1>1. core \in Cores(Walls) /\ files \subseteq Walls
          BY DEF Inductive, TypeOK, StoreType
    <1>2. CASE PickStart \/ DrawRebuild
      <2>1. core' = core \/ core' \in Rebuilt(core, files)
            BY <1>2 DEF PickStart, DrawRebuild
      <2>2. QED  BY <2>1, RebuiltFits
    <1>3. CASE Draw
      <2> DEFINE drawn == [core EXCEPT !.pos = core.pos + 1]
      <2>1. drawn \in Cores(Walls) /\ Fits(drawn)
            BY <1>1, MovedCursorFits DEF Cores
      <2>2. core' = drawn \/ core' \in Rescanned(drawn, files)
            BY <1>3 DEF Draw
      <2> HIDE DEF drawn
      <2>3. QED  BY <1>1, <2>1, <2>2, ScanFits
    <1>4. QED  BY <1>2, <1>3

LEMMA NextKeepsBag ==
    ASSUME Inductive, BagFits, NeverDies, [Next]_vars
    PROVE  BagFits'
    <1>1. core \in Cores(Walls) /\ files \subseteq Walls
          BY DEF Inductive, TypeOK, StoreType
    <1>2. ASSUME Crash \/ WriteFails \/ MoveFails \/ Restart
          PROVE  FALSE
          BY <1>2 DEF Crash, WriteFails, MoveFails, Restart, NeverDies, BagFits
    <1>3. pc' # "down"
      <2>1. ASSUME Finish
            PROVE  pc' # "down"
            BY <2>1 DEF Finish
      <2>2. CASE Request \/ Unwind \/ RendererLost \/ UNCHANGED vars
                 \/ (\E w \in Walls : CreateFile(w) \/ DeleteFile(w)) \/ (\E k \in Keys : RendererRestart(k))
            BY <2>2 DEF Request, Prepare, PrepareFavorite, Current, Rescan, AddTopLevelFile, Unwind, RendererLost, vars,
                        CreateFile, DeleteFile, RendererRestart, BagFits
      <2>3. CASE \/ EnsureInitialized \/ EnsureWindow \/ Navigate \/ Replace \/ Heal \/ Stage
                 \/ PickStart \/ DrawRebuild \/ Draw \/ DrawDone
            BY <2>1, <2>3 DEF EnsureInitialized, EnsureWindow, Navigate, Replace, Heal, Stage, CallPick,
                        PickStart, DrawRebuild, Draw, Drawing, DrawDone, Fail, BagFits
      <2>4. CASE \/ RefuseMissing \/ RefuseWorld \/ MoveQuarantine \/ RenderOk \/ RenderFail \/ Favor
                 \/ WriteHistory \/ WriteIndex \/ WriteOffset
                 \/ WriteLibrary \/ WriteFavorites \/ WriteWalls \/ WriteWallsIdx
            BY <2>1, <2>4 DEF RefuseMissing, RefuseWorld, MoveQuarantine, RenderOk, RenderFail, Favor, Fail,
                        WriteHistory, WriteIndex, WriteOffset, WriteLayoutFile,
                        WriteLibrary, WriteFavorites, WriteWalls, WriteWallsIdx, WriteCoreFile
      <2>5. QED  BY <1>2, <2>2, <2>3, <2>4 DEF Next, Step, Fault
    <1>4. Fits(core')
      <2>1. CASE UNCHANGED core
            BY <2>1 DEF BagFits
      <2>2. CASE Rescan \/ \E w \in Walls : AddTopLevelFile(w)
            BY <1>1, <2>2, ScanFits, AddedFits DEF Rescan, AddTopLevelFile, BagFits
      <2>3. CASE PickStart \/ DrawRebuild \/ Draw
            BY <2>3, DrawKeepsFits DEF BagFits
      <2>4. CASE Favor
            BY <2>4, RebuiltFits DEF Favor, BagFits
      <2>5. CASE RenderOk
        <3>1. core' = core \/ core' \in Without(core, quar.wall)
              BY <2>5 DEF RenderOk
        <3>2. QED  BY <1>1, <3>1, WithoutFits DEF BagFits
      <2>6. CASE RefuseWorld \/ RenderFail
        <3>1. UNCHANGED core \/ Rollback(req, before, quar)
              BY <2>6 DEF RefuseWorld, RenderFail
        <3>2. QED  BY <3>1, <2>1, RollbackFits DEF BagFits, Inductive, TypeOK, RequestType
      <2>7. CASE Unwind
        <3>1. UNCHANGED core \/ Rollback(outer.req, outer.before, outer.quar)
              BY <2>7 DEF Unwind
        <3>2. QED  BY <3>1, <2>1, RollbackFits DEF BagFits, Inductive, TypeOK, StoreType
      <2>8. CASE \/ \E k \in Keys, kind \in Actions : \E i \in 1..OutCount[k] :
                        (\E capture \in BOOLEAN : Prepare(kind, k, i, capture)) \/ PrepareFavorite(kind, k, i)
                 \/ \E k \in Keys : Current(k) \/ RendererRestart(k)
                 \/ RendererLost \/ \E w \in Walls : CreateFile(w) \/ DeleteFile(w)
        <3>1. UNCHANGED core
              BY <2>8 DEF Prepare, PrepareFavorite, Current, RendererRestart, RendererLost, CreateFile, DeleteFile
        <3>2. QED  BY <2>1, <3>1
      <2>9. CASE \/ EnsureInitialized \/ EnsureWindow \/ Navigate \/ Replace \/ Heal \/ Stage \/ DrawDone
                 \/ RefuseMissing \/ MoveQuarantine \/ UNCHANGED vars
        <3>1. UNCHANGED core
              BY <2>9 DEF EnsureInitialized, EnsureWindow, Navigate, Replace, Heal, Stage, DrawDone,
                          RefuseMissing, MoveQuarantine, vars
        <3>2. QED  BY <2>1, <3>1
      <2>10. CASE \/ WriteHistory \/ WriteIndex \/ WriteOffset
                  \/ WriteLibrary \/ WriteFavorites \/ WriteWalls \/ WriteWallsIdx
        <3>1. UNCHANGED core
              BY <2>10 DEF WriteHistory, WriteIndex, WriteOffset, WriteLayoutFile,
                           WriteLibrary, WriteFavorites, WriteWalls, WriteWallsIdx, WriteCoreFile
        <3>2. QED  BY <2>1, <3>1
      <2>11. QED
             BY <1>2, <2>2, <2>3, <2>4, <2>5, <2>6, <2>7, <2>8, <2>9, <2>10 DEF Next, Request, Step, Fault
    <1>5. QED  BY <1>3, <1>4 DEF BagFits

\* Every wall of the library keeps exactly its weight in the bag through draws,
\* rescans, additions, favourites, quarantine and rollbacks, while files of the
\* directory come and go and renderers are restarted, for any weight.
THEOREM BagIsWhole ==
    ASSUME NeverDies
    PROVE  Spec => []BagHoldsLibrary
    <1>1. Init => BagFits
      <2>1. Init => EmptyCore \in Cores(Walls)
            BY InitInductive DEF Init, Inductive, TypeOK, StoreType
      <2>2. QED  BY <2>1, EmptyFits, ScanFits DEF Init, BagFits
    <1>2. Inductive /\ BagFits /\ [Next]_vars => BagFits'
          BY NextKeepsBag
    <1>3. BagFits => BagHoldsLibrary
          BY DEF BagFits, BagHoldsLibrary, Fits
    <1>4. QED  BY <1>1, <1>2, <1>3, StepsAreReady, PTL DEF Spec
=============================================================================
