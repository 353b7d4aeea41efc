------------------------ MODULE WallpaperControlProofs ------------------------
(***************************************************************************)
(* Proofs about WallpaperControl for any walls, outputs, history length    *)
(* and favourite weight, and any combination of faults: the type           *)
(* invariant, and that what goes to the renderer is the window of the      *)
(* layout that a success commits (StagedIsWindow).                         *)
(***************************************************************************)
EXTENDS WallpaperControl, SelectionProofs

Step0 == {"idle", "down", "unwind"}

-----------------------------------------------------------------------------
(* Types of what the actions compute. *)

LEMMA OutCountType ==
    ASSUME NEW k \in Keys
    PROVE  OutCount[k] \in Nat \ {0} /\ LayoutFor(k) = LayoutsOf(Walls, OutCount[k])
    BY WallpaperAssumption DEF LayoutFor

LEMMA EmptyLayoutFor ==
    ASSUME NEW k
    PROVE  EmptyLayout \in LayoutFor(k)
    BY OutCountType, EmptyLayoutType DEF LayoutFor

LEMMA TakeType ==
    ASSUME StoreType, NEW k \in Keys
    PROVE  TakeLayout(k) \in LayoutFor(k)
    <1>1. layouts[k] = NoLayout \/ layouts[k] \in LayoutFor(k)
          BY DEF StoreType
    <1>2. Load(diskLayouts[k], OutCount[k]) \in LayoutFor(k)
          BY OutCountType, LoadType DEF StoreType
    <1>3. QED  BY <1>1, <1>2 DEF TakeLayout

\* The values of the request variables between requests.
LEMMA NothingType ==
    /\ NoReq \in Req /\ EmptyLayout \in LayoutFor(NoReq.key) /\ BeforeOK(NoBefore, NoReq)
    /\ NoHealed \in [walls : Seq(Walls), changed : BOOLEAN]
    /\ NoQuar \in Quar /\ NoPick \in Pick
    /\ NoShown \in [key : Keys \cup {NoWall}, walls : Seq(Walls)]
    <1>1. NoReq \in Req
          BY DEF NoReq, Req
    <1>2. EmptyLayout \in LayoutFor(NoReq.key) /\ BeforeOK(NoBefore, NoReq)
          BY EmptyLayoutFor DEF NoBefore, BeforeOK
    <1>3. QED  BY <1>1, <1>2 DEF NoHealed, NoQuar, NoPick, Quar, Pick, NoShown

LEMMA NoReqOfKind ==
    ASSUME NEW kind \in AllActions \cup {"load"}
    PROVE  /\ [NoReq EXCEPT !.kind = kind] \in Req
           /\ [NoReq EXCEPT !.kind = kind].key = NoReq.key
    <1>1. NoReq \in Req
          BY NothingType
    <1>2. \A r \in Req : [r EXCEPT !.kind = kind] \in Req /\ [r EXCEPT !.kind = kind].key = r.key
          BY DEF Req
    <1>3. QED  BY <1>1, <1>2

\* A request that ends leaves nothing behind.
LEMMA ResetOpType ==
    ASSUME ResetOp, pc' \in Step0
    PROVE  RequestType' /\ Ready'
    <1>1. RequestType'
          BY NothingType DEF ResetOp, RequestType, Step0, Steps
    <1>2. Ready'
          BY DEF ResetOp, Step0, Ready, RestReady, RequestReady, DrawReady, WindowReady, HealReady,
                 StagedIsWindow, InDraw, InHeal, InInit, OpSteps, LayoutFiles, CoreFiles, PickSteps
    <1>3. QED  BY <1>1, <1>2

LEMMA FinishType ==
    ASSUME Finish
    PROVE  RequestType' /\ Ready'
    BY ResetOpType DEF Finish, Step0

-----------------------------------------------------------------------------
LEMMA InitInductive ==
    ASSUME Init
    PROVE  Inductive
    <1>1. EmptyCore \in Cores(Walls)
          BY EmptySeq DEF EmptyCore, Cores
    <1>2. core \in Cores(Walls)
          BY <1>1, RescannedType, WallpaperAssumption DEF Init
    <1>3. StoreType
      <2>1. outer.req = NoReq /\ outer.before = NoBefore /\ outer.quar = NoQuar
            BY DEF Init, NoOuter
      <2>2. outer.req \in Req /\ BeforeOK(outer.before, outer.req) /\ outer.quar \in Quar
            BY <2>1, NothingType
      <2>3. \A k \in Keys : diskLayouts[k] \in LayoutFor(k)
            BY EmptyLayoutFor DEF Init
      <2>4. shown \in [key : Keys \cup {NoWall}, walls : Seq(Walls)]
            BY NothingType DEF Init
      <2>5. QED  BY <1>1, <1>2, <2>2, <2>3, <2>4 DEF Init, StoreType
    <1>4. RequestType
      <2>1. req \in Req
            BY NoReqOfKind DEF Init
      <2>2. work \in LayoutFor(req.key) /\ BeforeOK(before, req)
            BY EmptyLayoutFor DEF Init, BeforeOK, NoBefore
      <2>3. QED  BY <2>1, <2>2 DEF Init, RequestType, NoHealed, NoQuar, NoPick, Quar, Pick, Steps, CoreFiles
    <1>5. Ready
          BY DEF Init, Ready, RestReady, RequestReady, DrawReady, WindowReady, HealReady, StagedIsWindow,
                 InDraw, InHeal, InInit, OpSteps, LayoutFiles, CoreFiles, PickSteps
    <1>6. QED  BY <1>3, <1>4, <1>5 DEF Inductive, TypeOK

-----------------------------------------------------------------------------
(* Requests. *)

\* Taking the layout of k for a request.
LEMMA BeginType ==
    ASSUME Inductive, NEW kind \in AllActions, NEW k \in Keys, NEW i \in 1..OutCount[k],
           NEW capture \in BOOLEAN, Begin(kind, k, i, capture)
    PROVE  /\ req' \in Req /\ work' \in LayoutFor(req'.key) /\ BeforeOK(before', req')
           /\ req'.key \in Keys /\ req'.index <= OutCount[req'.key] /\ req'.kind = kind
           /\ DOMAIN layouts' = Keys
           /\ \A j \in Keys : layouts'[j] = NoLayout \/ layouts'[j] \in LayoutFor(j)
           /\ UNCHANGED <<sel, healed, quar, pick, resume>>
    <1>1. req' = [kind |-> kind, key |-> k, index |-> i, capture |-> capture]
          BY DEF Begin
    <1>2. req' \in Req /\ req'.key = k /\ req'.index <= OutCount[k] /\ req'.kind = kind
          BY <1>1, OutCountType DEF Req
    <1>3. TakeLayout(k) \in LayoutFor(k)
          BY TakeType DEF Inductive, TypeOK
    <1>4. core.pos \in Nat /\ Len(core.bag) \in Nat
          BY LenProperties DEF Inductive, TypeOK, StoreType, Cores
    <1>5. work' \in LayoutFor(req'.key) /\ BeforeOK(before', req')
          BY <1>2, <1>3, <1>4 DEF Begin, BeforeOK
    <1>6. /\ DOMAIN layouts' = Keys
          /\ \A j \in Keys : layouts'[j] = NoLayout \/ layouts'[j] \in LayoutFor(j)
          BY DEF Begin, Inductive, TypeOK, StoreType
    <1>7. UNCHANGED <<sel, healed, quar, pick, resume>>
          BY DEF Begin
    <1>8. QED  BY <1>2, <1>5, <1>6, <1>7

LEMMA PrepareInductive ==
    ASSUME Inductive, NEW kind \in Actions, NEW k \in Keys, NEW i \in 1..OutCount[k],
           NEW capture \in BOOLEAN, Prepare(kind, k, i, capture)
    PROVE  Inductive'
    <1>1. kind \in AllActions /\ kind \notin Favoring
          BY WallpaperAssumption DEF Prepare, Navigation, Replacing, Favoring
    <1>2. Begin(kind, k, i, capture) /\ pc = "idle" /\ pc' = "init"
          BY DEF Prepare
    <1>3. /\ req' \in Req /\ work' \in LayoutFor(req'.key) /\ BeforeOK(before', req')
          /\ req'.key \in Keys /\ req'.index <= OutCount[req'.key] /\ req'.kind = kind
          /\ DOMAIN layouts' = Keys
          /\ \A j \in Keys : layouts'[j] = NoLayout \/ layouts'[j] \in LayoutFor(j)
          /\ UNCHANGED <<sel, healed, quar, pick, resume>>
          BY <1>1, <1>2, BeginType
    <1>4. StoreType'
          BY <1>3 DEF Prepare, Inductive, TypeOK, StoreType
    <1>5. RequestType'
          BY <1>2, <1>3 DEF Inductive, TypeOK, RequestType, Steps, OpSteps
    <1>6. Ready'
          BY <1>1, <1>2, <1>3 DEF Inductive, Ready, RestReady, RequestReady, DrawReady, WindowReady, HealReady,
             StagedIsWindow, InDraw, InHeal, InInit, N, CoreFiles, PickSteps
    <1>7. QED  BY <1>4, <1>5, <1>6 DEF Inductive, TypeOK
LEMMA PrepareFavoriteInductive ==
    ASSUME Inductive, NEW kind \in Actions, NEW k \in Keys, NEW i \in 1..OutCount[k],
           PrepareFavorite(kind, k, i)
    PROVE  Inductive'
    <1>1. kind \in AllActions /\ FALSE \in BOOLEAN
          BY WallpaperAssumption
    <1>2. Begin(kind, k, i, FALSE) /\ pc = "idle" /\ pc' = "window"
          BY DEF PrepareFavorite
    <1>3. /\ req' \in Req /\ work' \in LayoutFor(req'.key) /\ BeforeOK(before', req')
          /\ req'.key \in Keys /\ req'.index <= OutCount[req'.key] /\ req'.kind = kind
          /\ DOMAIN layouts' = Keys
          /\ \A j \in Keys : layouts'[j] = NoLayout \/ layouts'[j] \in LayoutFor(j)
          /\ UNCHANGED <<sel, healed, quar, pick, resume>>
          BY <1>1, <1>2, BeginType
    <1>4. StoreType'
          BY <1>3 DEF PrepareFavorite, Inductive, TypeOK, StoreType
    <1>5. RequestType'
          BY <1>2, <1>3 DEF Inductive, TypeOK, RequestType, Steps, OpSteps
    <1>6. Ready'
          BY <1>2, <1>3 DEF Inductive, Ready, RestReady, RequestReady, DrawReady, WindowReady, HealReady,
             StagedIsWindow, InDraw, InHeal, InInit, N, OpSteps, LayoutFiles, CoreFiles, PickSteps
    <1>7. QED  BY <1>4, <1>5, <1>6 DEF Inductive, TypeOK

LEMMA RendererRestartInductive ==
    ASSUME Inductive, NEW k \in Keys, RendererRestart(k)
    PROVE  Inductive'
    <1>1. "startup" \in AllActions /\ FALSE \in BOOLEAN /\ 1 \in 1..OutCount[k] /\ "startup" \notin Favoring
          BY OutCountType DEF AllActions, Favoring
    <1>2. Begin("startup", k, 1, FALSE) /\ pc = "idle" /\ pc' = "init"
          BY DEF RendererRestart
    <1>3. /\ req' \in Req /\ work' \in LayoutFor(req'.key) /\ BeforeOK(before', req')
          /\ req'.key \in Keys /\ req'.index <= OutCount[req'.key] /\ req'.kind = "startup"
          /\ DOMAIN layouts' = Keys
          /\ \A j \in Keys : layouts'[j] = NoLayout \/ layouts'[j] \in LayoutFor(j)
          /\ UNCHANGED <<sel, healed, quar, pick, resume>>
          BY <1>1, <1>2, BeginType
    <1>4. diskCore' \in Cores(Walls)
          BY RescannedType, WallpaperAssumption DEF RendererRestart, Inductive, TypeOK, StoreType
    <1>5. StoreType'
          BY <1>3, <1>4, NothingType DEF RendererRestart, Inductive, TypeOK, StoreType
    <1>6. RequestType'
          BY <1>2, <1>3 DEF Inductive, TypeOK, RequestType, Steps, OpSteps
    <1>7. Ready'
          BY <1>1, <1>2, <1>3 DEF Inductive, Ready, RestReady, RequestReady, DrawReady, WindowReady, HealReady,
             StagedIsWindow, InDraw, InHeal, InInit, N, OpSteps, LayoutFiles, CoreFiles, PickSteps
    <1>8. QED  BY <1>5, <1>6, <1>7 DEF Inductive, TypeOK

LEMMA CurrentInductive ==
    ASSUME Inductive, NEW k \in Keys, Current(k)
    PROVE  Inductive'
    <1>1. TakeLayout(k) \in LayoutFor(k)
          BY TakeType DEF Inductive, TypeOK
    <1>2. StoreType'
          BY <1>1 DEF Current, Inductive, TypeOK, StoreType
    <1>3. RequestType'
          BY DEF Current, opVars, Inductive, TypeOK, RequestType
    <1>4. Ready'
          BY DEF Current, opVars, Inductive, Ready, RestReady, RequestReady, DrawReady, WindowReady, HealReady,
             StagedIsWindow, InDraw, InHeal, InInit, N, OpSteps, LayoutFiles, CoreFiles, PickSteps
    <1>5. QED  BY <1>2, <1>3, <1>4 DEF Inductive, TypeOK

\* A step that only starts writing the core files, for no layout.
LEMMA PersistType ==
    ASSUME Inductive, NEW kind \in AllActions \cup {"load"}, pc \in {"idle", "down"}, pc' = "library",
           req' = [NoReq EXCEPT !.kind = kind],
           UNCHANGED <<work, before, sel, healed, quar, pick, resume>>
    PROVE  RequestType' /\ Ready'
    <1>1. req' \in Req /\ req'.key = NoReq.key
          BY NoReqOfKind
    <1>2. work = EmptyLayout /\ before = NoBefore
          BY DEF Inductive, Ready, RestReady
    <1>3. work' \in LayoutFor(req'.key) /\ BeforeOK(before', req')
          BY <1>1, <1>2, NothingType DEF BeforeOK
    <1>4. RequestType'
          BY <1>1, <1>3 DEF Inductive, TypeOK, RequestType, Steps, CoreFiles
    <1>5. Ready'
          BY DEF Inductive, Ready, RestReady, RequestReady, DrawReady, WindowReady, HealReady,
             StagedIsWindow, InDraw, InHeal, InInit, N, OpSteps, LayoutFiles, CoreFiles, PickSteps
    <1>6. QED  BY <1>4, <1>5

LEMMA RescanInductive ==
    ASSUME Inductive, Rescan
    PROVE  Inductive'
    <1>1. core' \in Cores(Walls)
          BY RescannedType, WallpaperAssumption DEF Rescan, Inductive, TypeOK, StoreType
    <1>2. StoreType'
          BY <1>1 DEF Rescan, Inductive, TypeOK, StoreType
    <1>3. RequestType' /\ Ready'
          BY PersistType DEF Rescan, AllActions
    <1>4. QED  BY <1>2, <1>3 DEF Inductive, TypeOK

LEMMA AddTopLevelFileInductive ==
    ASSUME Inductive, NEW w \in Walls, AddTopLevelFile(w)
    PROVE  Inductive'
    <1>1. core' \in Cores(Walls)
          BY AddedType DEF AddTopLevelFile, Inductive, TypeOK, StoreType
    <1>2. StoreType'
          BY <1>1 DEF AddTopLevelFile, Inductive, TypeOK, StoreType
    <1>3. RequestType' /\ Ready'
          BY PersistType DEF AddTopLevelFile, AllActions
    <1>4. QED  BY <1>2, <1>3 DEF Inductive, TypeOK

LEMMA RestartInductive ==
    ASSUME Inductive, Restart
    PROVE  Inductive'
    <1>1. core' \in Cores(Walls)
          BY RescannedType, WallpaperAssumption DEF Restart, Inductive, TypeOK, StoreType
    <1>2. StoreType'
          BY <1>1 DEF Restart, Inductive, TypeOK, StoreType
    <1>3. RequestType' /\ Ready'
          BY PersistType DEF Restart, AllActions
    <1>4. QED  BY <1>2, <1>3 DEF Inductive, TypeOK

-----------------------------------------------------------------------------
(* Preparing the new window. *)

\* A request in progress has a layout for some number of outputs.
LEMMA WorkType ==
    ASSUME Inductive, pc \in OpSteps \cup LayoutFiles \/ resume = "draw"
    PROVE  /\ req.key \in Keys /\ N \in Nat \ {0} /\ req.index \in 1..N
           /\ LayoutFor(req.key) = LayoutsOf(Walls, N) /\ work \in LayoutsOf(Walls, N)
    <1>1. req.key \in Keys /\ req.index <= N
          BY DEF Inductive, Ready, RequestReady
    <1>2. N \in Nat \ {0} /\ LayoutFor(req.key) = LayoutsOf(Walls, N)
          BY <1>1, OutCountType DEF N
    <1>3. req.index \in Nat \ {0}
          BY DEF Inductive, TypeOK, RequestType, Req
    <1>4. req.index \in 1..N
          BY <1>1, <1>2, <1>3
    <1>5. QED  BY <1>1, <1>2, <1>4 DEF Inductive, TypeOK, RequestType

\* A step that starts a draw.
LEMMA CallPickType ==
    ASSUME Inductive, pc \in OpSteps, NEW need \in Nat, NEW exclude \in Walls \cup {NoWall},
           NEW ret \in {"init", "window", "extend", "apply", "heal"}, CallPick(need, exclude, ret)
    PROVE  /\ pick' \in Pick /\ pick'.need = need /\ pick'.ret = ret
           /\ pc' = "pick"
    <1>1. NoPick \in Pick
          BY NothingType
    <1>2. \A p \in Pick : LET q == [p EXCEPT !.need = need, !.exclude = exclude, !.ret = ret]
                          IN  q \in Pick /\ q.need = need /\ q.ret = ret
          BY DEF Pick
    <1>3. QED  BY <1>1, <1>2 DEF CallPick

LEMMA EnsureInitializedInductive ==
    ASSUME Inductive, EnsureInitialized
    PROVE  Inductive'
    <1>1. req.key \in Keys /\ N \in Nat \ {0} /\ pc \in OpSteps
          BY WorkType DEF EnsureInitialized, OpSteps
    <1>2. pc = "init" /\ UNCHANGED <<req, work, before, sel, healed, quar, resume>>
          BY DEF EnsureInitialized
    <1>3. StoreType'
          BY DEF EnsureInitialized, Inductive, TypeOK, StoreType
    <1>4. CASE work.history # <<>>
      <2>1. pc' = (IF NeedsWindowFirst THEN "window" ELSE "apply") /\ pick' = pick
            BY <1>4 DEF EnsureInitialized
      <2>2. RequestType'
            BY <1>2, <2>1 DEF Inductive, TypeOK, RequestType, Steps, OpSteps
      <2>3. Ready'
            BY <1>2, <2>1 DEF NeedsWindowFirst, Inductive, Ready, RestReady, RequestReady, DrawReady, WindowReady, HealReady,
             StagedIsWindow, InDraw, InHeal, InInit, N, OpSteps, LayoutFiles, CoreFiles, PickSteps
      <2>4. QED  BY <1>3, <2>2, <2>3 DEF Inductive, TypeOK
    <1>5. CASE work.history = <<>>
      <2>1. pick' \in Pick /\ pick'.need = N /\ pick'.ret = "init" /\ pc' = "pick"
            BY <1>1, <1>5, CallPickType DEF EnsureInitialized
      <2>2. RequestType'
            BY <1>2, <2>1 DEF Inductive, TypeOK, RequestType, Steps, OpSteps
      <2>3. Ready'
            BY <1>2, <2>1 DEF Inductive, Ready, RestReady, RequestReady, DrawReady, WindowReady, HealReady,
             StagedIsWindow, InDraw, InHeal, InInit, N, OpSteps, LayoutFiles, CoreFiles, PickSteps
      <2>4. QED  BY <1>3, <2>2, <2>3 DEF Inductive, TypeOK
    <1>6. QED  BY <1>4, <1>5

LEMMA EnsureWindowInductive ==
    ASSUME Inductive, EnsureWindow
    PROVE  Inductive'
    <1>1. req.key \in Keys /\ N \in Nat \ {0} /\ pc \in OpSteps /\ work \in LayoutsOf(Walls, N)
          BY WorkType DEF EnsureWindow, OpSteps
    <1>2. pc \in {"window", "extend"} /\ UNCHANGED <<req, work, before, healed, quar, resume>>
          BY DEF EnsureWindow
    <1>3. StoreType'
          BY DEF EnsureWindow, Inductive, TypeOK, StoreType
    <1>4. CASE ~Complete(work, N)
      <2>1. pick' \in Pick /\ pick'.need = N /\ pick'.ret = pc /\ pc' = "pick" /\ sel' = sel
            BY <1>1, <1>2, <1>4, CallPickType DEF EnsureWindow
      <2>2. RequestType'
            BY <1>2, <2>1 DEF Inductive, TypeOK, RequestType, Steps, OpSteps
      <2>3. Ready'
            BY <1>2, <2>1 DEF Inductive, Ready, RestReady, RequestReady, DrawReady, WindowReady, HealReady,
             StagedIsWindow, InDraw, InHeal, InInit, N, OpSteps, LayoutFiles, CoreFiles, PickSteps
      <2>4. QED  BY <1>3, <2>2, <2>3 DEF Inductive, TypeOK
    <1>5. CASE Complete(work, N)
      <2>1. Window(work) \in Seq(Walls) /\ Len(Window(work)) = N
            BY <1>1, <1>5, WindowType DEF SetsOf
      <2>2. /\ pc' = IF pc = "window" THEN "apply" ELSE "heal"
            /\ sel' = IF pc = "extend" THEN Window(work) ELSE sel
            /\ pick' = pick
            BY <1>5 DEF EnsureWindow
      <2>3. RequestType'
            BY <1>2, <2>1, <2>2 DEF Inductive, TypeOK, RequestType, Steps, OpSteps
      <2>4. healed = NoHealed /\ resume = "idle"
            BY <1>2 DEF Inductive, Ready, RestReady, RequestReady, DrawReady, WindowReady, HealReady,
             StagedIsWindow, InDraw, InHeal, InInit, N, OpSteps, LayoutFiles, CoreFiles, PickSteps, RequestType, TypeOK
      <2>5. RestReady' /\ RequestReady' /\ DrawReady' /\ StagedIsWindow'
            BY <1>2, <2>2, <2>4 DEF Inductive, Ready, RestReady, RequestReady, DrawReady, WindowReady, HealReady,
             StagedIsWindow, InDraw, InHeal, InInit, N, OpSteps, LayoutFiles, CoreFiles, PickSteps
      <2>6. WindowReady'
            BY <1>2, <1>5, <2>2, <2>4 DEF Inductive, Ready, RestReady, RequestReady, DrawReady, WindowReady, HealReady,
             StagedIsWindow, InDraw, InHeal, InInit, N, OpSteps, LayoutFiles, CoreFiles, PickSteps
      <2>7. HealReady'
            BY <1>1, <1>2, <2>1, <2>2, <2>4 DEF Inductive, Ready, RestReady, RequestReady, DrawReady, WindowReady, HealReady,
             StagedIsWindow, InDraw, InHeal, InInit, N, OpSteps, LayoutFiles, CoreFiles, PickSteps, NoHealed
      <2>8. QED  BY <1>3, <2>3, <2>5, <2>6, <2>7 DEF Inductive, TypeOK, Ready
    <1>6. QED  BY <1>4, <1>5

LEMMA NavigateInductive ==
    ASSUME Inductive, Navigate
    PROVE  Inductive'
    <1>1. req.key \in Keys /\ N \in Nat \ {0} /\ LayoutFor(req.key) = LayoutsOf(Walls, N)
          /\ work \in LayoutsOf(Walls, N)
          BY WorkType DEF Navigate, OpSteps
    <1>2. /\ pc = "apply" /\ pc' = "extend" /\ work' = Moved(work)
          /\ UNCHANGED <<req, before, sel, healed, quar, pick, resume>>
          BY DEF Navigate
    <1>3. StoreType'
          BY DEF Navigate, Inductive, TypeOK, StoreType
    <1>4. Moved(work) \in LayoutsOf(Walls, N)
          BY <1>1, CursorType DEF Moved
    <1>5. RequestType'
          BY <1>1, <1>2, <1>4 DEF Inductive, TypeOK, RequestType, Steps, OpSteps
    <1>6. Ready'
          BY <1>2 DEF Inductive, Ready, RestReady, RequestReady, DrawReady, WindowReady, HealReady,
             StagedIsWindow, InDraw, InHeal, InInit, N, OpSteps, LayoutFiles, CoreFiles, PickSteps
    <1>7. QED  BY <1>3, <1>5, <1>6 DEF Inductive, TypeOK

LEMMA ReplaceInductive ==
    ASSUME Inductive, Replace
    PROVE  Inductive'
    <1> DEFINE target == Window(work)[req.index]
    <1>1. /\ req.key \in Keys /\ N \in Nat \ {0} /\ work \in LayoutsOf(Walls, N)
          /\ req.index \in 1..N /\ pc \in OpSteps
          BY WorkType DEF Replace, OpSteps
    <1>2. /\ pc = "apply" /\ req.kind \in Replacing
          /\ UNCHANGED <<req, work, before, sel, healed, resume>>
          BY DEF Replace
    <1>3. Complete(work, N)
          BY <1>2 DEF Inductive, Ready, WindowReady
    <1>4. target \in Walls
      <2>1. Window(work) \in Seq(Walls) /\ Len(Window(work)) = N
            BY <1>1, <1>3, WindowType DEF SetsOf
      <2>2. QED  BY <2>1, <1>1, ElementOfSeq
    <1> HIDE DEF target
    <1>5. pick' \in Pick /\ pick'.need = 1 /\ pick'.ret = "apply" /\ pc' = "pick"
      <2>1. CASE req.kind = "quarantine"
            BY <2>1, <1>1, <1>4, CallPickType DEF Replace, target
      <2>2. CASE req.kind # "quarantine"
            BY <2>2, <1>1, CallPickType DEF Replace
      <2>3. QED  BY <2>1, <2>2
    <1>6. quar' \in Quar
      <2>1. [wall |-> target, moved |-> FALSE] \in Quar /\ NoQuar \in Quar
            BY <1>4 DEF Quar
      <2>2. quar \in Quar
            BY DEF Inductive, TypeOK, RequestType
      <2>3. QED  BY <2>1, <2>2 DEF Replace, target
    <1>7. StoreType'
          BY DEF Replace, Inductive, TypeOK, StoreType
    <1>8. RequestType'
          BY <1>2, <1>5, <1>6 DEF Inductive, TypeOK, RequestType, Steps, OpSteps
    <1>9. Ready'
          BY <1>2, <1>3, <1>5 DEF Inductive, Ready, RestReady, RequestReady, DrawReady, WindowReady, HealReady,
             StagedIsWindow, InDraw, InHeal, InInit, N, OpSteps, LayoutFiles, CoreFiles, PickSteps
    <1>10. QED  BY <1>7, <1>8, <1>9 DEF Inductive, TypeOK

LEMMA HealInductive ==
    ASSUME Inductive, Heal
    PROVE  Inductive'
    <1>1. req.key \in Keys /\ N \in Nat \ {0} /\ pc \in OpSteps
          BY WorkType DEF Heal, OpSteps
    <1>2. /\ pc = "heal" /\ Len(healed.walls) < Len(sel)
          /\ UNCHANGED <<req, work, before, sel, quar, resume>>
          BY DEF Heal
    <1>3. StoreType'
          BY DEF Heal, Inductive, TypeOK, StoreType
    <1>4. /\ sel = Window(work) /\ Len(sel) = N /\ sel \in Seq(Walls)
          /\ ~healed.changed => \A i \in DOMAIN healed.walls : healed.walls[i] = sel[i]
          /\ healed.walls \in Seq(Walls) /\ healed.changed \in BOOLEAN /\ Len(healed.walls) \in Nat
          BY <1>2, LenProperties DEF Inductive, TypeOK, RequestType, Ready, HealReady, InHeal
    <1> DEFINE w == sel[Len(healed.walls) + 1]
    <1>5. CASE w \in files
      <2>1. /\ healed' = [healed EXCEPT !.walls = Append(@, w)]
            /\ UNCHANGED <<pc, pick>>
            BY <1>5 DEF Heal
      <2>2. w \in Walls
            BY <1>5 DEF Inductive, TypeOK, StoreType
      <2>3. healed'.walls = Append(healed.walls, w) /\ healed'.changed = healed.changed
            /\ healed' \in [walls : Seq(Walls), changed : BOOLEAN]
        <3>1. \A h \in [walls : Seq(Walls), changed : BOOLEAN], x \in Seq(Walls) :
                LET g == [h EXCEPT !.walls = x]
                IN  g.walls = x /\ g.changed = h.changed /\ g \in [walls : Seq(Walls), changed : BOOLEAN]
              OBVIOUS
        <3>2. Append(healed.walls, w) \in Seq(Walls)
              BY <2>2, <1>4
        <3>3. healed \in [walls : Seq(Walls), changed : BOOLEAN]
              BY DEF Inductive, TypeOK, RequestType
        <3>4. QED  BY <2>1, <3>1, <3>2, <3>3
      <2>4. /\ Len(healed'.walls) = Len(healed.walls) + 1
            /\ \A i \in DOMAIN healed'.walls :
                 healed'.walls[i] = IF i = Len(healed.walls) + 1 THEN w ELSE healed.walls[i]
            /\ \A i \in DOMAIN healed'.walls : i # Len(healed.walls) + 1 => i \in DOMAIN healed.walls
            BY <2>2, <2>3, <1>4
      <2>5. ~healed'.changed => \A i \in DOMAIN healed'.walls : healed'.walls[i] = sel[i]
            BY <2>3, <2>4, <1>4
      <2>6. RequestType'
            BY <1>2, <2>1, <2>3 DEF Inductive, TypeOK, RequestType
      <2>7. resume = "idle"
            BY <1>2 DEF Inductive, Ready, RestReady, RequestReady, DrawReady, WindowReady, HealReady,
             StagedIsWindow, InDraw, InHeal, InInit, N, OpSteps, LayoutFiles, CoreFiles, PickSteps, TypeOK, RequestType
      <2>8. Len(healed'.walls) <= N
            BY <1>1, <1>2, <1>4, <2>4
      <2>9. HealReady'
            BY <1>2, <1>4, <2>1, <2>5, <2>7, <2>8 DEF HealReady, InHeal, InDraw, PickSteps, N
      <2>10. RestReady' /\ RequestReady' /\ DrawReady' /\ WindowReady' /\ StagedIsWindow'
            BY <1>2, <2>1 DEF Inductive, Ready, RestReady, RequestReady, DrawReady, WindowReady, HealReady,
             StagedIsWindow, InDraw, InHeal, InInit, N, OpSteps, LayoutFiles, CoreFiles, PickSteps
      <2>11. QED  BY <1>3, <2>6, <2>9, <2>10 DEF Inductive, TypeOK, Ready
    <1>6. CASE w \notin files
      <2>1. healed' = healed /\ pick' \in Pick /\ pick'.need = 1 /\ pick'.ret = "heal" /\ pc' = "pick"
            BY <1>1, <1>6, CallPickType DEF Heal
      <2>2. RequestType'
            BY <1>2, <2>1 DEF Inductive, TypeOK, RequestType, Steps, OpSteps
      <2>3. HealReady'
            BY <1>2, <1>4, <2>1 DEF Inductive, Ready, RestReady, RequestReady, DrawReady, WindowReady, HealReady,
             StagedIsWindow, InDraw, InHeal, InInit, N, OpSteps, LayoutFiles, CoreFiles, PickSteps
      <2>4. RestReady' /\ RequestReady' /\ DrawReady' /\ WindowReady' /\ StagedIsWindow'
            BY <1>2, <2>1 DEF Inductive, Ready, RestReady, RequestReady, DrawReady, WindowReady, HealReady,
             StagedIsWindow, InDraw, InHeal, InInit, N, OpSteps, LayoutFiles, CoreFiles, PickSteps
      <2>5. QED  BY <1>3, <2>2, <2>3, <2>4 DEF Inductive, TypeOK, Ready
    <1>7. QED  BY <1>5, <1>6

LEMMA StageInductive ==
    ASSUME Inductive, Stage
    PROVE  Inductive'
    <1>1. /\ req.key \in Keys /\ N \in Nat \ {0} /\ LayoutFor(req.key) = LayoutsOf(Walls, N)
          /\ work \in LayoutsOf(Walls, N)
          BY WorkType DEF Stage, OpSteps
    <1>2. /\ pc = "heal" /\ Len(healed.walls) = Len(sel)
          /\ work' = Healed(work) /\ sel' = healed.walls /\ healed' = NoHealed
          /\ pc' \in {"render", "staged"}
          /\ UNCHANGED <<req, before, quar, pick, resume>>
          BY DEF Stage
    <1>3. /\ sel = Window(work) /\ Len(sel) = N /\ sel \in Seq(Walls)
          /\ ~healed.changed => \A i \in DOMAIN healed.walls : healed.walls[i] = sel[i]
          /\ healed.walls \in Seq(Walls) /\ Len(healed.walls) = N
          /\ resume = "idle"
          BY <1>2 DEF Inductive, TypeOK, RequestType, Ready, HealReady, InHeal, DrawReady, CoreFiles
    <1>4. healed.walls \in SetsOf(Walls, N)
          BY <1>3 DEF SetsOf
    <1>5. Healed(work) \in LayoutsOf(Walls, N) /\ Window(Healed(work)) = healed.walls
      <2>1. CASE ~healed.changed
        <3>1. DOMAIN healed.walls = 1..Len(healed.walls)
              BY <1>3, LenProperties
        <3>2. healed.walls = sel
              BY <3>1, <2>1, <1>3, SeqEqual
        <3>3. Healed(work) = work
              BY <2>1 DEF Healed
        <3>4. QED  BY <3>2, <3>3, <1>1, <1>3
      <2>2. CASE healed.changed /\ work.offset = 0 /\ work.idx \in 1..Len(work.history)
        <3> DEFINE l == [work EXCEPT !.history[work.idx] = healed.walls]
        <3>1. Healed(work) = l
              BY <2>2 DEF Healed
        <3>2. /\ work.history \in Seq(SetsOf(Walls, N)) /\ work.idx \in Nat
              /\ Len(work.history) \in Nat
              BY <1>1, LenProperties DEF LayoutsOf
        <3>3. /\ [work.history EXCEPT ![work.idx] = healed.walls] \in Seq(SetsOf(Walls, N))
              /\ Len([work.history EXCEPT ![work.idx] = healed.walls]) = Len(work.history)
              /\ [work.history EXCEPT ![work.idx] = healed.walls][work.idx] = healed.walls
              BY <3>2, <2>2, <1>4, ExceptSeq
        <3>4. /\ l.history = [work.history EXCEPT ![work.idx] = healed.walls]
              /\ l.idx = work.idx /\ l.offset = 0
              BY <1>1, <2>2 DEF LayoutsOf
        <3>5. l \in LayoutsOf(Walls, N)
              BY <3>3, <1>1 DEF LayoutsOf
        <3> HIDE DEF l
        <3>6. Greatest(l.idx, 1) = work.idx
              BY <3>4, <3>2, <2>2 DEF Greatest
        <3>7. SetAt(l, Greatest(l.idx, 1)) = healed.walls
              BY <3>3, <3>4, <3>6, <2>2 DEF SetAt
        <3>8. SetAt(l, Greatest(l.idx, 1) + 1) \in Seq(Walls)
          <4>1. CASE work.idx + 1 \in 1..Len(l.history)
                BY <4>1, <3>3, <3>4, <3>6, ElementOfSeq DEF SetAt, SetsOf
          <4>2. CASE work.idx + 1 \notin 1..Len(l.history)
                BY <4>2, <3>6 DEF SetAt
          <4>3. QED  BY <4>1, <4>2
        <3> DEFINE next == SetAt(l, Greatest(l.idx, 1) + 1)
        <3>9. SubSeq(next, 1, Least(0, Len(next))) = <<>>
          <4>1. Len(next) \in Nat
                BY <3>8, LenProperties
          <4>2. Least(0, Len(next)) = 0
                BY <4>1 DEF Least
          <4>3. QED  BY <4>2, SubSeqEmpty
        <3>10. SubSeq(healed.walls, 0 + 1, Len(healed.walls)) = healed.walls
              BY <1>3, SubSeqFull
        <3>11. Window(l) = healed.walls \o <<>>
              BY <3>4, <3>7, <3>9, <3>10 DEF Window
        <3>12. QED  BY <3>1, <3>5, <3>11, <1>3, ConcatEmptySeq
      <2>3. CASE healed.changed /\ ~(work.offset = 0 /\ work.idx \in 1..Len(work.history))
            BY <2>3, <1>1, <1>4, ReplaceTailType DEF Healed
      <2>4. QED  BY <2>1, <2>2, <2>3
    <1>6. StoreType'
          BY DEF Stage, Inductive, TypeOK, StoreType
    <1>7. RequestType'
          BY <1>1, <1>2, <1>3, <1>5, NothingType DEF Inductive, TypeOK, RequestType, Steps, OpSteps
    <1>8. StagedIsWindow'
          BY <1>2, <1>3, <1>5 DEF StagedIsWindow, N
    <1>9. RestReady' /\ RequestReady' /\ DrawReady' /\ WindowReady' /\ HealReady'
          BY <1>2, <1>3 DEF Inductive, Ready, RestReady, RequestReady, DrawReady, WindowReady, HealReady,
             StagedIsWindow, InDraw, InHeal, InInit, N, OpSteps, LayoutFiles, CoreFiles, PickSteps
    <1>10. QED  BY <1>6, <1>7, <1>8, <1>9 DEF Inductive, TypeOK, Ready

-----------------------------------------------------------------------------
(* Drawing from the bag. *)

\* An early return leaves the layouts in memory well formed.
LEMMA FailType ==
    ASSUME Inductive, Fail
    PROVE  /\ RequestType' /\ Ready'
           /\ DOMAIN layouts' = Keys
           /\ \A k \in Keys : layouts'[k] = NoLayout \/ layouts'[k] \in LayoutFor(k)
           /\ UNCHANGED outer
    <1>1. RequestType' /\ Ready' /\ UNCHANGED outer
          BY FinishType DEF Fail, Finish
    <1>2. work \in LayoutFor(req.key)
          BY DEF Inductive, TypeOK, RequestType
    <1>3. /\ DOMAIN layouts' = Keys
          /\ \A k \in Keys : layouts'[k] = NoLayout \/ layouts'[k] \in LayoutFor(k)
          BY <1>2 DEF Fail, Inductive, TypeOK, StoreType
    <1>4. QED  BY <1>1, <1>3

LEMMA PickStartInductive ==
    ASSUME Inductive, PickStart
    PROVE  Inductive'
    <1>1. core' \in Cores(Walls)
          BY RebuiltType, WallpaperAssumption DEF PickStart, Inductive, TypeOK, StoreType
    <1>2. UNCHANGED <<files, quarantined, stranded, diskLayouts, shown, diskCore>> /\ pc = "pick"
          BY DEF PickStart, pickFrame
    <1>3. CASE Fail
      <2>1. StoreType'
            BY <1>1, <1>2, <1>3, FailType DEF Inductive, TypeOK, StoreType
      <2>2. QED  BY <2>1, <1>3, FailType DEF Inductive, TypeOK
    <1>4. CASE UNCHANGED <<layouts, pc, opVars, resume, outer>>
      <2>1. StoreType'
            BY <1>1, <1>2, <1>4 DEF Inductive, TypeOK, StoreType
      <2>2. RequestType'
            BY <1>4 DEF opVars, Inductive, TypeOK, RequestType
      <2>3. Ready'
            BY <1>4 DEF opVars, Inductive, Ready, RestReady, RequestReady, DrawReady, WindowReady, HealReady,
             StagedIsWindow, InDraw, InHeal, InInit, N, OpSteps, LayoutFiles, CoreFiles, PickSteps
      <2>4. QED  BY <2>1, <2>2, <2>3 DEF Inductive, TypeOK
    <1>5. CASE /\ \E d \in BOOLEAN : pick' = [pick EXCEPT !.dup = d]
               /\ pc' = "draw"
               /\ UNCHANGED <<core, layouts, req, work, before, sel, healed, quar, resume, outer>>
      <2>1. pick' \in Pick /\ pick'.need = pick.need /\ pick'.ret = pick.ret
            BY <1>5 DEF Inductive, TypeOK, RequestType, Pick
      <2>2. StoreType'
            BY <1>1, <1>2, <1>5 DEF Inductive, TypeOK, StoreType
      <2>3. RequestType'
            BY <1>5, <2>1 DEF Inductive, TypeOK, RequestType, Steps, OpSteps
      <2>4. Ready'
            BY <1>2, <1>5, <2>1 DEF Inductive, Ready, RestReady, RequestReady, DrawReady, WindowReady, HealReady,
             StagedIsWindow, InDraw, InHeal, InInit, N, OpSteps, LayoutFiles, CoreFiles, PickSteps
      <2>5. QED  BY <2>2, <2>3, <2>4 DEF Inductive, TypeOK
    <1>6. QED
      <2>1. (Cardinality(core.lib \ {pick.exclude}) < pick.need) \in BOOLEAN
            OBVIOUS
      <2>2. QED  BY <2>1, <1>3, <1>4, <1>5 DEF PickStart

LEMMA DrawRebuildInductive ==
    ASSUME Inductive, DrawRebuild
    PROVE  Inductive'
    <1>1. core' \in Cores(Walls)
          BY RebuiltType, WallpaperAssumption DEF DrawRebuild, Inductive, TypeOK, StoreType
    <1>2. UNCHANGED <<files, quarantined, stranded, diskLayouts, shown, diskCore>>
          BY DEF DrawRebuild, pickFrame
    <1>3. CASE Fail
      <2>1. StoreType'
            BY <1>1, <1>2, <1>3, FailType DEF Inductive, TypeOK, StoreType
      <2>2. QED  BY <2>1, <1>3, FailType DEF Inductive, TypeOK
    <1>4. CASE UNCHANGED <<layouts, pc, opVars, resume, outer>>
      <2>1. StoreType'
            BY <1>1, <1>2, <1>4 DEF Inductive, TypeOK, StoreType
      <2>2. RequestType'
            BY <1>4 DEF opVars, Inductive, TypeOK, RequestType
      <2>3. Ready'
            BY <1>4 DEF opVars, Inductive, Ready, RestReady, RequestReady, DrawReady, WindowReady, HealReady,
             StagedIsWindow, InDraw, InHeal, InInit, N, OpSteps, LayoutFiles, CoreFiles, PickSteps
      <2>4. QED  BY <2>1, <2>2, <2>3 DEF Inductive, TypeOK
    <1>5. QED  BY <1>3, <1>4 DEF DrawRebuild

LEMMA DrawInductive ==
    ASSUME Inductive, Draw
    PROVE  Inductive'
    <1> DEFINE w     == core.bag[core.pos + 1]
               tries == Least(pick.tries + 1, MaxAttempts)
               drawn == [core EXCEPT !.pos = @ + 1]
    <1>1. /\ core \in Cores(Walls) /\ core.bag \in Seq(Walls) /\ core.pos \in Nat /\ Len(core.bag) \in Nat
          /\ pick \in Pick /\ pick.got \in Seq(Walls) /\ pick.tries \in Nat /\ MaxAttempts \in Nat
          BY LenProperties, WallpaperAssumption DEF Inductive, TypeOK, StoreType, RequestType, Cores, Pick
    <1>2. /\ pc = "draw" /\ core.pos < Len(core.bag)
          /\ UNCHANGED <<files, quarantined, stranded, diskLayouts, shown, diskCore, layouts, req, work, before, sel,
                         healed, quar, outer>>
          BY DEF Draw, Drawing, pickFrame
    <1>3. w \in Walls
          BY <1>1, <1>2, ElementOfSeq
    <1>4. drawn \in Cores(Walls)
      <2>1. \A c \in Cores(Walls) : [c EXCEPT !.pos = @ + 1] \in Cores(Walls)
            BY DEF Cores
      <2>2. QED  BY <2>1, <1>1
    <1>5. tries \in Nat
          BY <1>1 DEF Least
    <1> HIDE DEF w, tries, drawn
    <1>6. core' \in Cores(Walls)
      <2>1. Rescanned(drawn, files) \subseteq Cores(Walls)
            BY <1>4, RescannedType, WallpaperAssumption DEF Inductive, TypeOK, StoreType
      <2>2. QED  BY <2>1, <1>4 DEF Draw, drawn, w, tries
    <1>7. pick' \in Pick /\ pick'.need = pick.need /\ pick'.ret = pick.ret
      <2> DEFINE Same(q, p) == q \in Pick /\ q.need = p.need /\ q.ret = p.ret
      <2>1. /\ \A p \in Pick, t \in Nat, g \in Seq(Walls) : Same([p EXCEPT !.tries = t, !.got = g], p)
            /\ \A p \in Pick, t \in Nat : Same([p EXCEPT !.tries = t], p)
            BY DEF Pick
      <2> HIDE DEF Same
      <2>2. Append(pick.got, w) \in Seq(Walls)
            BY <1>1, <1>3
      <2>3. \/ pick' = [pick EXCEPT !.tries = 0]
            \/ pick' = [pick EXCEPT !.tries = tries]
            \/ pick' = [pick EXCEPT !.tries = tries, !.got = pick.got]
            \/ pick' = [pick EXCEPT !.tries = tries, !.got = Append(pick.got, w)]
            BY DEF Draw, w, tries
      <2>4. Same(pick', pick)
            BY <2>1, <2>2, <2>3, <1>1, <1>5
      <2>5. QED  BY <2>4 DEF Same
    <1>8. UNCHANGED <<pc, resume>> \/ (pc' = "library" /\ resume' = "draw")
          BY DEF Draw
    <1>9. StoreType'
          BY <1>2, <1>6 DEF Inductive, TypeOK, StoreType
    <1>10. RequestType'
          BY <1>2, <1>7, <1>8 DEF Inductive, TypeOK, RequestType, Steps, CoreFiles
    <1>11. Ready'
          BY <1>2, <1>7, <1>8 DEF Inductive, Ready, RestReady, RequestReady, DrawReady, WindowReady, HealReady,
             StagedIsWindow, InDraw, InHeal, InInit, N, OpSteps, LayoutFiles, CoreFiles, PickSteps
    <1>12. QED  BY <1>9, <1>10, <1>11 DEF Inductive, TypeOK

LEMMA DrawDoneInductive ==
    ASSUME Inductive, DrawDone
    PROVE  Inductive'
    <1>1. /\ req.key \in Keys /\ N \in Nat \ {0} /\ LayoutFor(req.key) = LayoutsOf(Walls, N)
          /\ work \in LayoutsOf(Walls, N) /\ req.index \in 1..N
          BY WorkType DEF DrawDone, OpSteps
    <1>2. /\ pc = "draw" /\ Len(pick.got) = pick.need /\ pick' = NoPick /\ resume = "idle"
          /\ UNCHANGED <<files, quarantined, stranded, diskLayouts, shown, core, diskCore, layouts, req, before, sel,
                         quar, resume, outer>>
          BY DEF DrawDone, pickFrame, Inductive, TypeOK, RequestType, Ready, DrawReady, CoreFiles
    <1>3. /\ pick.got \in Seq(Walls) /\ NoPick \in Pick /\ InDraw
          /\ pick.need = IF pick.ret \in {"apply", "heal"} THEN 1 ELSE N
          /\ healed \in [walls : Seq(Walls), changed : BOOLEAN]
          BY <1>2, NothingType DEF Inductive, TypeOK, RequestType, Pick, Ready, DrawReady, InDraw, PickSteps
    <1>4. StoreType'
          BY <1>2 DEF Inductive, TypeOK, StoreType
    <1>5. CASE pick.ret \in {"init", "window", "extend"}
      <2>1. pick.got \in SetsOf(Walls, N)
            BY <1>2, <1>3, <1>5 DEF SetsOf
      <2>2. \A l \in LayoutsOf(Walls, N) : [l EXCEPT !.idx = 1, !.offset = 0] \in LayoutsOf(Walls, N)
        <3>1. 0 \in 0..(N - 1) /\ 1 \in Nat
              BY <1>1
        <3>2. QED  BY <3>1 DEF LayoutsOf
      <2>3. AppendSet(work, pick.got) \in LayoutsOf(Walls, N)
            BY <1>1, <2>1, AppendSetType
      <2>4. work' \in LayoutsOf(Walls, N) /\ healed' = healed
            BY <1>1, <2>2, <2>3, <1>5 DEF DrawDone
      <2>5. pc' = IF pick.ret = "init" THEN IF NeedsWindowFirst THEN "window" ELSE "apply" ELSE pick.ret
            BY <1>5 DEF DrawDone
      <2>6. RequestType'
            BY <1>1, <1>2, <1>3, <1>5, <2>4, <2>5 DEF Inductive, TypeOK, RequestType, Steps, OpSteps
      <2>7. Ready'
            BY <1>2, <1>3, <1>5, <2>4, <2>5 DEF NeedsWindowFirst, Inductive, Ready, RestReady, RequestReady, DrawReady, WindowReady, HealReady,
             StagedIsWindow, InDraw, InHeal, InInit, N, OpSteps, LayoutFiles, CoreFiles, PickSteps
      <2>8. QED  BY <1>4, <2>6, <2>7 DEF Inductive, TypeOK
    <1>6. CASE pick.ret = "apply"
      <2> DEFINE s == [Window(work) EXCEPT ![req.index] = pick.got[1]]
      <2>1. Complete(work, N)
            BY <1>3, <1>6 DEF Inductive, Ready, WindowReady
      <2>2. Window(work) \in Seq(Walls) /\ Len(Window(work)) = N
            BY <1>1, <2>1, WindowType DEF SetsOf
      <2>3. pick.got[1] \in Walls
            BY <1>2, <1>3, <1>6, ElementOfSeq
      <2>4. s \in SetsOf(Walls, N)
            BY <2>2, <2>3, <1>1, ExceptSeq DEF SetsOf
      <2>5. work' = ReplaceTail(work, s) /\ pc' = "extend" /\ healed' = healed
            BY <1>6 DEF DrawDone
      <2>6. work' \in LayoutsOf(Walls, N)
            BY <1>1, <2>4, <2>5, ReplaceTailType
      <2>7. RequestType'
            BY <1>1, <1>2, <1>3, <2>5, <2>6 DEF Inductive, TypeOK, RequestType, Steps, OpSteps
      <2>8. Ready'
            BY <1>2, <1>3, <1>6, <2>5 DEF Inductive, Ready, RestReady, RequestReady, DrawReady, WindowReady, HealReady,
             StagedIsWindow, InDraw, InHeal, InInit, N, OpSteps, LayoutFiles, CoreFiles, PickSteps
      <2>9. QED  BY <1>4, <2>7, <2>8 DEF Inductive, TypeOK
    <1>7. CASE pick.ret = "heal"
      <2>1. healed' = [walls |-> Append(healed.walls, pick.got[1]), changed |-> TRUE]
            /\ pc' = "heal" /\ work' = work
            BY <1>7 DEF DrawDone
      <2>2. pick.got[1] \in Walls
            BY <1>2, <1>3, <1>7, ElementOfSeq
      <2>3. /\ sel = Window(work) /\ Len(sel) = N /\ Len(healed.walls) < N
            /\ healed.walls \in Seq(Walls) /\ Len(healed.walls) \in Nat
            BY <1>3, <1>7, LenProperties DEF Inductive, Ready, HealReady, InHeal
      <2>4. /\ healed'.walls \in Seq(Walls) /\ Len(healed'.walls) = Len(healed.walls) + 1
            /\ healed'.changed = TRUE /\ healed' \in [walls : Seq(Walls), changed : BOOLEAN]
            BY <2>1, <2>2, <2>3
      <2>5. Len(healed'.walls) <= N
            BY <2>3, <2>4, <1>1
      <2>6. RequestType'
            BY <1>2, <1>3, <2>1, <2>4 DEF Inductive, TypeOK, RequestType, Steps, OpSteps
      <2>7. HealReady'
            BY <1>2, <2>1, <2>3, <2>4, <2>5 DEF HealReady, InHeal, InDraw, PickSteps, N
      <2>8. RestReady' /\ RequestReady' /\ DrawReady' /\ WindowReady' /\ StagedIsWindow'
            BY <1>2, <1>3, <1>7, <2>1 DEF Inductive, Ready, RestReady, RequestReady, DrawReady, WindowReady, HealReady,
             StagedIsWindow, InDraw, InHeal, InInit, N, OpSteps, LayoutFiles, CoreFiles, PickSteps
      <2>9. QED  BY <1>4, <2>6, <2>7, <2>8 DEF Inductive, TypeOK, Ready
    <1>8. QED  BY <1>5, <1>6, <1>7 DEF DrawDone

-----------------------------------------------------------------------------
(* The transaction around the renderer. *)

LEMMA RollbackType ==
    ASSUME Inductive, NEW r, NEW b, BeforeOK(b, r), NEW q \in Quar, Rollback(r, b, q)
    PROVE  /\ files' \subseteq Walls /\ quarantined' \subseteq Walls /\ stranded' \subseteq Walls
           /\ core' \in Cores(Walls)
           /\ DOMAIN layouts' = Keys
           /\ \A k \in Keys : layouts'[k] = NoLayout \/ layouts'[k] \in LayoutFor(k)
    <1>1. q.moved => q.wall \in Walls
          BY DEF Quar, NoQuar
    <1>2. files' \subseteq Walls /\ quarantined' \subseteq Walls /\ stranded' \subseteq Walls
          BY <1>1 DEF Rollback, PutBack, Inductive, TypeOK, StoreType
    <1>3. core' \in Cores(Walls)
      <2>1. \A c \in Cores(Walls), p \in Nat : [c EXCEPT !.pos = p] \in Cores(Walls)
            BY DEF Cores
      <2>2. core \in Cores(Walls) /\ Len(core.bag) \in Nat
            BY LenProperties DEF Inductive, TypeOK, StoreType, Cores
      <2>3. Least(b.pos, Len(core.bag)) \in Nat
            BY <2>2 DEF BeforeOK, Least
      <2>4. QED  BY <2>1, <2>2, <2>3 DEF Rollback
    <1>4. b.layout \in LayoutFor(r.key)
          BY DEF BeforeOK
    <1>5. /\ DOMAIN layouts' = Keys
          /\ \A k \in Keys : layouts'[k] = NoLayout \/ layouts'[k] \in LayoutFor(k)
          BY <1>4 DEF Rollback, Inductive, TypeOK, StoreType
    <1>6. QED  BY <1>2, <1>3, <1>5

\* A rollback that ends the request.
LEMMA RolledBackInductive ==
    ASSUME Inductive, Rollback(req, before, quar), Finish, UNCHANGED <<diskCore, diskLayouts, shown>>
    PROVE  Inductive'
    <1>1. BeforeOK(before, req) /\ quar \in Quar
          BY DEF Inductive, TypeOK, RequestType
    <1>2. UNCHANGED outer
          BY DEF Finish
    <1>3. StoreType'
          BY <1>1, <1>2, RollbackType DEF Inductive, TypeOK, StoreType
    <1>4. QED  BY <1>3, FinishType DEF Inductive, TypeOK

LEMMA RefuseMissingInductive ==
    ASSUME Inductive, RefuseMissing
    PROVE  Inductive'
    <1>1. Finish /\ UNCHANGED <<files, quarantined, stranded, core, diskCore, layouts, diskLayouts, shown, outer>>
          BY DEF RefuseMissing, Finish
    <1>2. StoreType'
          BY <1>1 DEF Inductive, TypeOK, StoreType
    <1>3. QED  BY <1>1, <1>2, FinishType DEF Inductive, TypeOK

LEMMA MoveFailsInductive ==
    ASSUME Inductive, MoveFails
    PROVE  Inductive'
    <1>1. Finish /\ UNCHANGED <<files, quarantined, stranded, core, diskCore, layouts, diskLayouts, shown, outer>>
          BY DEF MoveFails, Finish
    <1>2. StoreType'
          BY <1>1 DEF Inductive, TypeOK, StoreType
    <1>3. QED  BY <1>1, <1>2, FinishType DEF Inductive, TypeOK

LEMMA RefuseWorldInductive ==
    ASSUME Inductive, RefuseWorld
    PROVE  Inductive'
    BY RolledBackInductive DEF RefuseWorld

LEMMA RenderFailInductive ==
    ASSUME Inductive, RenderFail
    PROVE  Inductive'
    <1>1. CASE req.kind = "startup"
      <2>1. Finish /\ UNCHANGED <<files, quarantined, stranded, core, diskCore, layouts, diskLayouts, shown, outer>>
            BY <1>1 DEF RenderFail, Finish
      <2>2. StoreType'
            BY <2>1 DEF Inductive, TypeOK, StoreType
      <2>3. QED  BY <2>1, <2>2, FinishType DEF Inductive, TypeOK
    <1>2. CASE req.kind # "startup"
          BY <1>2, RolledBackInductive DEF RenderFail
    <1>3. QED  BY <1>1, <1>2

LEMMA MoveQuarantineInductive ==
    ASSUME Inductive, MoveQuarantine
    PROVE  Inductive'
    <1>1. /\ pc = "staged" /\ pc' = "render"
          /\ UNCHANGED <<core, diskCore, layouts, diskLayouts, shown, req, work, before, sel, healed, pick,
                         stranded, resume, outer>>
          BY DEF MoveQuarantine
    <1>2. files' \subseteq Walls /\ quarantined' \subseteq Walls /\ quar' \in Quar
      <2>1. quar \in Quar /\ files \subseteq Walls /\ quarantined \subseteq Walls
            BY DEF Inductive, TypeOK, RequestType, StoreType
      <2>2. \A q \in [wall : Walls, moved : BOOLEAN] :
              q.wall \in Walls /\ [q EXCEPT !.moved = TRUE] \in [wall : Walls, moved : BOOLEAN]
            OBVIOUS
      <2>3. \A q \in Quar : q.wall # NoWall => q \in [wall : Walls, moved : BOOLEAN]
            BY DEF Quar, NoQuar
      <2>4. [wall : Walls, moved : BOOLEAN] \subseteq Quar
            BY DEF Quar
      <2>5. QED  BY <2>1, <2>2, <2>3, <2>4 DEF MoveQuarantine
    <1>3. StoreType'
          BY <1>1, <1>2 DEF Inductive, TypeOK, StoreType
    <1>4. RequestType'
          BY <1>1, <1>2 DEF Inductive, TypeOK, RequestType, Steps, OpSteps
    <1>5. Ready'
          BY <1>1 DEF Inductive, Ready, RestReady, RequestReady, DrawReady, WindowReady, HealReady,
             StagedIsWindow, InDraw, InHeal, InInit, N, OpSteps, LayoutFiles, CoreFiles, PickSteps
    <1>6. QED  BY <1>3, <1>4, <1>5 DEF Inductive, TypeOK

LEMMA RenderOkInductive ==
    ASSUME Inductive, RenderOk
    PROVE  Inductive'
    <1>1. req.key \in Keys
          BY WorkType DEF RenderOk, OpSteps
    <1>2. /\ pc = "render" /\ pc' = "history"
          /\ UNCHANGED <<files, quarantined, stranded, diskCore, layouts, diskLayouts, req, work, before, sel, healed,
                         quar, pick, resume, outer>>
          BY DEF RenderOk, opVars
    <1>3. core' \in Cores(Walls)
          BY WithoutType DEF RenderOk, Inductive, TypeOK, StoreType
    <1>4. shown' \in [key : Keys \cup {NoWall}, walls : Seq(Walls)]
          BY <1>1 DEF RenderOk, Inductive, TypeOK, RequestType
    <1>5. StoreType'
          BY <1>2, <1>3, <1>4 DEF Inductive, TypeOK, StoreType
    <1>6. RequestType'
          BY <1>2 DEF Inductive, TypeOK, RequestType, Steps, LayoutFiles
    <1>7. Ready'
          BY <1>2 DEF Inductive, Ready, RestReady, RequestReady, DrawReady, WindowReady, HealReady,
             StagedIsWindow, InDraw, InHeal, InInit, N, OpSteps, LayoutFiles, CoreFiles, PickSteps
    <1>8. QED  BY <1>5, <1>6, <1>7 DEF Inductive, TypeOK

LEMMA FavorInductive ==
    ASSUME Inductive, Favor
    PROVE  Inductive'
    <1> DEFINE target == Window(work)[req.index]
               marked == IF req.kind = "favorite" THEN core.favs \cup {target} ELSE core.favs \ {target}
    <1>1. /\ req.key \in Keys /\ N \in Nat \ {0} /\ work \in LayoutsOf(Walls, N) /\ req.index \in 1..N
          BY WorkType DEF Favor, OpSteps
    <1>2. pc = "apply" /\ req.kind \in Favoring /\ UNCHANGED <<files, quarantined, stranded, diskCore, diskLayouts, shown>>
          BY DEF Favor
    <1>3. target \in Walls
      <2>1. Complete(work, N)
            BY <1>2 DEF Inductive, Ready, WindowReady
      <2>2. Window(work) \in Seq(Walls) /\ Len(Window(work)) = N
            BY <1>1, <2>1, WindowType DEF SetsOf
      <2>3. QED  BY <2>2, <1>1, ElementOfSeq
    <1> HIDE DEF target
    <1>4. CASE Fail /\ UNCHANGED core
      <2>1. StoreType'
            BY <1>2, <1>4, FailType DEF Inductive, TypeOK, StoreType
      <2>2. QED  BY <2>1, <1>4, FailType DEF Inductive, TypeOK
    <1>5. CASE /\ core' \in Rebuilt([core EXCEPT !.favs = marked], files)
               /\ pc' = "history"
               /\ UNCHANGED <<layouts, opVars, resume, outer>>
      <2>1. core \in Cores(Walls) /\ marked \subseteq Walls
            BY <1>3 DEF Inductive, TypeOK, StoreType, Cores
      <2> HIDE DEF marked
      <2>2. \A c \in Cores(Walls), f \in SUBSET Walls : [c EXCEPT !.favs = f] \in Cores(Walls)
            BY DEF Cores
      <2>3. [core EXCEPT !.favs = marked] \in Cores(Walls)
            BY <2>1, <2>2
      <2>4. core' \in Cores(Walls)
            BY <1>5, <2>3, RebuiltType, WallpaperAssumption
      <2>5. StoreType'
            BY <1>2, <1>5, <2>4 DEF Inductive, TypeOK, StoreType
      <2>6. RequestType'
            BY <1>5 DEF opVars, Inductive, TypeOK, RequestType, Steps, LayoutFiles
      <2>7. Ready'
            BY <1>2, <1>5 DEF opVars, Inductive, Ready, RestReady, RequestReady, DrawReady, WindowReady, HealReady,
             StagedIsWindow, InDraw, InHeal, InInit, N, OpSteps, LayoutFiles, CoreFiles, PickSteps
      <2>8. QED  BY <2>5, <2>6, <2>7 DEF Inductive, TypeOK
    <1>6. QED  BY <1>4, <1>5 DEF Favor, target

-----------------------------------------------------------------------------
(* Writes of the state files. *)

LEMMA WriteLayoutFileType ==
    ASSUME Inductive, NEW file \in LayoutFiles, NEW d, NEW next \in LayoutFiles \cup {"library"},
           WriteLayoutFile(file, d, next), d \in LayoutFor(req.key),
           \/ UNCHANGED layouts
           \/ layouts' = [layouts EXCEPT ![req.key] = work]
    PROVE  Inductive'
    <1>1. /\ pc \in LayoutFiles /\ pc' = next
          /\ UNCHANGED <<files, quarantined, stranded, core, diskCore, shown, req, work, before, sel, healed, quar, pick,
                         resume, outer>>
          BY DEF WriteLayoutFile, opVars
    <1>2. /\ DOMAIN diskLayouts' = Keys
          /\ \A k \in Keys : diskLayouts'[k] \in LayoutFor(k)
          BY DEF WriteLayoutFile, Inductive, TypeOK, StoreType
    <1>3. work \in LayoutFor(req.key)
          BY DEF Inductive, TypeOK, RequestType
    <1>4. /\ DOMAIN layouts' = Keys
          /\ \A k \in Keys : layouts'[k] = NoLayout \/ layouts'[k] \in LayoutFor(k)
          BY <1>3 DEF Inductive, TypeOK, StoreType
    <1>5. StoreType'
          BY <1>1, <1>2, <1>4 DEF Inductive, TypeOK, StoreType
    <1>6. RequestType'
          BY <1>1 DEF Inductive, TypeOK, RequestType, Steps, LayoutFiles, CoreFiles
    <1>7. Ready'
          BY <1>1 DEF Inductive, Ready, RestReady, RequestReady, DrawReady, WindowReady, HealReady,
             StagedIsWindow, InDraw, InHeal, InInit, N, OpSteps, LayoutFiles, CoreFiles, PickSteps
    <1>8. QED  BY <1>5, <1>6, <1>7 DEF Inductive, TypeOK

LEMMA WriteHistoryInductive ==
    ASSUME Inductive, WriteHistory
    PROVE  Inductive'
    <1> DEFINE d == [diskLayouts[req.key] EXCEPT !.history = work.history]
    <1>1. /\ req.key \in Keys /\ N \in Nat \ {0} /\ LayoutFor(req.key) = LayoutsOf(Walls, N)
          /\ work \in LayoutsOf(Walls, N)
          BY WorkType DEF WriteHistory, WriteLayoutFile, LayoutFiles
    <1>2. diskLayouts[req.key] \in LayoutsOf(Walls, N)
          BY <1>1 DEF Inductive, TypeOK, StoreType
    <1>3. d \in LayoutFor(req.key)
      <2>1. \A x, y \in LayoutsOf(Walls, N) : [x EXCEPT !.history = y.history] \in LayoutsOf(Walls, N)
            BY DEF LayoutsOf
      <2>2. QED  BY <2>1, <1>1, <1>2
    <1> HIDE DEF d
    <1>4. "history" \in LayoutFiles /\ "index" \in LayoutFiles \cup {"library"}
          BY DEF LayoutFiles
    <1>5. WriteLayoutFile("history", d, "index")
          BY DEF WriteHistory, d
    <1>6. QED  BY <1>3, <1>4, <1>5, WriteLayoutFileType DEF WriteHistory

LEMMA WriteIndexInductive ==
    ASSUME Inductive, WriteIndex
    PROVE  Inductive'
    <1> DEFINE d == [diskLayouts[req.key] EXCEPT !.idx = work.idx]
    <1>1. /\ req.key \in Keys /\ N \in Nat \ {0} /\ LayoutFor(req.key) = LayoutsOf(Walls, N)
          /\ work \in LayoutsOf(Walls, N)
          BY WorkType DEF WriteIndex, WriteLayoutFile, LayoutFiles
    <1>2. diskLayouts[req.key] \in LayoutsOf(Walls, N)
          BY <1>1 DEF Inductive, TypeOK, StoreType
    <1>3. d \in LayoutFor(req.key)
      <2>1. \A x, y \in LayoutsOf(Walls, N) : [x EXCEPT !.idx = y.idx] \in LayoutsOf(Walls, N)
            BY DEF LayoutsOf
      <2>2. QED  BY <2>1, <1>1, <1>2
    <1> HIDE DEF d
    <1>4. "index" \in LayoutFiles /\ "offset" \in LayoutFiles \cup {"library"}
          BY DEF LayoutFiles
    <1>5. WriteLayoutFile("index", d, "offset")
          BY DEF WriteIndex, d
    <1>6. QED  BY <1>3, <1>4, <1>5, WriteLayoutFileType DEF WriteIndex

LEMMA WriteOffsetInductive ==
    ASSUME Inductive, WriteOffset
    PROVE  Inductive'
    <1> DEFINE d == [diskLayouts[req.key] EXCEPT !.offset = work.offset]
    <1>1. /\ req.key \in Keys /\ N \in Nat \ {0} /\ LayoutFor(req.key) = LayoutsOf(Walls, N)
          /\ work \in LayoutsOf(Walls, N)
          BY WorkType DEF WriteOffset, WriteLayoutFile, LayoutFiles
    <1>2. diskLayouts[req.key] \in LayoutsOf(Walls, N)
          BY <1>1 DEF Inductive, TypeOK, StoreType
    <1>3. d \in LayoutFor(req.key)
      <2>1. \A x, y \in LayoutsOf(Walls, N) : [x EXCEPT !.offset = y.offset] \in LayoutsOf(Walls, N)
            BY DEF LayoutsOf
      <2>2. QED  BY <2>1, <1>1, <1>2
    <1> HIDE DEF d
    <1>4. "offset" \in LayoutFiles /\ "library" \in LayoutFiles \cup {"library"}
          BY DEF LayoutFiles
    <1>5. WriteLayoutFile("offset", d, "library")
          BY DEF WriteOffset, d
    <1>6. QED  BY <1>3, <1>4, <1>5, WriteLayoutFileType DEF WriteOffset

LEMMA WriteCoreFileType ==
    ASSUME Inductive, NEW file \in CoreFiles, NEW d \in Cores(Walls), NEW next \in CoreFiles,
           WriteCoreFile(file, d, next)
    PROVE  Inductive'
    <1>1. /\ pc \in CoreFiles /\ pc' = next /\ diskCore' = d
          /\ UNCHANGED <<files, quarantined, stranded, core, layouts, diskLayouts, shown, req, work, before, sel, healed,
                         quar, pick, resume, outer>>
          BY DEF WriteCoreFile, opVars
    <1>2. StoreType'
          BY <1>1 DEF Inductive, TypeOK, StoreType
    <1>3. RequestType'
          BY <1>1 DEF Inductive, TypeOK, RequestType, Steps, CoreFiles
    <1>4. Ready'
          BY <1>1 DEF Inductive, Ready, RestReady, RequestReady, DrawReady, WindowReady, HealReady,
             StagedIsWindow, InDraw, InHeal, InInit, N, OpSteps, LayoutFiles, CoreFiles, PickSteps
    <1>5. QED  BY <1>2, <1>3, <1>4 DEF Inductive, TypeOK

\* A core file on disk takes the value in memory.
LEMMA CoreFieldType ==
    ASSUME NEW c \in Cores(Walls), NEW d \in Cores(Walls)
    PROVE  /\ [d EXCEPT !.lib = c.lib] \in Cores(Walls) /\ [d EXCEPT !.favs = c.favs] \in Cores(Walls)
           /\ [d EXCEPT !.bag = c.bag] \in Cores(Walls) /\ [d EXCEPT !.pos = c.pos] \in Cores(Walls)
    BY DEF Cores

LEMMA WriteCoreInductive ==
    ASSUME Inductive, WriteLibrary \/ WriteFavorites \/ WriteWalls
    PROVE  Inductive'
    <1>1. core \in Cores(Walls) /\ diskCore \in Cores(Walls)
          BY DEF Inductive, TypeOK, StoreType
    <1>2. {"library", "favorites", "walls", "walls_idx"} = CoreFiles
          BY DEF CoreFiles
    <1>3. CASE WriteLibrary
      <2>1. [diskCore EXCEPT !.lib = core.lib] \in Cores(Walls)
            BY <1>1, CoreFieldType
      <2>2. QED  BY <1>2, <1>3, <2>1, WriteCoreFileType DEF WriteLibrary
    <1>4. CASE WriteFavorites
      <2>1. [diskCore EXCEPT !.favs = core.favs] \in Cores(Walls)
            BY <1>1, CoreFieldType
      <2>2. QED  BY <1>2, <1>4, <2>1, WriteCoreFileType DEF WriteFavorites
    <1>5. CASE WriteWalls
      <2>1. [diskCore EXCEPT !.bag = core.bag] \in Cores(Walls)
            BY <1>1, CoreFieldType
      <2>2. QED  BY <1>2, <1>5, <2>1, WriteCoreFileType DEF WriteWalls
    <1>6. QED  BY <1>3, <1>4, <1>5

LEMMA WriteWallsIdxInductive ==
    ASSUME Inductive, WriteWallsIdx
    PROVE  Inductive'
    <1>1. /\ pc = "walls_idx" /\ diskCore' = [diskCore EXCEPT !.pos = core.pos]
          /\ UNCHANGED <<files, quarantined, stranded, core, layouts, diskLayouts, shown>>
          BY DEF WriteWallsIdx
    <1>2. diskCore' \in Cores(Walls)
          BY <1>1, CoreFieldType DEF Inductive, TypeOK, StoreType
    <1>3. UNCHANGED outer
          BY DEF WriteWallsIdx, Finish
    <1>4. StoreType'
          BY <1>1, <1>2, <1>3 DEF Inductive, TypeOK, StoreType
    <1>5. CASE resume = "draw"
      <2>1. pc' = "draw" /\ resume' = "idle" /\ UNCHANGED <<req, work, before, sel, healed, quar, pick>>
            BY <1>5 DEF WriteWallsIdx, opVars
      <2>2. RequestType'
            BY <2>1 DEF Inductive, TypeOK, RequestType, Steps, OpSteps
      <2>3. Ready'
            BY <1>1, <1>5, <2>1 DEF Inductive, Ready, RestReady, RequestReady, DrawReady, WindowReady, HealReady,
             StagedIsWindow, InDraw, InHeal, InInit, N, OpSteps, LayoutFiles, CoreFiles, PickSteps
      <2>4. QED  BY <1>4, <2>2, <2>3 DEF Inductive, TypeOK
    <1>6. CASE resume # "draw"
          BY <1>4, <1>6, FinishType DEF WriteWallsIdx, Inductive, TypeOK
    <1>7. QED  BY <1>5, <1>6

-----------------------------------------------------------------------------
(* Faults and the environment. *)

LEMMA CreateFileInductive ==
    ASSUME Inductive, NEW w \in Walls, CreateFile(w)
    PROVE  Inductive'
    <1>1. files' \subseteq Walls
          BY DEF CreateFile, Inductive, TypeOK, StoreType
    <1>2. /\ UNCHANGED <<quarantined, stranded, core, diskCore, layouts, diskLayouts, shown, pc, resume, outer>>
          /\ UNCHANGED <<req, work, before, sel, healed, quar, pick>>
          BY DEF CreateFile, opVars
    <1>3. StoreType'
          BY <1>1, <1>2 DEF Inductive, TypeOK, StoreType
    <1>4. RequestType'
          BY <1>2 DEF Inductive, TypeOK, RequestType
    <1>5. Ready'
          BY <1>2 DEF Inductive, Ready, RestReady, RequestReady, DrawReady, WindowReady, HealReady,
             StagedIsWindow, InDraw, InHeal, InInit, N, OpSteps, LayoutFiles, CoreFiles, PickSteps
    <1>6. QED  BY <1>3, <1>4, <1>5 DEF Inductive, TypeOK

LEMMA DeleteFileInductive ==
    ASSUME Inductive, NEW w \in Walls, DeleteFile(w)
    PROVE  Inductive'
    <1>1. files' \subseteq Walls
          BY DEF DeleteFile, Inductive, TypeOK, StoreType
    <1>2. /\ UNCHANGED <<quarantined, stranded, core, diskCore, layouts, diskLayouts, shown, pc, resume, outer>>
          /\ UNCHANGED <<req, work, before, sel, healed, quar, pick>>
          BY DEF DeleteFile, opVars
    <1>3. StoreType'
          BY <1>1, <1>2 DEF Inductive, TypeOK, StoreType
    <1>4. RequestType'
          BY <1>2 DEF Inductive, TypeOK, RequestType
    <1>5. Ready'
          BY <1>2 DEF Inductive, Ready, RestReady, RequestReady, DrawReady, WindowReady, HealReady,
             StagedIsWindow, InDraw, InHeal, InInit, N, OpSteps, LayoutFiles, CoreFiles, PickSteps
    <1>6. QED  BY <1>3, <1>4, <1>5 DEF Inductive, TypeOK

LEMMA ForgetInductive ==
    ASSUME Inductive, Forget, UNCHANGED <<files, quarantined, stranded, diskCore, diskLayouts>>
    PROVE  Inductive'
    <1>1. RequestType' /\ Ready'
          BY ResetOpType DEF Forget, Step0
    <1>2. EmptyCore \in Cores(Walls)
          BY EmptySeq DEF EmptyCore, Cores
    <1>3. outer'.req = NoReq /\ outer'.before = NoBefore /\ outer'.quar = NoQuar
          BY DEF Forget, NoOuter
    <1>4. outer'.req \in Req /\ BeforeOK(outer'.before, outer'.req) /\ outer'.quar \in Quar
          BY <1>3, NothingType
    <1>5. shown' \in [key : Keys \cup {NoWall}, walls : Seq(Walls)]
          BY NothingType DEF Forget
    <1>6. StoreType'
          BY <1>2, <1>4, <1>5 DEF Forget, Inductive, TypeOK, StoreType
    <1>7. QED  BY <1>1, <1>6 DEF Inductive, TypeOK

LEMMA WriteFailsInductive ==
    ASSUME Inductive, WriteFails
    PROVE  Inductive'
    <1>1. CASE Forget
          BY <1>1, ForgetInductive DEF WriteFails
    <1>2. CASE Fail /\ UNCHANGED <<core, shown>>
      <2>1. UNCHANGED <<files, quarantined, stranded, core, diskCore, diskLayouts, shown>>
            BY <1>2 DEF WriteFails
      <2>2. StoreType'
            BY <1>2, <2>1, FailType DEF Inductive, TypeOK, StoreType
      <2>3. QED  BY <1>2, <2>2, FailType DEF Inductive, TypeOK
    <1>3. CASE Finish /\ UNCHANGED <<core, shown, layouts>>
      <2>1. UNCHANGED <<files, quarantined, stranded, core, diskCore, layouts, diskLayouts, shown, outer>>
            BY <1>3 DEF WriteFails, Finish
      <2>2. StoreType'
            BY <2>1 DEF Inductive, TypeOK, StoreType
      <2>3. QED  BY <1>3, <2>2, FinishType DEF Inductive, TypeOK
    <1>4. QED  BY <1>1, <1>2, <1>3 DEF WriteFails

LEMMA RendererLostInductive ==
    ASSUME Inductive, RendererLost
    PROVE  Inductive'
    <1> DEFINE r == [NoReq EXCEPT !.kind = "startup", !.key = req.key]
               l == TakeLayout(req.key)
    <1>1. /\ pc = "render" /\ pc' = "init" /\ req' = r /\ work' = l /\ quar' = NoQuar /\ sel' = <<>>
          /\ UNCHANGED <<files, quarantined, stranded, core, diskLayouts, healed, pick, resume>>
          BY DEF RendererLost
    <1>2. req.key \in Keys
          BY <1>1, WorkType DEF OpSteps
    <1>3. r \in Req /\ r.key = req.key /\ r.kind = "startup" /\ r.index = 1
      <2>1. \A q \in Req, k \in Keys :
              LET p == [q EXCEPT !.kind = "startup", !.key = k]
              IN  p \in Req /\ p.key = k /\ p.kind = "startup" /\ p.index = q.index
            BY DEF Req, AllActions
      <2>2. NoReq \in Req /\ NoReq.index = 1
            BY NothingType DEF NoReq
      <2>3. QED  BY <2>1, <2>2, <1>2
    <1> HIDE DEF r
    <1>4. l \in LayoutFor(req.key)
          BY <1>2, TakeType DEF Inductive, TypeOK
    <1>5. before' = [layout |-> l, pos |-> core.pos, len |-> Len(core.bag)] /\ layouts' = [layouts EXCEPT ![req.key] = NoLayout]
          BY DEF RendererLost
    <1>6. core.pos \in Nat /\ Len(core.bag) \in Nat
          BY LenProperties DEF Inductive, TypeOK, StoreType, Cores
    <1> HIDE DEF l
    <1>7. BeforeOK(before', req')
          BY <1>1, <1>3, <1>4, <1>5, <1>6 DEF BeforeOK
    <1>8. diskCore' \in Cores(Walls)
          BY RescannedType, WallpaperAssumption DEF RendererLost, Inductive, TypeOK, StoreType
    <1>9. outer'.req \in Req /\ BeforeOK(outer'.before, outer'.req) /\ outer'.quar \in Quar
      <2>1. outer'.req = req /\ outer'.before = before /\ outer'.quar = quar
            BY DEF RendererLost
      <2>2. QED  BY <2>1 DEF Inductive, TypeOK, RequestType
    <1>10. /\ DOMAIN layouts' = Keys
           /\ \A k \in Keys : layouts'[k] = NoLayout \/ layouts'[k] \in LayoutFor(k)
          BY <1>5 DEF Inductive, TypeOK, StoreType
    <1>11. shown' \in [key : Keys \cup {NoWall}, walls : Seq(Walls)]
          BY NothingType DEF RendererLost
    <1>12. StoreType'
          BY <1>1, <1>8, <1>9, <1>10, <1>11 DEF Inductive, TypeOK, StoreType
    <1>13. RequestType'
          BY <1>1, <1>3, <1>4, <1>7, NothingType, EmptySeq DEF Inductive, TypeOK, RequestType, Steps, OpSteps
    <1>14. 1 <= OutCount[req.key]
          BY <1>2, OutCountType
    <1>15. Ready'
          BY <1>1, <1>2, <1>3, <1>14 DEF Favoring, Inductive, Ready, RestReady, RequestReady, DrawReady, WindowReady, HealReady,
             StagedIsWindow, InDraw, InHeal, InInit, N, OpSteps, LayoutFiles, CoreFiles, PickSteps
    <1>16. QED  BY <1>12, <1>13, <1>15 DEF Inductive, TypeOK

LEMMA UnwindInductive ==
    ASSUME Inductive, Unwind
    PROVE  Inductive'
    <1>1. /\ pc = "unwind" /\ pc' = "idle" /\ outer' = NoOuter
          /\ UNCHANGED <<diskCore, diskLayouts, shown, req, work, before, sel, healed, quar, pick, resume>>
          BY DEF Unwind, opVars
    <1>2. outer'.req = NoReq /\ outer'.before = NoBefore /\ outer'.quar = NoQuar
          BY <1>1 DEF NoOuter
    <1>3. outer'.req \in Req /\ BeforeOK(outer'.before, outer'.req) /\ outer'.quar \in Quar
          BY <1>2, NothingType
    <1>4. StoreType'
      <2>1. CASE outer.req.kind = "startup"
            BY <1>1, <1>3, <2>1 DEF Unwind, Inductive, TypeOK, StoreType
      <2>2. CASE outer.req.kind # "startup"
        <3>1. Rollback(outer.req, outer.before, outer.quar)
              BY <2>2 DEF Unwind
        <3>2. BeforeOK(outer.before, outer.req) /\ outer.quar \in Quar
              BY DEF Inductive, TypeOK, StoreType
        <3>3. QED  BY <1>1, <1>3, <3>1, <3>2, RollbackType DEF Inductive, TypeOK, StoreType
      <2>3. QED  BY <2>1, <2>2
    <1>5. RequestType'
          BY <1>1 DEF Inductive, TypeOK, RequestType, Steps
    <1>6. Ready'
          BY <1>1 DEF Inductive, Ready, RestReady, RequestReady, DrawReady, WindowReady, HealReady,
             StagedIsWindow, InDraw, InHeal, InInit, N, OpSteps, LayoutFiles, CoreFiles, PickSteps
    <1>7. QED  BY <1>4, <1>5, <1>6 DEF Inductive, TypeOK


-----------------------------------------------------------------------------
LEMMA NextInductive ==
    ASSUME Inductive, Next
    PROVE  Inductive'
    <1>1. CASE Request
          BY <1>1, PrepareInductive, PrepareFavoriteInductive, CurrentInductive, RescanInductive,
             AddTopLevelFileInductive DEF Request
    <1>2. CASE Step
      <2>1. CASE EnsureInitialized \/ EnsureWindow \/ Navigate \/ Replace \/ Heal \/ Stage
            BY <2>1, EnsureInitializedInductive, EnsureWindowInductive, NavigateInductive,
               ReplaceInductive, HealInductive, StageInductive
      <2>2. CASE PickStart \/ DrawRebuild \/ Draw \/ DrawDone
            BY <2>2, PickStartInductive, DrawRebuildInductive, DrawInductive, DrawDoneInductive
      <2>3. CASE RefuseMissing \/ RefuseWorld \/ MoveQuarantine \/ RenderOk \/ RenderFail \/ Favor
            BY <2>3, RefuseMissingInductive, RefuseWorldInductive, MoveQuarantineInductive,
               RenderOkInductive, RenderFailInductive, FavorInductive
      <2>4. CASE WriteHistory \/ WriteIndex \/ WriteOffset
            BY <2>4, WriteHistoryInductive, WriteIndexInductive, WriteOffsetInductive
      <2>5. CASE WriteLibrary \/ WriteFavorites \/ WriteWalls \/ WriteWallsIdx
            BY <2>5, WriteCoreInductive, WriteWallsIdxInductive
      <2>6. CASE Restart \/ Unwind
            BY <2>6, RestartInductive, UnwindInductive
      <2>7. QED  BY <1>2, <2>1, <2>2, <2>3, <2>4, <2>5, <2>6 DEF Step
    <1>3. CASE Fault
      <2>1. CASE Crash
            BY <2>1, ForgetInductive DEF Crash
      <2>2. CASE WriteFails \/ MoveFails \/ RendererLost
            BY <2>2, WriteFailsInductive, MoveFailsInductive, RendererLostInductive
      <2>3. CASE \E w \in Walls : CreateFile(w) \/ DeleteFile(w)
            BY <2>3, CreateFileInductive, DeleteFileInductive
      <2>4. CASE \E k \in Keys : RendererRestart(k)
            BY <2>4, RendererRestartInductive
      <2>5. QED  BY <1>3, <2>1, <2>2, <2>3, <2>4 DEF Fault
    <1>4. QED  BY <1>1, <1>2, <1>3 DEF Next

LEMMA StutterInductive ==
    ASSUME Inductive, UNCHANGED vars
    PROVE  Inductive'
    <1>1. StoreType'
          BY DEF vars, Inductive, TypeOK, StoreType
    <1>2. RequestType'
          BY DEF vars, Inductive, TypeOK, RequestType
    <1>3. Ready'
          BY DEF vars, Inductive, Ready, RestReady, RequestReady, DrawReady, WindowReady, HealReady,
             StagedIsWindow, InDraw, InHeal, InInit, N, OpSteps, LayoutFiles, CoreFiles, PickSteps
    <1>4. QED  BY <1>1, <1>2, <1>3 DEF Inductive, TypeOK

\* Every step of a request finds what it relies on, however the requests, the
\* shuffles, the files of the directory and the faults interleave.
THEOREM StepsAreReady == Spec => []Inductive
    <1>1. Init => Inductive
          BY InitInductive
    <1>2. Inductive /\ [Next]_vars => Inductive'
          BY NextInductive, StutterInductive
    <1>3. QED  BY <1>1, <1>2, PTL DEF Spec

\* Memory, state files and the request keep their types: no cursor, offset or
\* bag position is negative and no set on a tape has a wall too many or too few.
THEOREM TypeCorrect == Spec => []TypeOK
    <1>1. Inductive => TypeOK
          BY DEF Inductive
    <1>2. QED  BY <1>1, StepsAreReady, PTL

\* The renderer is only ever asked for the window that a success commits, with
\* one wall for each output.
THEOREM StagingIsFaithful == Spec => []StagedIsWindow
    <1>1. Inductive => StagedIsWindow
          BY DEF Inductive, Ready
    <1>2. QED  BY <1>1, StepsAreReady, PTL
=============================================================================
