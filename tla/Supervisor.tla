------------------------------ MODULE Supervisor ------------------------------
(***************************************************************************)
(* The supervisor's only thread: its loop, the public requests it serves,  *)
(* the renderer child it talks to over a socket pair, and what it does     *)
(* when that child dies, does not answer or does not start                 *)
(* (murald/src/supervisor.rs).                                             *)
(*                                                                         *)
(* restart_renderer is called from inside renderer_request, and restores   *)
(* the wallpapers with requests of its own, so calls nest without a bound: *)
(* stack holds the callers, innermost first.  Which wall comes next is     *)
(* the business of WallpaperControl; here a wallpaper action picks any.    *)
(***************************************************************************)
EXTENDS Naturals, Sequences, FiniteSets

CONSTANTS Clients,    \* each connects at most once
          Commands,   \* what clients ask: subset of {"ping", "health", "next", "set", "stop"}
          Images, NoImage,
          Faults,     \* subset of {"die", "timeout", "spawn", "refuse", "files", "unplug",
                      \* "power", "late"}
          MaxFaults   \* a fault of kind k happens only while fewer than MaxFaults[k] have

ASSUME SupervisorAssumption ==
    /\ MaxFaults \in [Faults -> Nat]
    /\ NoImage \notin Images
    /\ "none" \notin Clients

VARIABLES pc,           \* the supervisor's next step
          stack,        \* callers of renderer_request and restart_renderer
          outcome,      \* what the last such call returned
          renderer,     \* the generation in Supervisor.renderer, or 0
          restartCount,
          current,      \* the committed wall of the output
          serving,      \* the connection being handled
          queue,        \* connections not yet accepted
          answered,     \* clients that have their answer
          children,     \* each generation's process: "ready" once it has said so,
                        \* "running" once the supervisor has read that
          channel,      \* the socket pair of the last generation
          output,       \* the output of the last generation
          accepted,     \* the wall the last generation accepted last
          faults

supervisorVars == <<pc, stack, outcome, renderer, restartCount, current, serving>>
clientVars == <<queue, answered>>
rendererVars == <<children, channel, output, accepted>>
vars == <<supervisorVars, clientVars, rendererVars, faults>>

Health == [is |-> "health", image |-> NoImage]
Set(image) == [is |-> "set", image |-> image]
Requests == {Health} \cup {Set(image) : image \in Images}

\* An answer to health carries what the renderer knew of its output; skipped is
\* the Ack of a set whose outputs are all off.
OutputStates == [power : {"on", "off"}, egl : BOOLEAN, pending : BOOLEAN]
Report(o) == [is |-> "health", output |-> o]
NoOutput == [power |-> "on", egl |-> FALSE, pending |-> TRUE]
Answer(kind) == [is |-> kind, output |-> NoOutput]
Failed == Answer("failed")
Answers == [is : {"health", "ack", "skipped", "error", "failed"}, output : OutputStates]

NoOutcome == [answer |-> Failed, image |-> NoImage]
NoClient == [client |-> "none", command |-> "none"]
Closed == [requests |-> <<>>, answers |-> <<>>]

\* The places of renderer_request, of restart_renderer with all it does, and of the
\* loop, and where each procedure returns to.
InRequest == {"request", "ensured", "send", "await", "reported"}
InRestart == {"restart", "spawn", "spawned", "waitReady", "waitAnswer",
              "restore", "restorePlan", "restored"}
Loop == {"started", "ensure", "loopEnsured", "check", "checked", "accept",
         "plan", "mapped", "rendered", "answer", "stop", "exited"}
RequestReturns == {"restorePlan", "restored", "checked", "accept",
                   "plan", "mapped", "rendered", "answer"}
RestartReturns == {"ensured", "reported", "started", "loopEnsured", "accept"}

Frames == [to : RequestReturns \cup RestartReturns, request : Requests, image : Images \cup {NoImage}]

Generation == Len(children)
Alive == renderer # 0 /\ children[renderer] = "running"
IsHealth(answer) == answer.is = "health"
IsError(answer) == answer.is \in {"error", "failed"}
Renderable(o) == o.power = "on" /\ o.egl

MayFault(kind) == kind \in Faults /\ faults < MaxFaults[kind]
Fault(kind) == MayFault(kind) /\ faults' = faults + 1

TypeOK ==
    /\ pc \in InRequest \cup InRestart \cup Loop
    /\ stack \in Seq(Frames)
    /\ outcome \in [answer : Answers, image : Images \cup {NoImage}]
    /\ renderer \in 0..Generation
    /\ restartCount \in Nat
    /\ current \in Images \cup {NoImage}
    /\ serving \in [client : Clients \cup {"none"}, command : Commands \cup {"none"}]
    /\ queue \in Seq([client : Clients, command : Commands])
    /\ answered \subseteq Clients
    /\ children \in Seq({"starting", "ready", "running", "dead"})
    /\ channel \in [requests : Seq(Requests), answers : Seq(Answers)]
    /\ output \in OutputStates
    /\ accepted \in Images \cup {NoImage}
    /\ faults \in Nat

\* run_supervisor: the first generation is spawned before the loop starts.
Init ==
    /\ pc = "spawn"
    /\ stack = <<[to |-> "started", request |-> Health, image |-> NoImage]>>
    /\ outcome = NoOutcome
    /\ renderer = 0
    /\ restartCount = 0
    /\ current \in Images \cup {NoImage}
    /\ serving = NoClient
    /\ queue = <<>>
    /\ answered = {}
    /\ children = <<>>
    /\ channel = Closed
    /\ output = NoOutput
    /\ accepted = NoImage
    /\ faults = 0

-------------------------------------------------------------------------------
(* Calls.  A frame says where the caller continues, the request it makes and *)
(* the wall it has prepared.  What a call returned is a local of the caller: *)
(* it is gone with the next call or when the caller is done with it.         *)

Frame(to, request, image) == <<[to |-> to, request |-> request, image |-> image]>>

Call(label, to, request, image) ==
    /\ pc' = label
    /\ stack' = Frame(to, request, image) \o stack
    /\ outcome' = NoOutcome

CallRequest(to, request, image) == Call("request", to, request, image)
CallRestart(to) == Call("restart", to, Health, NoImage)

Return(answer) ==
    /\ pc' = Head(stack).to
    /\ stack' = Tail(stack)
    /\ outcome' = [answer |-> answer, image |-> Head(stack).image]

MovesTo(label) == pc' = label /\ outcome' = NoOutcome /\ UNCHANGED stack

\* Everything but the place in the program stays.
Keeps == UNCHANGED <<renderer, restartCount, current, serving,
                     clientVars, rendererVars, faults>>

-------------------------------------------------------------------------------
(* renderer_request *)

\* ensure_renderer: an exited child is replaced before the request is sent.
EnsureRenderer ==
    /\ pc = "request"
    /\ IF Alive
       THEN MovesTo("send")
       ELSE CallRestart("ensured")
    /\ Keeps

Ensured ==
    /\ pc = "ensured"
    /\ IF IsError(outcome.answer)
       THEN Return(Failed)
       ELSE MovesTo("send")
    /\ Keeps

\* A restart that succeeded may have lost its renderer again meanwhile.
SendWithoutRenderer ==
    /\ pc = "send" /\ renderer = 0
    /\ Return(Failed)
    /\ Keeps

Send ==
    /\ pc = "send" /\ Alive
    /\ channel' = [channel EXCEPT !.requests = Append(@, Head(stack).request)]
    /\ pc' = "await"
    /\ UNCHANGED <<stack, outcome, renderer, restartCount, current, serving,
                   clientVars, children, output, accepted, faults>>

SendFails ==
    /\ pc = "send" /\ renderer # 0 /\ ~Alive
    /\ CallRestart("reported")
    /\ Keeps

\* Mutant: an error answer is taken for a broken renderer.
Await_RestartsOnError ==
    /\ pc = "await" /\ channel.answers # <<>>
    /\ channel' = [channel EXCEPT !.answers = Tail(@)]
    /\ IF IsError(Head(channel.answers))
       THEN CallRestart("reported")
       ELSE Return(Head(channel.answers))
    /\ UNCHANGED <<renderer, restartCount, current, serving,
                   clientVars, children, output, accepted, faults>>

Await ==
    /\ pc = "await" /\ channel.answers # <<>>
    /\ channel' = [channel EXCEPT !.answers = Tail(@)]
    /\ Return(Head(channel.answers))
    /\ UNCHANGED <<renderer, restartCount, current, serving,
                   clientVars, children, output, accepted, faults>>

\* Mutant: a closed channel is no error.
AwaitFails_IgnoresEof ==
    /\ pc = "await" /\ channel.answers = <<>>
    /\ Fault("timeout")
    /\ CallRestart("reported")
    /\ UNCHANGED <<renderer, restartCount, current, serving,
                   clientVars, rendererVars>>

\* The control channel is closed, or the read timeout passes.
AwaitFails ==
    /\ pc = "await" /\ channel.answers = <<>>
    /\ \/ ~Alive /\ UNCHANGED faults
       \/ Fault("timeout")
    /\ CallRestart("reported")
    /\ UNCHANGED <<renderer, restartCount, current, serving,
                   clientVars, rendererVars>>

\* The request has failed whether or not the restart succeeded.
Reported ==
    /\ pc = "reported"
    /\ Return(Failed)
    /\ Keeps

-------------------------------------------------------------------------------
(* restart_renderer and spawn_renderer *)

\* Mutant: the handle of the process is dropped, which does not end it.
Killed_Dropped == children

Killed ==
    IF renderer = 0 THEN children ELSE [children EXCEPT ![renderer] = "dead"]

\* abort_then_kill returns when the child is gone.
Restart ==
    /\ pc = "restart"
    /\ renderer' = 0
    /\ children' = Killed
    /\ channel' = Closed
    /\ restartCount' = restartCount + 1
    /\ pc' = "spawn"
    /\ UNCHANGED <<stack, outcome, current, serving, clientVars, output, accepted, faults>>

Spawn ==
    /\ pc = "spawn"
    /\ children' = Append(children, "starting")
    /\ channel' = Closed
    /\ output' = NoOutput
    /\ accepted' = NoImage
    /\ pc' = "spawned"
    /\ UNCHANGED <<stack, outcome, renderer, restartCount, current, serving,
                   clientVars, faults>>

\* The child's first frame says that it is ready.
SpawnReady ==
    /\ pc = "spawned" /\ children[Generation] = "ready"
    /\ renderer' = Generation
    /\ children' = [children EXCEPT ![Generation] = "running"]
    /\ pc' = "waitReady"
    /\ UNCHANGED <<stack, outcome, restartCount, current, serving,
                   clientVars, channel, output, accepted, faults>>

\* The child exits or is silent for RENDERER_READY_TIMEOUT, even if it gets ready
\* at that moment: its socket is dropped, the process is not killed, and the
\* generation is used up.
SpawnFails ==
    /\ pc = "spawned"
    /\ \/ children[Generation] = "dead" /\ UNCHANGED faults
       \/ children[Generation] \in {"starting", "ready"} /\ Fault("spawn")
    /\ Return(Failed)
    /\ UNCHANGED <<renderer, restartCount, current, serving, clientVars, rendererVars>>

-------------------------------------------------------------------------------
(* wait_renderer_ready: health requests that never restart the renderer *)

WaitSend ==
    /\ pc = "waitReady" /\ Alive
    /\ channel' = [channel EXCEPT !.requests = Append(@, Health)]
    /\ pc' = "waitAnswer"
    /\ UNCHANGED <<stack, outcome, renderer, restartCount, current, serving,
                   clientVars, children, output, accepted, faults>>

WaitAnswer(next) ==
    /\ pc = "waitAnswer" /\ channel.answers # <<>>
    /\ channel' = [channel EXCEPT !.answers = Tail(@)]
    /\ pc' = next
    /\ UNCHANGED <<stack, outcome, renderer, restartCount, current, serving,
                   clientVars, children, output, accepted, faults>>

\* Ready, or not an answer to health, or the deadline has passed.
WaitDone == WaitAnswer("restore")

WaitAgain ==
    /\ WaitAnswer("waitReady")
    /\ IsHealth(Head(channel.answers))
    /\ ~Renderable(Head(channel.answers).output)

\* A lost child, or no answer within RENDERER_HEALTH_TIMEOUT: the renderer is
\* kept, and its answer may still come.
WaitFails ==
    /\ pc \in {"waitReady", "waitAnswer"}
    /\ pc = "waitAnswer" => channel.answers = <<>>
    /\ \/ ~Alive /\ UNCHANGED faults
       \/ pc = "waitAnswer" /\ Fault("late")
    /\ pc' = "restore"
    /\ UNCHANGED <<stack, outcome, renderer, restartCount, current, serving,
                   clientVars, rendererVars>>

-------------------------------------------------------------------------------
(* restore_current_wallpapers, the end of a restart and of the startup *)

Restore ==
    /\ pc = "restore"
    /\ CallRequest("restorePlan", Health, NoImage)
    /\ Keeps

\* The walls to restore: the current ones, or a first set.
Restorable == IF current = NoImage THEN Images ELSE {current}

\* No restore without health, or without files for the walls.
RestoreSkipped ==
    /\ pc = "restorePlan"
    /\ IF IsHealth(outcome.answer) THEN Fault("files") ELSE UNCHANGED faults
    /\ Return(Answer("ack"))
    /\ UNCHANGED <<renderer, restartCount, current, serving, clientVars, rendererVars>>

RestorePlan ==
    /\ pc = "restorePlan" /\ IsHealth(outcome.answer)
    /\ \E image \in Restorable : CallRequest("restored", Set(image), image)
    /\ Keeps

\* Mutant: the answer is not looked at.
Committed_AnyAnswer == outcome.image

\* commit_wallpaper_change on everything that is not an error.
Committed == IF IsError(outcome.answer) THEN current ELSE outcome.image

Restored ==
    /\ pc = "restored"
    /\ current' = Committed
    /\ Return(Answer("ack"))
    /\ UNCHANGED <<renderer, restartCount, serving, clientVars, rendererVars, faults>>

-------------------------------------------------------------------------------
(* run_loop *)

\* Without a first renderer the supervisor gives up; otherwise it sends READY.
Started ==
    /\ pc = "started"
    /\ MovesTo(IF IsError(outcome.answer) THEN "exited" ELSE "ensure")
    /\ Keeps

LoopEnsure ==
    /\ pc = "ensure"
    /\ IF Alive
       THEN MovesTo("check")
       ELSE CallRestart("loopEnsured")
    /\ Keeps

LoopEnsured ==
    /\ pc = "loopEnsured"
    /\ MovesTo(IF IsError(outcome.answer) THEN "exited" ELSE "check")
    /\ Keeps

\* maybe_restore_pending_renderer_surfaces, when its interval has not passed ...
SkipCheck ==
    /\ pc = "check"
    /\ MovesTo("accept")
    /\ Keeps

\* ... and when it has.
CheckPending ==
    /\ pc = "check"
    /\ CallRequest("checked", Health, NoImage)
    /\ Keeps

\* Mutant: the condition on the render state is negated.
IsTarget_NotRenderable(answer) ==
    IsHealth(answer) /\ answer.output.pending /\ ~Renderable(answer.output)

IsTarget(answer) ==
    IsHealth(answer) /\ answer.output.pending /\ Renderable(answer.output)

NothingPending ==
    /\ pc = "checked" /\ ~IsTarget(outcome.answer)
    /\ MovesTo("accept")
    /\ Keeps

\* restore_renderer_surfaces_from_health; its own answer is only logged.
FilesMissing ==
    /\ pc = "checked" /\ IsTarget(outcome.answer) /\ current # NoImage
    /\ Fault("files")
    /\ MovesTo("accept")
    /\ UNCHANGED <<renderer, restartCount, current, serving, clientVars, rendererVars>>

RestorePending ==
    /\ pc = "checked" /\ IsTarget(outcome.answer)
    /\ IF current = NoImage
       THEN Call("restore", "accept", Health, NoImage)
       ELSE CallRequest("accept", Set(current), current)
    /\ Keeps

\* accept_public_connections takes clients until none waits.
AcceptNone ==
    /\ pc = "accept" /\ queue = <<>>
    /\ MovesTo("ensure")
    /\ Keeps

\* handle_public_request: ping and stop are answered here, the others ask the
\* renderer first; an explicit set is forwarded and commits nothing.
Accept ==
    /\ pc = "accept" /\ queue # <<>>
    /\ serving' = Head(queue)
    /\ queue' = Tail(queue)
    /\ \/ serving'.command \in {"ping", "stop"} /\ MovesTo("answer")
       \/ serving'.command = "health" /\ CallRequest("answer", Health, NoImage)
       \/ serving'.command = "next" /\ CallRequest("plan", Health, NoImage)
       \/ /\ serving'.command = "set"
          /\ \E image \in Images : CallRequest("answer", Set(image), image)
    /\ UNCHANGED <<renderer, restartCount, current, answered, rendererVars, faults>>

\* handle_wallpaper_request and render_wallpaper_action up to the render: canvas
\* and world ask for health once more.
Plan ==
    /\ pc = "plan" /\ IsHealth(outcome.answer) /\ outcome.answer.output.power = "on"
    /\ \E image \in Images :
          \/ CallRequest("rendered", Set(image), image)
          \/ CallRequest("mapped", Health, image)
    /\ Keeps

Mapped ==
    /\ pc = "mapped" /\ IsHealth(outcome.answer)
    /\ CallRequest("rendered", Set(outcome.image), outcome.image)
    /\ Keeps

\* No health, all outputs off, nothing to show or a route without a cache.
NotRendered ==
    /\ pc \in {"plan", "mapped"}
    /\ MovesTo("answer")
    /\ Keeps

\* Commit, or roll back (which leaves the files of the layout as they are).
Rendered ==
    /\ pc = "rendered"
    /\ current' = Committed
    /\ MovesTo("answer")
    /\ UNCHANGED <<renderer, restartCount, serving, clientVars, rendererVars, faults>>

AnswerClient ==
    /\ pc = "answer"
    /\ answered' = answered \cup {serving.client}
    /\ serving' = NoClient
    /\ MovesTo(IF serving.command = "stop" THEN "stop" ELSE "accept")
    /\ UNCHANGED <<renderer, restartCount, current, queue, rendererVars, faults>>

\* stop_renderer
Stop ==
    /\ pc = "stop"
    /\ children' = Killed
    /\ renderer' = 0
    /\ channel' = Closed
    /\ pc' = "exited"
    /\ UNCHANGED <<stack, outcome, restartCount, current, serving, clientVars,
                   output, accepted, faults>>

Step ==
    \/ EnsureRenderer \/ Ensured \/ SendWithoutRenderer \/ Send \/ SendFails
    \/ Await \/ AwaitFails \/ Reported
    \/ Restart \/ Spawn \/ SpawnReady \/ SpawnFails
    \/ WaitSend \/ WaitDone \/ WaitAgain \/ WaitFails
    \/ Restore \/ RestorePlan \/ RestoreSkipped \/ Restored
    \/ Started \/ LoopEnsure \/ LoopEnsured \/ SkipCheck \/ CheckPending
    \/ NothingPending \/ FilesMissing \/ RestorePending \/ AcceptNone \/ Accept
    \/ Plan \/ Mapped \/ NotRendered \/ Rendered \/ AnswerClient \/ Stop

-------------------------------------------------------------------------------
(* The renderer child, as the supervisor sees it *)

Running == Generation > 0 /\ children[Generation] \in {"ready", "running"}

\* run_renderer reports ready once it has its surfaces and its event loop.  Once
\* the supervisor has given it up, write_frame fails and the child exits instead.
ChildReady ==
    /\ pc = "spawned" /\ children[Generation] = "starting"
    /\ children' = [children EXCEPT ![Generation] = "ready"]
    /\ UNCHANGED <<supervisorVars, clientVars, channel, output, accepted, faults>>

\* A child fails to start, exits or is killed by its driver.
ChildDies ==
    /\ \/ pc = "spawned" /\ children[Generation] = "starting" /\ Fault("spawn")
       \/ Running /\ (pc = "spawned" \/ Alive) /\ Fault("die")
    /\ children' = [children EXCEPT ![Generation] = "dead"]
    /\ UNCHANGED <<supervisorVars, clientVars, channel, output, accepted>>

\* A child that was given up finds its control socket closed, when it writes that
\* it is ready or when its event loop next polls (insert_renderer_control_source).
OrphanExits ==
    /\ \E g \in 1..Generation :
          /\ children[g] \in {"starting", "ready"}
          /\ g = Generation => pc # "spawned"
          /\ children' = [children EXCEPT ![g] = "dead"]
    /\ UNCHANGED <<supervisorVars, clientVars, channel, output, accepted, faults>>

Replies(answer) ==
    channel' = [requests |-> Tail(channel.requests),
                answers |-> Append(channel.answers, answer)]

ServeHealth ==
    /\ Running /\ channel.requests # <<>>
    /\ Head(channel.requests) = Health
    /\ Replies(Report(output))
    /\ UNCHANGED <<supervisorVars, clientVars, children, output, accepted, faults>>

\* set_wallpapers: skipped when all outputs are off, refused when one has no
\* EGL surface or the wall cannot be decoded or drawn.
ServeSet ==
    /\ Running /\ channel.requests # <<>>
    /\ Head(channel.requests) # Health
    /\ \/ /\ output.power = "off"
          /\ Replies(Answer("skipped"))
          /\ UNCHANGED <<output, accepted, faults>>
       \/ /\ output.power = "on" /\ ~output.egl
          /\ Replies(Answer("error"))
          /\ UNCHANGED <<output, accepted, faults>>
       \/ /\ Renderable(output) /\ Fault("refuse")
          /\ Replies(Answer("error"))
          /\ UNCHANGED <<output, accepted>>
       \/ /\ Renderable(output)
          /\ Replies(Answer("ack"))
          /\ output' = [output EXCEPT !.pending = FALSE]
          /\ accepted' = Head(channel.requests).image
          /\ UNCHANGED faults
    /\ UNCHANGED <<supervisorVars, clientVars, children>>

Serve == ServeHealth \/ ServeSet

OutputBecomes(new) ==
    /\ Running
    /\ output' = new
    /\ UNCHANGED <<supervisorVars, clientVars, children, channel, accepted>>

Configure == ~output.egl /\ OutputBecomes([output EXCEPT !.egl = TRUE]) /\ UNCHANGED faults
Replug == OutputBecomes(NoOutput) /\ output # NoOutput /\ Fault("unplug")
PowerOff == output.power = "on" /\ OutputBecomes([output EXCEPT !.power = "off"]) /\ Fault("power")
PowerOn == output.power = "off" /\ OutputBecomes([output EXCEPT !.power = "on"]) /\ UNCHANGED faults

Renderer ==
    \/ ChildReady \/ ChildDies \/ OrphanExits \/ Serve
    \/ Configure \/ Replug \/ PowerOff \/ PowerOn

-------------------------------------------------------------------------------
Waiting == {queue[i].client : i \in DOMAIN queue} \cup ({serving.client} \cap Clients)

Connect ==
    /\ pc # "exited"
    /\ \E c \in Clients \ (Waiting \cup answered), command \in Commands :
          queue' = Append(queue, [client |-> c, command |-> command])
    /\ UNCHANGED <<supervisorVars, answered, rendererVars, faults>>

Next == Step \/ Renderer \/ Connect

Spec == Init /\ [][Next]_vars

\* The supervisor runs and its timeouts pass; a child that is up answers; the
\* readiness deadline and the interval of the restore check are fixed times.
FairSpec ==
    /\ Spec
    /\ WF_vars(Step) /\ WF_vars(ChildReady) /\ WF_vars(Serve)
    /\ SF_vars(WaitDone) /\ SF_vars(CheckPending)

-------------------------------------------------------------------------------
(* What always holds between two steps *)

\* The frames nest as the calls do: a request is made by a restore or by the loop,
\* a restart by a request or by the loop.
Callers(label) ==
    IF label \in InRequest THEN RequestReturns ELSE RestartReturns

CallsNest ==
    /\ IF pc \in Loop
       THEN stack = <<>>
       ELSE stack # <<>> /\ stack[1].to \in Callers(pc)
    /\ \A i \in 1..Len(stack) :
          IF stack[i].to \in Loop
          THEN i = Len(stack)
          ELSE i < Len(stack) /\ stack[i + 1].to \in Callers(stack[i].to)

\* Who commits has asked for the wall it has prepared.
FramesPrepared ==
    /\ \A i \in 1..Len(stack) :
          /\ stack[i].to \in {"restored", "rendered"} => stack[i].request = Set(stack[i].image)
          /\ stack[i].to \in {"restored", "rendered", "mapped"} => stack[i].image \in Images
          /\ stack[i].to \in {"restorePlan", "checked", "plan", "mapped"} =>
                stack[i].request = Health
    /\ pc \in {"restored", "rendered", "mapped"} => outcome.image \in Images

\* A request of a client is only continued for a client.
Served == {"plan", "mapped", "rendered", "answer"}
ClientServed ==
    pc \in Served \/ (\E i \in 1..Len(stack) : stack[i].to \in Served)
        => serving.client \in Clients

\* A child that the supervisor has not taken, or has given up, has been asked for
\* nothing.
Unasked ==
    Generation > 0 /\ children[Generation] \in {"starting", "ready"} =>
        channel = Closed /\ accepted = NoImage

\* Only the supervisor's child runs, and it is of the last generation.
LastRuns ==
    /\ \A g \in 1..Generation : children[g] = "running" => g = renderer
    /\ pc \in {"spawn", "spawned"} => renderer = 0
    /\ pc = "spawned" => Generation > 0
    /\ renderer \in {0, Generation}
    /\ renderer # 0 => children[renderer] \in {"running", "dead"}

\* A restart that is due and not yet counted.
Due ==
    IF \/ pc = "restart"
       \/ pc = "spawned" /\ children[Generation] = "dead"
       \/ pc \notin {"spawn", "spawned", "exited"} /\ ~Alive
    THEN 1
    ELSE 0

\* Whether an answer may be the one to this request.
Answered(request, answer) ==
    IF request = Health
    THEN answer.is = "health"
    ELSE \/ answer.is \in {"error", "failed", "skipped"}
         \/ answer.is = "ack" /\ accepted = request.image

\* The request in the channel, or its answer, and nothing else.
Carries(request) ==
    \/ channel = [requests |-> <<request>>, answers |-> <<>>]
    \/ /\ channel.requests = <<>>
       /\ Len(channel.answers) = 1
       /\ Answered(request, channel.answers[1])

AnswersMatch ==
    /\ pc = "await" => Carries(stack[1].request)
    /\ pc = "waitAnswer" => Carries(Health)
    /\ pc \notin {"await", "waitAnswer", "restart"} /\ Alive => channel = Closed
    /\ pc \in {"spawn", "spawned"} => channel = Closed
    /\ pc \in {"restored", "rendered"} =>
          outcome.answer.is = "failed" \/ Answered(Set(outcome.image), outcome.answer)

\* A timed out readiness check leaves a request in the channel: then every later
\* answer is taken for the one to the next request.
Inductive ==
    /\ TypeOK
    /\ CallsNest
    /\ FramesPrepared
    /\ ClientServed
    /\ LastRuns
    /\ Unasked
    /\ restartCount + Due <= faults
    /\ "late" \notin Faults => AnswersMatch

-------------------------------------------------------------------------------
(* Properties *)

\* A wall becomes current only when the living generation was asked for it and
\* accepted it, or skipped it because the output is off: the answer taken for a
\* request is the answer to that request (render_prepared_change and commit).
CommitsAreAccepted ==
    [][current' # current =>
         accepted = current' \/ outcome.answer.is = "skipped"]_vars

\* Two renderers never draw at the same time: a generation is taken only after the
\* one before it is gone, and one that was given up, although it may have got
\* ready meanwhile, is asked for nothing (restart_renderer, abort_then_kill,
\* RendererProcess::spawn).
OneRendererDraws ==
    /\ Cardinality({g \in DOMAIN children : children[g] = "running"}) <= 1
    /\ Running /\ accepted # NoImage => renderer = Generation

\* Every restart has its own fault: a lost renderer is replaced once, although its
\* loss shows in several places (ensure_renderer, renderer_request, the loop), and
\* a refused request costs no renderer.
RestartsAreCaused == restartCount <= faults

\* Every client that connected is answered, whatever happens to the renderer
\* under its request, unless the supervisor itself gives up or stops.
EveryClientAnswered ==
    \A c \in Clients : c \in Waiting ~> (c \in answered \/ pc = "exited")

\* An output that is new, or belongs to a new renderer, does not stay blank: once it
\* can be drawn on, the loop restores its wall unless it is lost again.
Blank == pc # "exited" /\ Alive /\ output.pending /\ Renderable(output)
BlankIsRestored == Blank ~> ~Blank
=============================================================================
