--------------------------- MODULE SupervisorProofs ---------------------------
(***************************************************************************)
(* Proofs about Supervisor for any clients, walls, commands, kinds and     *)
(* number of faults, and however deep restarts nest inside requests.       *)
(***************************************************************************)
EXTENDS Supervisor, FiniteSetTheorems, TLAPS

Labels == InRequest \cup InRestart \cup Loop
Prepared == {"restored", "rendered", "mapped"}

-----------------------------------------------------------------------------
(* Calls and returns *)

LEMMA PushFrame ==
    ASSUME NEW s \in Seq(Frames), NEW f \in Frames
    PROVE  /\ <<f>> \o s \in Seq(Frames)
           /\ Len(<<f>> \o s) = Len(s) + 1
           /\ (<<f>> \o s)[1] = f
           /\ \A i \in 1..Len(s) : (<<f>> \o s)[i + 1] = s[i]
           /\ \A i \in 2..(Len(s) + 1) : (<<f>> \o s)[i] = s[i - 1]
    OBVIOUS

LEMMA PopFrame ==
    ASSUME NEW s \in Seq(Frames), s # <<>>
    PROVE  /\ Head(s) = s[1] /\ s[1] \in Frames
           /\ Len(s) \in Nat \ {0}
           /\ Tail(s) \in Seq(Frames)
           /\ Len(Tail(s)) = Len(s) - 1
           /\ \A i \in 1..(Len(s) - 1) : Tail(s)[i] = s[i + 1]
    OBVIOUS

\* What the invariant says of the place in the program.
ControlType ==
    /\ pc \in Labels
    /\ stack \in Seq(Frames)
    /\ outcome \in [answer : Answers, image : Images \cup {NoImage}]
Control == ControlType /\ CallsNest /\ FramesPrepared

LEMMA AnswerTypes ==
    /\ Failed \in Answers /\ Answer("ack") \in Answers
    /\ Answer("error") \in Answers /\ Answer("skipped") \in Answers
    /\ NoOutput \in OutputStates
    /\ NoOutcome \in [answer : Answers, image : Images \cup {NoImage}]
    /\ Health \in Requests
    /\ \A image \in Images : Set(image) \in Requests
    BY DEF Failed, Answer, Answers, NoOutput, OutputStates, NoOutcome, Requests

\* A step within the same procedure.
LEMMA ControlMove ==
    ASSUME Control, stack' = stack, outcome' \in {outcome, NoOutcome},
           pc' \in Labels \ Prepared,
           (pc \in Loop) <=> (pc' \in Loop),
           (pc \in InRequest) <=> (pc' \in InRequest)
    PROVE  Control'
    <1>1. ControlType'
          BY AnswerTypes DEF Control, ControlType, Labels
    <1>2. CallsNest'
          BY DEF Control, CallsNest, Callers
    <1>3. FramesPrepared'
          BY DEF Control, FramesPrepared, Prepared
    <1>4. QED  BY <1>1, <1>2, <1>3 DEF Control

\* A call: the procedure that starts may be called from where it returns to, and the
\* caller goes on in its own procedure.
LEMMA ControlPush ==
    ASSUME Control, NEW to, NEW request \in Requests, NEW image \in Images \cup {NoImage},
           stack' = Frame(to, request, image) \o stack, outcome' \in {outcome, NoOutcome},
           pc' \in Labels \ (Prepared \cup Loop),
           to \in Callers(pc'),
           (pc \in Loop) <=> (to \in Loop),
           (pc \in InRequest) <=> (to \in InRequest),
           to \in {"restored", "rendered"} => request = Set(image),
           to \in Prepared => image \in Images,
           to \in {"restorePlan", "checked", "plan", "mapped"} => request = Health
    PROVE  Control'
    <1> DEFINE f == [to |-> to, request |-> request, image |-> image]
    <1>1. f \in Frames
          BY DEF Frames, Callers
    <1>2. /\ stack' \in Seq(Frames) /\ Len(stack') = Len(stack) + 1 /\ stack'[1] = f
          /\ \A i \in 1..Len(stack) : stack'[i + 1] = stack[i]
          /\ \A i \in 2..(Len(stack) + 1) : stack'[i] = stack[i - 1]
          BY <1>1, PushFrame DEF Frame, Control, ControlType
    <1>3. Len(stack) \in Nat /\ (stack = <<>> <=> Len(stack) = 0)
          BY DEF Control, ControlType
    <1>4. ControlType'
          BY <1>2, AnswerTypes DEF Control, ControlType, Labels
    <1>5. CallsNest'
      <2>1. stack' # <<>> /\ stack'[1].to \in Callers(pc') /\ pc' \notin Loop
            BY <1>2, <1>3
      <2>2. ASSUME NEW i \in 1..Len(stack')
            PROVE  IF stack'[i].to \in Loop
                   THEN i = Len(stack')
                   ELSE i < Len(stack') /\ stack'[i + 1].to \in Callers(stack'[i].to)
        <3>1. CASE i = 1 /\ to \in Loop
              BY <3>1, <1>2, <1>3 DEF Control, CallsNest
        <3>2. CASE i = 1 /\ to \notin Loop
          <4>1. pc \notin Loop /\ stack # <<>> /\ stack[1].to \in Callers(pc)
                BY <3>2 DEF Control, CallsNest
          <4>2. Callers(pc) = Callers(to)
                BY DEF Callers
          <4>3. stack'[2] = stack[1]
                BY <4>1, <1>2, <1>3
          <4>4. QED  BY <3>2, <4>1, <4>2, <4>3, <1>2, <1>3
        <3>3. CASE i # 1
          <4>1. /\ i - 1 \in 1..Len(stack) /\ stack'[i] = stack[i - 1]
                /\ i - 1 < Len(stack) => stack'[i + 1] = stack[(i - 1) + 1]
                BY <3>3, <1>2, <1>3
          <4>2. IF stack[i - 1].to \in Loop
                THEN i - 1 = Len(stack)
                ELSE i - 1 < Len(stack) /\ stack[(i - 1) + 1].to \in Callers(stack[i - 1].to)
                BY <4>1 DEF Control, CallsNest
          <4>3. QED  BY <4>1, <4>2, <1>2, <1>3
        <3>4. QED  BY <3>1, <3>2, <3>3
      <2>3. QED  BY <2>1, <2>2 DEF CallsNest
    <1>6. FramesPrepared'
      <2>1. ASSUME NEW i \in 1..Len(stack')
            PROVE  /\ stack'[i].to \in {"restored", "rendered"} =>
                         stack'[i].request = Set(stack'[i].image)
                   /\ stack'[i].to \in {"restored", "rendered", "mapped"} =>
                         stack'[i].image \in Images
                   /\ stack'[i].to \in {"restorePlan", "checked", "plan", "mapped"} =>
                         stack'[i].request = Health
        <3>1. CASE i = 1
              BY <3>1, <1>2 DEF Prepared
        <3>2. CASE i # 1
          <4>1. i - 1 \in 1..Len(stack) /\ stack'[i] = stack[i - 1]
                BY <3>2, <1>2, <1>3
          <4>2. QED  BY <4>1 DEF Control, FramesPrepared
        <3>3. QED  BY <3>1, <3>2
      <2>2. QED  BY <2>1 DEF FramesPrepared, Prepared, Set, Health
    <1>7. QED  BY <1>4, <1>5, <1>6 DEF Control

\* A return, with any answer.
LEMMA ControlPop ==
    ASSUME Control, pc \notin Loop, NEW answer \in Answers, Return(answer)
    PROVE  /\ Control'
           /\ pc' = stack[1].to /\ outcome' = [answer |-> answer, image |-> stack[1].image]
           /\ stack[1] \in Frames
           /\ stack[1].to \in Callers(pc)
    <1>1. stack # <<>> /\ stack[1].to \in Callers(pc) /\ stack \in Seq(Frames)
          BY DEF Control, ControlType, CallsNest
    <1>2. /\ Head(stack) = stack[1] /\ stack[1] \in Frames
          /\ Len(stack) \in Nat \ {0}
          /\ stack' \in Seq(Frames) /\ Len(stack') = Len(stack) - 1
          /\ \A i \in 1..(Len(stack) - 1) : stack'[i] = stack[i + 1]
          BY <1>1, PopFrame DEF Return
    <1>3. pc' = stack[1].to /\ outcome' = [answer |-> answer, image |-> stack[1].image]
          BY <1>2 DEF Return
    <1>4. 1 \in 1..Len(stack)
          BY <1>2
    <1>5. ControlType'
      <2>1. stack[1].to \in Labels /\ stack[1].image \in Images \cup {NoImage}
            BY <1>2
               DEF Frames, Labels, RequestReturns, RestartReturns, InRequest, InRestart, Loop
      <2>2. QED  BY <2>1, <1>2, <1>3 DEF ControlType, Labels
    <1>6. CallsNest'
      <2>1. CASE pc' \in Loop
        <3>1. Len(stack) = 1
              BY <2>1, <1>3, <1>4 DEF Control, CallsNest
        <3>2. stack' = <<>>
              BY <3>1, <1>2
        <3>3. QED  BY <3>2, <2>1 DEF CallsNest
      <2>2. CASE pc' \notin Loop
        <3>1. 1 < Len(stack) /\ stack[2].to \in Callers(stack[1].to)
              BY <2>2, <1>3, <1>4 DEF Control, CallsNest
        <3>2. stack' # <<>> /\ stack'[1].to \in Callers(pc')
              BY <3>1, <1>2, <1>3
        <3>3. ASSUME NEW i \in 1..Len(stack')
              PROVE  IF stack'[i].to \in Loop
                     THEN i = Len(stack')
                     ELSE i < Len(stack') /\ stack'[i + 1].to \in Callers(stack'[i].to)
          <4>1. i \in 1..(Len(stack) - 1) /\ i + 1 \in 1..Len(stack) /\ stack'[i] = stack[i + 1]
                BY <1>2
          <4>2. IF stack[i + 1].to \in Loop
                THEN i + 1 = Len(stack)
                ELSE i + 1 < Len(stack) /\ stack[(i + 1) + 1].to \in Callers(stack[i + 1].to)
                BY <4>1 DEF Control, CallsNest
          <4>3. i + 1 < Len(stack) => stack'[i + 1] = stack[(i + 1) + 1]
                BY <1>2
          <4>4. QED  BY <4>1, <4>2, <4>3, <1>2
        <3>4. QED  BY <2>2, <3>2, <3>3 DEF CallsNest
      <2>3. QED  BY <2>1, <2>2
    <1>7. FramesPrepared'
      <2>1. pc' \in Prepared => outcome'.image \in Images
            BY <1>3, <1>4 DEF Control, FramesPrepared, Prepared
      <2>2. ASSUME NEW i \in 1..Len(stack')
            PROVE  i + 1 \in 1..Len(stack) /\ stack'[i] = stack[i + 1]
            BY <1>2
      <2>3. QED  BY <2>1, <2>2 DEF Control, FramesPrepared, Prepared, Set, Health
    <1>8. QED  BY <1>1, <1>2, <1>3, <1>5, <1>6, <1>7 DEF Control

-----------------------------------------------------------------------------
(* Every step of the supervisor keeps the place in the program well formed. *)

WorldType ==
    /\ renderer \in 0..Generation
    /\ restartCount \in Nat
    /\ current \in Images \cup {NoImage}
    /\ serving \in [client : Clients \cup {"none"}, command : Commands \cup {"none"}]
    /\ queue \in Seq([client : Clients, command : Commands])
    /\ answered \subseteq Clients
    /\ children \in Seq({"starting", "ready", "running", "dead"})
    /\ channel \in [requests : Seq(Requests), answers : Seq(Answers)]
    /\ output \in OutputStates
    /\ accepted \in Images \cup {NoImage}
    /\ faults \in Nat

LEMMA TypeSplit == TypeOK <=> ControlType /\ WorldType
    BY DEF TypeOK, ControlType, WorldType, Labels

LEMMA RequestControl ==
    ASSUME Control, WorldType,
           EnsureRenderer \/ Ensured \/ SendWithoutRenderer \/ Send \/ SendFails
           \/ Await \/ AwaitFails \/ Reported
    PROVE  Control'
    <1> USE DEF Labels, InRequest, InRestart, Loop, Prepared
    <1>1. CASE EnsureRenderer
          BY <1>1, ControlMove, ControlPush, AnswerTypes
             DEF EnsureRenderer, CallRequest, Call, CallRestart, Callers, RequestReturns,
                 RestartReturns, MovesTo, Keeps
    <1>2. CASE Ensured
      <2>1. CASE IsError(outcome.answer)
            BY <1>2, <2>1, ControlPop, AnswerTypes DEF Ensured
      <2>2. CASE ~IsError(outcome.answer)
            BY <1>2, <2>2, ControlMove DEF Ensured, MovesTo
      <2>3. QED  BY <2>1, <2>2
    <1>3. CASE SendWithoutRenderer
          BY <1>3, ControlPop, AnswerTypes DEF SendWithoutRenderer, Keeps, MovesTo
    <1>4. CASE Send
          BY <1>4, ControlMove DEF Send, MovesTo, Keeps
    <1>5. CASE SendFails
          BY <1>5, ControlPush, AnswerTypes
             DEF SendFails, CallRequest, Call, CallRestart, Callers, RequestReturns,
                 RestartReturns, MovesTo, Keeps
    <1>6. CASE Await
      <2>1. Head(channel.answers) \in Answers
            BY <1>6 DEF Await, WorldType
      <2>2. QED  BY <1>6, <2>1, ControlPop DEF Await
    <1>7. CASE AwaitFails
          BY <1>7, ControlPush, AnswerTypes
             DEF AwaitFails, CallRequest, Call, CallRestart, Callers, RequestReturns,
                 RestartReturns, MovesTo, Keeps
    <1>8. CASE Reported
          BY <1>8, ControlPop, AnswerTypes DEF Reported, Keeps, MovesTo
    <1>9. QED  BY <1>1, <1>2, <1>3, <1>4, <1>5, <1>6, <1>7, <1>8

LEMMA RestartControl ==
    ASSUME Control, WorldType,
           Restart \/ Spawn \/ SpawnReady \/ SpawnFails
           \/ WaitSend \/ WaitDone \/ WaitAgain \/ WaitFails
           \/ Restore \/ RestorePlan \/ RestoreSkipped \/ Restored
    PROVE  Control'
    <1> USE DEF Labels, InRequest, InRestart, Loop, Prepared
    <1>1. CASE Restart
          BY <1>1, ControlMove DEF Restart, MovesTo, Keeps
    <1>2. CASE Spawn
          BY <1>2, ControlMove DEF Spawn, MovesTo, Keeps
    <1>3. CASE SpawnReady
          BY <1>3, ControlMove DEF SpawnReady, MovesTo, Keeps
    <1>4. CASE SpawnFails
          BY <1>4, ControlPop, AnswerTypes DEF SpawnFails, Keeps, MovesTo
    <1>5. CASE WaitSend
          BY <1>5, ControlMove DEF WaitSend, MovesTo, Keeps
    <1>6. CASE WaitDone
          BY <1>6, ControlMove DEF WaitDone, MovesTo, Keeps, WaitAnswer
    <1>7. CASE WaitAgain
          BY <1>7, ControlMove DEF WaitAgain, MovesTo, Keeps, WaitAnswer
    <1>8. CASE WaitFails
          BY <1>8, ControlMove DEF WaitFails, MovesTo, Keeps
    <1>9. CASE Restore
          BY <1>9, ControlPush, AnswerTypes
             DEF Restore, CallRequest, Call, CallRestart, Callers, RequestReturns,
                 RestartReturns, MovesTo, Keeps
    <1>10. CASE RestorePlan
      <2>1. PICK image \in Restorable : CallRequest("restored", Set(image), image)
            BY <1>10 DEF RestorePlan
      <2>2. image \in Images
            BY <2>1 DEF Restorable, WorldType
      <2>3. QED  BY <1>10, <2>1, <2>2, ControlPush, AnswerTypes
                    DEF RestorePlan, CallRequest, Call, Callers, RequestReturns, RestartReturns
    <1>11. CASE RestoreSkipped \/ Restored
          BY <1>11, ControlPop, AnswerTypes DEF RestoreSkipped, Restored
    <1>12. QED  BY <1>1, <1>2, <1>3, <1>4, <1>5, <1>6, <1>7, <1>8, <1>9, <1>10, <1>11

LEMMA LoopControl ==
    ASSUME Control, WorldType,
           Started \/ LoopEnsure \/ LoopEnsured \/ SkipCheck \/ CheckPending
           \/ NothingPending \/ FilesMissing \/ RestorePending \/ AcceptNone \/ Accept
           \/ Plan \/ Mapped \/ NotRendered \/ Rendered \/ AnswerClient \/ Stop
    PROVE  Control'
    <1> USE DEF Labels, InRequest, InRestart, Loop, Prepared
    <1>1. CASE Started
          BY <1>1, ControlMove DEF Started, MovesTo, Keeps
    <1>2. CASE LoopEnsure
          BY <1>2, ControlMove, ControlPush, AnswerTypes
             DEF LoopEnsure, CallRequest, Call, CallRestart, Callers, RequestReturns,
                 RestartReturns, MovesTo, Keeps
    <1>3. CASE LoopEnsured
          BY <1>3, ControlMove DEF LoopEnsured, MovesTo, Keeps
    <1>4. CASE SkipCheck
          BY <1>4, ControlMove DEF SkipCheck, MovesTo, Keeps
    <1>5. CASE CheckPending
          BY <1>5, ControlPush, AnswerTypes
             DEF CheckPending, CallRequest, Call, CallRestart, Callers, RequestReturns,
                 RestartReturns, MovesTo, Keeps
    <1>6. CASE NothingPending \/ FilesMissing
          BY <1>6, ControlMove DEF NothingPending, FilesMissing, MovesTo
    <1>7. CASE RestorePending
      <2>1. CASE current = NoImage
            BY <1>7, <2>1, ControlPush, AnswerTypes
               DEF RestorePending, Call, Callers, RequestReturns, RestartReturns
      <2>2. CASE current # NoImage
        <3>1. current \in Images
              BY <2>2 DEF WorldType
        <3>2. CallRequest("accept", Set(current), current) /\ pc = "checked"
              BY <1>7, <2>2 DEF RestorePending
        <3>3. QED  BY <3>1, <3>2, ControlPush, AnswerTypes
                      DEF CallRequest, Call, Callers, RequestReturns, RestartReturns, MovesTo
      <2>3. QED  BY <2>1, <2>2
    <1>8. CASE AcceptNone
          BY <1>8, ControlMove DEF AcceptNone, MovesTo, Keeps
    <1>9. CASE Accept
      <2>1. CASE MovesTo("answer")
            BY <1>9, <2>1, ControlMove DEF Accept, MovesTo
      <2>2. CASE CallRequest("answer", Health, NoImage) \/ CallRequest("plan", Health, NoImage)
            BY <1>9, <2>2, ControlPush, AnswerTypes
               DEF Accept, CallRequest, Call, Callers, RequestReturns, RestartReturns, MovesTo
      <2>3. CASE \E image \in Images : CallRequest("answer", Set(image), image)
            BY <1>9, <2>3, ControlPush, AnswerTypes
               DEF Accept, CallRequest, Call, Callers, RequestReturns, RestartReturns, MovesTo
      <2>4. QED  BY <1>9, <2>1, <2>2, <2>3 DEF Accept
    <1>10. CASE Plan
      <2>1. PICK image \in Images :
                  \/ CallRequest("rendered", Set(image), image)
                  \/ CallRequest("mapped", Health, image)
            BY <1>10 DEF Plan
      <2>2. QED  BY <1>10, <2>1, ControlPush, AnswerTypes
                    DEF Plan, CallRequest, Call, Callers, RequestReturns, RestartReturns
    <1>11. CASE Mapped
      <2>1. outcome.image \in Images
            BY <1>11 DEF Mapped, Control, FramesPrepared
      <2>2. QED  BY <1>11, <2>1, ControlPush, AnswerTypes
                    DEF Mapped, CallRequest, Call, Callers, RequestReturns, RestartReturns
    <1>12. CASE NotRendered \/ Rendered
          BY <1>12, ControlMove DEF NotRendered, Rendered, MovesTo, Keeps
    <1>13. CASE AnswerClient
          BY <1>13, ControlMove DEF AnswerClient, MovesTo, Keeps
    <1>14. CASE Stop
          BY <1>14, ControlMove DEF Stop, MovesTo, Keeps
    <1>15. QED  BY <1>1, <1>2, <1>3, <1>4, <1>5, <1>6, <1>7, <1>8, <1>9, <1>10, <1>11, <1>12,
                   <1>13, <1>14

\* The renderer, its output and the clients do not touch it.
LEMMA OthersControl ==
    ASSUME Control, UNCHANGED supervisorVars
    PROVE  Control'
    BY DEF Control, ControlType, CallsNest, FramesPrepared, supervisorVars

LEMMA OthersKeep ==
    ASSUME Renderer \/ Connect
    PROVE  UNCHANGED supervisorVars
    BY DEF Renderer, Connect, ChildReady, ChildDies, OrphanExits, Serve, ServeHealth, ServeSet,
           Configure, Replug, PowerOff, PowerOn, OutputBecomes

LEMMA ControlStep ==
    ASSUME Control, WorldType, [Next]_vars
    PROVE  Control'
    <1>1. CASE Step
          BY <1>1, RequestControl, RestartControl, LoopControl DEF Step
    <1>2. CASE Renderer \/ Connect
          BY <1>2, OthersControl, OthersKeep
    <1>3. CASE UNCHANGED vars
          BY <1>3, OthersControl DEF vars
    <1>4. QED  BY <1>1, <1>2, <1>3 DEF Next

-----------------------------------------------------------------------------
(* Types of what the steps change besides the place in the program *)

States == {"starting", "ready", "running", "dead"}

LEMMA ChangeChild ==
    ASSUME NEW s \in Seq(States), NEW g \in 1..Len(s), NEW state \in States
    PROVE  /\ [s EXCEPT ![g] = state] \in Seq(States)
           /\ Len([s EXCEPT ![g] = state]) = Len(s)
           /\ [s EXCEPT ![g] = state][g] = state
           /\ \A h \in 1..Len(s) : h # g => [s EXCEPT ![g] = state][h] = s[h]
    OBVIOUS

LEMMA AddChild ==
    ASSUME NEW s \in Seq(States), NEW state \in States
    PROVE  /\ Append(s, state) \in Seq(States)
           /\ Len(Append(s, state)) = Len(s) + 1
           /\ Append(s, state)[Len(s) + 1] = state
           /\ \A h \in 1..Len(s) : Append(s, state)[h] = s[h]
    OBVIOUS

Channels == [requests : Seq(Requests), answers : Seq(Answers)]

LEMMA ChannelChanges ==
    ASSUME NEW c \in Channels
    PROVE  /\ c.answers # <<>> => [c EXCEPT !.answers = Tail(@)] \in Channels
           /\ \A r \in Requests : [c EXCEPT !.requests = Append(@, r)] \in Channels
           /\ c.requests # <<>> =>
                \A x \in Answers : [requests |-> Tail(c.requests),
                                    answers |-> Append(c.answers, x)] \in Channels
           /\ Closed \in Channels
    <1>1. Closed \in Channels
          BY DEF Closed, Channels
    <1>2. c.requests \in Seq(Requests) /\ c.answers \in Seq(Answers)
          BY DEF Channels
    <1>3. c.answers # <<>> => Tail(c.answers) \in Seq(Answers)
          BY <1>2
    <1>4. \A r \in Requests : Append(c.requests, r) \in Seq(Requests)
          BY <1>2
    <1>5. \A q \in Seq(Requests) : [c EXCEPT !.requests = q] \in Channels
          BY DEF Channels
    <1>6. \A q \in Seq(Answers) : [c EXCEPT !.answers = q] \in Channels
          BY DEF Channels
    <1>7. c.requests # <<>> => Tail(c.requests) \in Seq(Requests)
          BY <1>2
    <1>8. \A x \in Answers : Append(c.answers, x) \in Seq(Answers)
          BY <1>2
    <1>9. ASSUME NEW q \in Seq(Requests), NEW x \in Seq(Answers)
          PROVE  [requests |-> q, answers |-> x] \in Channels
          BY DEF Channels
    <1>10. QED  BY <1>1, <1>3, <1>4, <1>5, <1>6, <1>7, <1>8, <1>9

LEMMA KilledType ==
    ASSUME WorldType
    PROVE  /\ Killed \in Seq(States) /\ Len(Killed) = Generation
           /\ renderer # 0 => Killed[renderer] = "dead"
           /\ \A g \in 1..Generation : g # renderer => Killed[g] = children[g]
    <1>1. children \in Seq(States) /\ Generation \in Nat /\ renderer \in 0..Generation
          BY DEF WorldType, States, Generation
    <1>2. CASE renderer = 0
          BY <1>1, <1>2 DEF Killed, Generation
    <1>3. CASE renderer # 0
          BY <1>1, <1>3, ChangeChild DEF Killed, Generation, States
    <1>4. QED  BY <1>2, <1>3

\* Steps that leave processes, channel and output alone.
LEMMA WorldKept ==
    ASSUME WorldType, UNCHANGED <<renderer, restartCount, rendererVars, faults>>,
           current' \in Images \cup {NoImage},
           serving' \in [client : Clients \cup {"none"}, command : Commands \cup {"none"}],
           queue' \in Seq([client : Clients, command : Commands]),
           answered' \subseteq Clients
    PROVE  WorldType'
    BY DEF WorldType, rendererVars, Generation

LEMMA FaultType ==
    ASSUME WorldType, NEW kind, Fault(kind)
    PROVE  faults' \in Nat /\ faults' = faults + 1 /\ faults \in Nat
    BY SupervisorAssumption DEF WorldType, Fault, MayFault

LEMMA RequestWorld ==
    ASSUME Control, WorldType,
           EnsureRenderer \/ Ensured \/ SendWithoutRenderer \/ Send \/ SendFails
           \/ Await \/ AwaitFails \/ Reported
    PROVE  WorldType'
    <1>1. CASE EnsureRenderer \/ Ensured \/ SendWithoutRenderer \/ SendFails \/ Reported
      <2>1. UNCHANGED <<renderer, restartCount, current, serving, clientVars, rendererVars, faults>>
            BY <1>1
               DEF EnsureRenderer, Ensured, SendWithoutRenderer, SendFails, Reported, MovesTo,
                   Keeps
      <2>2. QED  BY <2>1 DEF WorldType, clientVars, rendererVars, Generation
    <1>2. CASE Send
      <2>1. Head(stack).request \in Requests
        <3>1. stack \in Seq(Frames) /\ stack # <<>>
              BY <1>2 DEF Send, Control, ControlType, CallsNest, Loop
        <3>2. Head(stack) \in Frames
              BY <3>1, PopFrame
        <3>3. QED  BY <3>2 DEF Frames
      <2>2. channel' \in Channels
            BY <1>2, <2>1, ChannelChanges DEF Send, WorldType, Channels
      <2>3. QED  BY <1>2, <2>2 DEF Send, WorldType, Channels, clientVars, Generation
    <1>3. CASE Await
      <2>1. channel' \in Channels
            BY <1>3, ChannelChanges DEF Await, WorldType, Channels
      <2>2. QED  BY <1>3, <2>1 DEF Await, WorldType, Channels, clientVars, Generation
    <1>4. CASE AwaitFails
      <2>1. faults' \in Nat
            BY <1>4, FaultType DEF AwaitFails, WorldType
      <2>2. QED  BY <1>4, <2>1 DEF AwaitFails, WorldType, clientVars, rendererVars, Generation
    <1>5. QED  BY <1>1, <1>2, <1>3, <1>4

LEMMA RestartWorld ==
    ASSUME Control, WorldType, LastRuns,
           Restart \/ Spawn \/ SpawnReady \/ SpawnFails
           \/ WaitSend \/ WaitDone \/ WaitAgain \/ WaitFails
           \/ Restore \/ RestorePlan \/ RestoreSkipped \/ Restored
    PROVE  WorldType'
    <1>1. CASE Restart
      <2>1. children' \in Seq(States) /\ Generation' \in Nat
            BY <1>1, KilledType DEF Restart, Generation
      <2>2. channel' \in Channels
            BY <1>1, ChannelChanges DEF Restart, WorldType, Channels
      <2>3. renderer' \in 0..Generation'
            BY <1>1, <2>1 DEF Restart
      <2>4. restartCount' \in Nat
            BY <1>1 DEF Restart, WorldType
      <2>5. QED  BY <1>1, <2>1, <2>2, <2>3, <2>4
                    DEF Restart, WorldType, States, Channels, clientVars
    <1>2. CASE Spawn
      <2>1. children' \in Seq(States) /\ Generation' = Generation + 1 /\ Generation \in Nat
            BY <1>2, AddChild DEF Spawn, WorldType, States, Generation
      <2>2. channel' \in Channels /\ output' \in OutputStates
            BY <1>2, ChannelChanges, AnswerTypes DEF Spawn, WorldType, Channels
      <2>3. renderer' \in 0..Generation'
            BY <1>2, <2>1 DEF Spawn, WorldType
      <2>4. QED  BY <1>2, <2>1, <2>2, <2>3 DEF Spawn, WorldType, States, Channels, clientVars
    <1>3. CASE SpawnReady
      <2>1. Generation \in 1..Len(children) /\ children \in Seq(States)
            BY <1>3 DEF SpawnReady, WorldType, LastRuns, States, Generation
      <2>2. children' \in Seq(States) /\ Generation' = Generation
            BY <1>3, <2>1, ChangeChild DEF SpawnReady, States, Generation
      <2>3. renderer' \in 0..Generation'
            BY <1>3, <2>1, <2>2 DEF SpawnReady, Generation
      <2>4. QED  BY <1>3, <2>2, <2>3 DEF SpawnReady, WorldType, States, clientVars
    <1>4. CASE SpawnFails \/ WaitFails \/ RestoreSkipped
      <2>1. faults' \in Nat
            BY <1>4, FaultType DEF SpawnFails, WaitFails, RestoreSkipped, WorldType
      <2>2. QED  BY <1>4, <2>1
                    DEF SpawnFails, WaitFails, RestoreSkipped, WorldType, clientVars,
                        rendererVars, Generation
    <1>5. CASE WaitSend
      <2>1. channel' \in Channels
            BY <1>5, ChannelChanges, AnswerTypes DEF WaitSend, WorldType, Channels
      <2>2. QED  BY <1>5, <2>1 DEF WaitSend, WorldType, Channels, clientVars, Generation
    <1>6. CASE WaitDone \/ WaitAgain
      <2>1. channel' \in Channels
            BY <1>6, ChannelChanges DEF WaitDone, WaitAgain, WaitAnswer, WorldType, Channels
      <2>2. QED  BY <1>6, <2>1
                    DEF WaitDone, WaitAgain, WaitAnswer, WorldType, Channels, clientVars,
                        Generation
    <1>7. CASE Restore \/ RestorePlan
          BY <1>7
             DEF Restore, RestorePlan, MovesTo, Keeps, WorldType, clientVars, rendererVars,
                 Generation
    <1>8. CASE Restored
      <2>1. current' \in Images \cup {NoImage}
            BY <1>8 DEF Restored, Committed, Control, ControlType, WorldType
      <2>2. QED  BY <1>8, <2>1 DEF Restored, WorldType, clientVars, rendererVars, Generation
    <1>9. QED  BY <1>1, <1>2, <1>3, <1>4, <1>5, <1>6, <1>7, <1>8

LEMMA LoopWorld ==
    ASSUME Control, WorldType, ClientServed,
           Started \/ LoopEnsure \/ LoopEnsured \/ SkipCheck \/ CheckPending
           \/ NothingPending \/ FilesMissing \/ RestorePending \/ AcceptNone \/ Accept
           \/ Plan \/ Mapped \/ NotRendered \/ Rendered \/ AnswerClient \/ Stop
    PROVE  WorldType'
    <1>1. CASE Keeps
          BY <1>1 DEF MovesTo, Keeps, WorldType, clientVars, rendererVars, Generation
    <1>2. CASE Accept
      <2> DEFINE Connections == [client : Clients, command : Commands]
      <2>1. queue \in Seq(Connections) /\ queue # <<>> /\ serving' = Head(queue) /\ queue' = Tail(queue)
            BY <1>2 DEF Accept, WorldType
      <2>2. serving' \in Connections /\ queue' \in Seq(Connections)
        <3> HIDE DEF Connections
        <3>1. QED  BY <2>1
      <2>3. serving' \in [client : Clients \cup {"none"}, command : Commands \cup {"none"}]
            BY <2>2
      <2>4. QED  BY <1>2, <2>2, <2>3, WorldKept DEF Accept, WorldType
    <1>3. CASE Rendered
      <2>1. current' \in Images \cup {NoImage}
            BY <1>3 DEF Rendered, Committed, Control, ControlType, WorldType
      <2>2. QED  BY <1>3, <2>1 DEF Rendered, WorldType, clientVars, rendererVars, Generation
    <1>4. CASE AnswerClient
      <2>1. serving' \in [client : Clients \cup {"none"}, command : Commands \cup {"none"}]
            BY <1>4 DEF AnswerClient, NoClient
      <2>2. answered' \subseteq Clients
            BY <1>4 DEF AnswerClient, WorldType, ClientServed, Served
      <2>3. QED  BY <1>4, <2>1, <2>2 DEF AnswerClient, WorldType, rendererVars, Generation
    <1>5. CASE Stop
      <2>1. children' \in Seq(States) /\ Generation' \in Nat
            BY <1>5, KilledType DEF Stop, Generation
      <2>2. channel' \in Channels
            BY <1>5, ChannelChanges DEF Stop, WorldType, Channels
      <2>3. renderer' \in 0..Generation'
            BY <1>5, <2>1 DEF Stop
      <2>4. QED  BY <1>5, <2>1, <2>2, <2>3 DEF Stop, WorldType, States, Channels, clientVars
    <1>6. CASE FilesMissing
      <2>1. faults' \in Nat
            BY <1>6, FaultType DEF FilesMissing
      <2>2. QED  BY <1>6, <2>1 DEF FilesMissing, WorldType, clientVars, rendererVars, Generation
    <1>7. QED  BY <1>1, <1>2, <1>3, <1>4, <1>5, <1>6
                  DEF Started, LoopEnsure, LoopEnsured, SkipCheck, CheckPending,
                      NothingPending, RestorePending, AcceptNone, Plan, Mapped, NotRendered

LEMMA OutputChanges ==
    ASSUME NEW o \in OutputStates
    PROVE  /\ [o EXCEPT !.egl = TRUE] \in OutputStates
           /\ [o EXCEPT !.pending = FALSE] \in OutputStates
           /\ [o EXCEPT !.power = "off"] \in OutputStates
           /\ [o EXCEPT !.power = "on"] \in OutputStates
           /\ Report(o) \in Answers
    BY DEF OutputStates, Report, Answers

LEMMA OthersWorld ==
    ASSUME Control, WorldType, LastRuns, Renderer \/ Connect
    PROVE  WorldType'
    <1>1. UNCHANGED supervisorVars
          BY OthersKeep
    <1>2. /\ children \in Seq(States) /\ Generation = Len(children) /\ Generation \in Nat
          /\ channel \in Channels /\ output \in OutputStates
          BY DEF WorldType, States, Generation, Channels
    <1>3. CASE ChildReady
      <2>1. Generation \in 1..Len(children)
            BY <1>2, <1>3 DEF ChildReady, LastRuns
      <2>2. children' \in Seq(States) /\ Len(children') = Len(children)
            BY <1>2, <1>3, <2>1, ChangeChild DEF ChildReady, States
      <2>3. QED  BY <1>1, <1>3, <2>2
                    DEF ChildReady, WorldType, supervisorVars, clientVars, States, Generation
    <1>4. CASE ChildDies
      <2>1. Generation \in 1..Len(children)
            BY <1>2, <1>4 DEF ChildDies, LastRuns, Running
      <2>2. children' \in Seq(States) /\ Len(children') = Len(children)
            BY <1>2, <1>4, <2>1, ChangeChild DEF ChildDies, States
      <2>3. faults' \in Nat
            BY <1>4, FaultType DEF ChildDies
      <2>4. QED  BY <1>1, <1>4, <2>2, <2>3
                    DEF ChildDies, WorldType, supervisorVars, clientVars, States, Generation
    <1>5. CASE OrphanExits
      <2>1. children' \in Seq(States) /\ Len(children') = Len(children)
            BY <1>2, <1>5, ChangeChild DEF OrphanExits, States
      <2>2. QED  BY <1>1, <1>5, <2>1
                    DEF OrphanExits, WorldType, supervisorVars, clientVars, States, Generation
    <1>6. CASE ServeHealth
      <2>1. channel' \in Channels
            BY <1>2, <1>6, ChannelChanges, OutputChanges DEF ServeHealth, Replies
      <2>2. QED  BY <1>1, <1>6, <2>1
                    DEF ServeHealth, WorldType, supervisorVars, clientVars, Channels,
                        Generation
    <1>7. CASE ServeSet
      <2>1. channel' \in Channels
            BY <1>2, <1>7, ChannelChanges, AnswerTypes DEF ServeSet, Replies
      <2>2. output' \in OutputStates
            BY <1>2, <1>7, OutputChanges DEF ServeSet
      <2>3. faults' \in Nat
            BY <1>7, FaultType DEF ServeSet, WorldType
      <2>4. accepted' \in Images \cup {NoImage}
        <3>1. Head(channel.requests) \in Requests
              BY <1>2, <1>7 DEF ServeSet, Channels
        <3>2. Head(channel.requests).image \in Images \cup {NoImage}
              BY <3>1 DEF Requests, Health, Set
        <3>3. QED  BY <1>7, <3>2 DEF ServeSet, WorldType
      <2>5. QED  BY <1>1, <1>7, <2>1, <2>2, <2>3, <2>4
                    DEF ServeSet, WorldType, supervisorVars, clientVars, Channels, Generation
    <1>8. CASE Configure \/ Replug \/ PowerOff \/ PowerOn
      <2>1. output' \in OutputStates
            BY <1>2, <1>8, OutputChanges, AnswerTypes
               DEF Configure, Replug, PowerOff, PowerOn, OutputBecomes
      <2>2. faults' \in Nat
            BY <1>8, FaultType DEF Configure, Replug, PowerOff, PowerOn, WorldType
      <2>3. QED  BY <1>1, <1>8, <2>1, <2>2
                    DEF Configure, Replug, PowerOff, PowerOn, OutputBecomes, WorldType,
                        supervisorVars, clientVars, Generation
    <1>9. CASE Connect
      <2> DEFINE Connections == [client : Clients, command : Commands]
      <2>1. PICK c \in Clients, command \in Commands :
                    queue' = Append(queue, [client |-> c, command |-> command])
            BY <1>9 DEF Connect
      <2>2. [client |-> c, command |-> command] \in Connections
            OBVIOUS
      <2>3. queue \in Seq(Connections)
            BY DEF WorldType
      <2>4. queue' \in Seq(Connections)
        <3> HIDE DEF Connections
        <3>1. QED  BY <2>1, <2>2, <2>3
      <2>5. QED  BY <1>1, <1>9, <2>4
                    DEF Connect, WorldType, supervisorVars, rendererVars, Generation
    <1>10. QED  BY <1>3, <1>4, <1>5, <1>6, <1>7, <1>8, <1>9 DEF Renderer, Serve

LEMMA WorldStep ==
    ASSUME Control, WorldType, ClientServed, LastRuns, [Next]_vars
    PROVE  WorldType'
    <1>1. CASE Step
          BY <1>1, RequestWorld, RestartWorld, LoopWorld DEF Step
    <1>2. CASE Renderer \/ Connect
          BY <1>2, OthersWorld
    <1>3. CASE UNCHANGED vars
          BY <1>3 DEF vars, supervisorVars, clientVars, rendererVars, WorldType, Generation
    <1>4. QED  BY <1>1, <1>2, <1>3 DEF Next

-----------------------------------------------------------------------------
(* Clients *)

LEMMA ServedMove ==
    ASSUME ClientServed, serving' = serving, stack' = stack,
           pc' \in Served => pc \in Served
    PROVE  ClientServed'
    BY DEF ClientServed

LEMMA ServedPush ==
    ASSUME Control, ClientServed, serving' = serving,
           NEW to \in RequestReturns \cup RestartReturns,
           NEW request \in Requests, NEW image \in Images \cup {NoImage},
           stack' = Frame(to, request, image) \o stack,
           pc' \notin Served, to \in Served => pc \in Served
    PROVE  ClientServed'
    <1> DEFINE f == [to |-> to, request |-> request, image |-> image]
    <1>1. f \in Frames /\ stack \in Seq(Frames)
          BY DEF Frames, Control, ControlType
    <1>2. /\ Len(stack') = Len(stack) + 1 /\ stack'[1] = f
          /\ \A i \in 2..(Len(stack) + 1) : stack'[i] = stack[i - 1]
          BY <1>1, PushFrame DEF Frame
    <1>3. SUFFICES ASSUME NEW i \in 1..Len(stack'), stack'[i].to \in Served
                   PROVE  serving.client \in Clients
          BY DEF ClientServed
    <1>4. CASE i = 1
          BY <1>2, <1>3, <1>4 DEF ClientServed
    <1>5. CASE i # 1
      <2>1. i - 1 \in 1..Len(stack) /\ stack[i - 1].to \in Served
            BY <1>1, <1>2, <1>3, <1>5
      <2>2. QED  BY <2>1 DEF ClientServed
    <1>6. QED  BY <1>4, <1>5

LEMMA ServedPop ==
    ASSUME Control, pc \notin Loop, ClientServed, serving' = serving,
           NEW answer \in Answers, Return(answer)
    PROVE  ClientServed'
    <1>1. stack # <<>> /\ stack \in Seq(Frames)
          BY DEF Control, ControlType, CallsNest
    <1>2. /\ pc' = stack[1].to /\ 1 \in 1..Len(stack)
          /\ Len(stack') = Len(stack) - 1 /\ Len(stack) \in Nat
          /\ \A i \in 1..(Len(stack) - 1) : stack'[i] = stack[i + 1]
          BY <1>1, PopFrame DEF Return
    <1>3. ASSUME NEW i \in 1..Len(stack'), stack'[i].to \in Served
          PROVE  serving.client \in Clients
      <2>1. i + 1 \in 1..Len(stack) /\ stack[i + 1].to \in Served
            BY <1>2, <1>3
      <2>2. QED  BY <2>1 DEF ClientServed
    <1>4. QED  BY <1>2, <1>3 DEF ClientServed

LEMMA ServedStep ==
    ASSUME Control, WorldType, ClientServed, [Next]_vars
    PROVE  ClientServed'
    <1> USE DEF InRequest, InRestart, Loop, RequestReturns, RestartReturns, Served
    <1>1. CASE EnsureRenderer \/ SendFails \/ AwaitFails \/ LoopEnsure
          BY <1>1, ServedMove, ServedPush, AnswerTypes
             DEF EnsureRenderer, SendFails, AwaitFails, LoopEnsure, CallRequest, Call,
                 CallRestart, MovesTo, Keeps
    <1>2. CASE \/ Ensured \/ SendWithoutRenderer \/ Reported \/ SpawnFails
               \/ RestoreSkipped \/ Restored
          BY <1>2, ServedMove, ServedPop, AnswerTypes
             DEF Ensured, SendWithoutRenderer, Reported, SpawnFails, RestoreSkipped, Restored,
                 Keeps, MovesTo
    <1>3. CASE Send \/ Restart \/ Spawn \/ SpawnReady \/ WaitSend \/ WaitFails
          BY <1>3, ServedMove
             DEF Send, Restart, Spawn, SpawnReady, WaitSend, WaitFails, MovesTo, Keeps
    <1>4. CASE WaitDone \/ WaitAgain
          BY <1>4, ServedMove DEF WaitDone, WaitAgain, MovesTo, Keeps, WaitAnswer
    <1>5. CASE Await
      <2>1. Head(channel.answers) \in Answers
            BY <1>5 DEF Await, WorldType
      <2>2. QED  BY <1>5, <2>1, ServedPop DEF Await
    <1>6. CASE Restore \/ CheckPending
          BY <1>6, ServedMove, ServedPush, AnswerTypes
             DEF Restore, CheckPending, CallRequest, Call, CallRestart, MovesTo, Keeps
    <1>7. CASE RestorePlan
      <2>1. PICK image \in Restorable : CallRequest("restored", Set(image), image)
            BY <1>7 DEF RestorePlan
      <2>2. image \in Images
            BY <2>1 DEF Restorable, WorldType
      <2>3. QED  BY <1>7, <2>1, <2>2, ServedPush, AnswerTypes
                    DEF RestorePlan, CallRequest, Call, Keeps
    <1>8. CASE \/ Started \/ LoopEnsured \/ SkipCheck \/ NothingPending \/ FilesMissing
               \/ AcceptNone
          BY <1>8, ServedMove
             DEF Started, LoopEnsured, SkipCheck, NothingPending, FilesMissing, AcceptNone,
                 MovesTo, Keeps
    <1>9. CASE RestorePending
      <2>1. current # NoImage => current \in Images
            BY DEF WorldType
      <2>2. QED  BY <1>9, <2>1, ServedPush, AnswerTypes
                    DEF RestorePending, CallRequest, Call, MovesTo, Keeps
    <1>10. CASE Accept
      <2> DEFINE Connections == [client : Clients, command : Commands]
      <2>1. queue \in Seq(Connections) /\ queue # <<>> /\ serving' = Head(queue)
            BY <1>10 DEF Accept, WorldType
      <2>2. serving' \in Connections
        <3> HIDE DEF Connections
        <3>1. QED  BY <2>1
      <2>3. serving'.client \in Clients
            BY <2>2
      <2>4. QED  BY <2>3 DEF ClientServed
    <1>11. CASE Plan
      <2>1. PICK image \in Images :
                  \/ CallRequest("rendered", Set(image), image)
                  \/ CallRequest("mapped", Health, image)
            BY <1>11 DEF Plan
      <2>2. QED  BY <1>11, <2>1, ServedPush, AnswerTypes DEF Plan, Keeps, CallRequest, Call
    <1>12. CASE Mapped
      <2>1. outcome.image \in Images
            BY <1>12 DEF Mapped, Control, FramesPrepared
      <2>2. QED  BY <1>12, <2>1, ServedPush, AnswerTypes DEF Mapped, Keeps, CallRequest, Call
    <1>13. CASE NotRendered \/ Rendered \/ Stop
          BY <1>13, ServedMove DEF NotRendered, Rendered, Stop, MovesTo, Keeps
    <1>14. CASE AnswerClient
      <2>1. stack = <<>> /\ stack' = <<>>
            BY <1>14 DEF AnswerClient, MovesTo, Control, CallsNest
      <2>2. pc' \notin Served
            BY <1>14 DEF AnswerClient, MovesTo
      <2>3. QED  BY <2>1, <2>2 DEF ClientServed
    <1>15. CASE Renderer \/ Connect
          BY <1>15, OthersKeep, ServedMove DEF supervisorVars
    <1>16. CASE UNCHANGED vars
          BY <1>16, ServedMove DEF vars, supervisorVars
    <1>17. QED  BY <1>1, <1>2, <1>3, <1>4, <1>5, <1>6, <1>7, <1>8, <1>9, <1>10, <1>11, <1>12,
                   <1>13, <1>14, <1>15, <1>16
                   DEF Next, Step

-----------------------------------------------------------------------------
(* Generations *)

Spawning == {"spawn", "spawned"}

\* Returns and calls never lead into a spawn.
LEMMA ReturnsElsewhere ==
    ASSUME Control, pc \notin Loop, NEW answer \in Answers, Return(answer)
    PROVE  pc' \notin Spawning \cup {"restart", "await", "waitAnswer", "exited"}
    <1>1. pc' \in Callers(pc)
          BY ControlPop
    <1>2. QED  BY <1>1 DEF Callers, RequestReturns, RestartReturns, Spawning

LEMMA LastRunsKept ==
    ASSUME LastRuns, WorldType, UNCHANGED <<renderer, children>>, pc \notin Spawning, pc' \notin Spawning
    PROVE  LastRuns'
    BY DEF LastRuns, Spawning, Generation

\* The steps that change which processes there are.
LEMMA RestartLastRuns ==
    ASSUME LastRuns, WorldType, Restart
    PROVE  LastRuns'
    <1>1. /\ pc' = "spawn" /\ renderer' = 0 /\ children' = Killed /\ Generation' = Generation
          /\ Generation \in Nat
          BY KilledType DEF Restart, Generation, WorldType
    <1>2. \A g \in 1..Generation : children'[g] # "running"
          BY <1>1, KilledType DEF LastRuns, Restart
    <1>3. QED  BY <1>1, <1>2 DEF LastRuns

LEMMA SpawnLastRuns ==
    ASSUME LastRuns, WorldType, Spawn
    PROVE  LastRuns'
    <1>1. /\ pc = "spawn" /\ pc' = "spawned" /\ renderer = 0 /\ renderer' = 0
          /\ children' = Append(children, "starting")
          BY DEF Spawn, LastRuns
    <1>2. /\ children \in Seq(States) /\ Generation \in Nat /\ Generation' = Generation + 1
          /\ \A h \in 1..Generation : children'[h] = children[h]
          BY <1>1, AddChild DEF WorldType, States, Generation
    <1>3. \A h \in 1..Generation : children[h] # "running"
          BY <1>1 DEF LastRuns
    <1>4. \A h \in 1..Generation' : children'[h] # "running"
      <2>1. \A h \in 1..Generation : children'[h] # "running"
            BY <1>2, <1>3
      <2>2. \A h \in 1..Generation' : h # Generation' => h \in 1..Generation
            BY <1>2
      <2>3. children'[Generation'] = "starting"
            BY <1>1, <1>2, AddChild DEF States, Generation
      <2>4. QED  BY <2>1, <2>2, <2>3
    <1>5. renderer' \in {0, Generation'} /\ Generation' > 0
          BY <1>1, <1>2
    <1>6. QED  BY <1>1, <1>4, <1>5 DEF LastRuns

LEMMA SpawnReadyLastRuns ==
    ASSUME LastRuns, WorldType, SpawnReady
    PROVE  LastRuns'
    <1>1. /\ Generation \in 1..Len(children) /\ children \in Seq(States)
          /\ pc' = "waitReady" /\ renderer' = Generation /\ renderer = 0
          BY DEF SpawnReady, WorldType, LastRuns, States, Generation
    <1>2. /\ Generation' = Generation /\ children'[Generation] = "running"
          /\ \A h \in 1..Generation : h # Generation => children'[h] = children[h]
          BY <1>1, ChangeChild DEF SpawnReady, States, Generation
    <1>3. \A h \in 1..Generation : children[h] # "running"
          BY <1>1 DEF LastRuns, Generation
    <1>4. QED  BY <1>1, <1>2, <1>3 DEF LastRuns

LEMMA SpawnFailsLastRuns ==
    ASSUME Control, LastRuns, WorldType, SpawnFails
    PROVE  LastRuns'
    <1>1. pc' \notin Spawning
      <2>1. pc \notin Loop
            BY DEF SpawnFails, Loop
      <2>2. QED  BY <2>1, ReturnsElsewhere, AnswerTypes DEF SpawnFails
    <1>2. \A g \in 1..Generation : children[g] # "running"
          BY DEF SpawnFails, LastRuns
    <1>3. /\ renderer' = 0 /\ children' = children /\ Generation' = Generation
          BY DEF SpawnFails, LastRuns, rendererVars, Generation
    <1>4. QED  BY <1>1, <1>2, <1>3 DEF LastRuns, Spawning

LEMMA StopLastRuns ==
    ASSUME LastRuns, WorldType, Stop
    PROVE  LastRuns'
    <1>1. /\ pc' = "exited" /\ renderer' = 0 /\ children' = Killed /\ Generation' = Generation
          BY KilledType DEF Stop, Generation
    <1>2. pc = "stop"
          BY DEF Stop
    <1>3. \A g \in 1..Generation : children'[g] # "running"
          BY <1>1, <1>2, KilledType DEF LastRuns
    <1>4. QED  BY <1>1, <1>3 DEF LastRuns

LEMMA OthersLastRuns ==
    ASSUME LastRuns, WorldType, Renderer \/ Connect
    PROVE  LastRuns'
    <1>1. pc' = pc /\ renderer' = renderer
          BY OthersKeep DEF supervisorVars
    <1>2. children \in Seq(States) /\ Generation = Len(children) /\ Generation \in Nat
          BY DEF WorldType, States, Generation
    <1>3. CASE UNCHANGED children
          BY <1>1, <1>3 DEF LastRuns, Generation
    <1>4. CASE ChildReady
      <2>1. /\ pc = "spawned" /\ Generation \in 1..Len(children) /\ renderer = 0
            BY <1>2, <1>4 DEF ChildReady, LastRuns
      <2>2. /\ Generation' = Generation /\ children'[Generation] = "ready"
            /\ \A h \in 1..Generation : h # Generation => children'[h] = children[h]
            BY <1>2, <1>4, <2>1, ChangeChild DEF ChildReady, States, Generation
      <2>3. QED  BY <1>1, <2>1, <2>2 DEF LastRuns
    <1>5. ASSUME NEW g \in 1..Generation, children' = [children EXCEPT ![g] = "dead"]
          PROVE  LastRuns'
      <2>1. /\ Generation' = Generation /\ children'[g] = "dead"
            /\ \A h \in 1..Generation : h # g => children'[h] = children[h]
            BY <1>2, <1>5, ChangeChild DEF States, Generation
      <2>2. \A h \in 1..Generation : children'[h] = "running" => children[h] = "running"
            BY <2>1
      <2>3. renderer # 0 => renderer \in 1..Generation
            BY <1>2 DEF LastRuns
      <2>4. QED  BY <1>1, <2>1, <2>2, <2>3 DEF LastRuns
    <1>6. CASE ChildDies
      <2>1. Generation \in 1..Generation
            BY <1>2, <1>6 DEF ChildDies, Running, LastRuns
      <2>2. QED  BY <1>5, <1>6, <2>1 DEF ChildDies
    <1>7. CASE OrphanExits
          BY <1>5, <1>7 DEF OrphanExits
    <1>8. QED  BY <1>3, <1>4, <1>6, <1>7
                  DEF Renderer, Connect, Serve, ServeHealth, ServeSet, Configure, Replug,
                      PowerOff, PowerOn, OutputBecomes, rendererVars

\* Calls and moves that leave the processes alone and are not in a spawn.
Quiet ==
    /\ UNCHANGED <<renderer, children, restartCount>>
    /\ pc \notin Spawning \cup {"restart", "exited"}
    /\ pc' \notin Spawning \cup {"restart", "exited"}
    /\ faults' \in {faults, faults + 1}

QuietReturns == Ensured \/ SendWithoutRenderer \/ Reported \/ RestoreSkipped \/ Restored
QuietCalls ==
    \/ Send \/ WaitSend \/ WaitDone \/ WaitAgain \/ Restore \/ RestorePlan
    \/ SkipCheck \/ CheckPending \/ NothingPending \/ FilesMissing \/ RestorePending
    \/ AcceptNone \/ Accept \/ Plan \/ Mapped \/ NotRendered \/ Rendered \/ AnswerClient

LEMMA QuietSteps ==
    ASSUME Control, WorldType, QuietReturns \/ Await \/ QuietCalls
    PROVE  Quiet
    <1> USE DEF Quiet, Spawning, QuietReturns, QuietCalls
    <1>1. CASE QuietReturns
      <2>1. pc \notin Loop \cup Spawning \cup {"restart", "exited"}
            BY <1>1 DEF Ensured, SendWithoutRenderer, Reported, RestoreSkipped, Restored, Loop
      <2>2. /\ UNCHANGED <<renderer, children, restartCount>>
            /\ faults' \in {faults, faults + 1}
            BY <1>1
               DEF Ensured, SendWithoutRenderer, Reported, RestoreSkipped, Restored, Keeps,
                   rendererVars, Fault
      <2>3. CASE \E answer \in Answers : Return(answer)
        <3>1. pc' \notin Spawning \cup {"restart", "exited"}
              BY <2>1, <2>3, ReturnsElsewhere
        <3>2. QED  BY <2>1, <2>2, <3>1
      <2>4. CASE ~\E answer \in Answers : Return(answer)
            BY <1>1, <2>1, <2>2, <2>4, AnswerTypes
               DEF Ensured, SendWithoutRenderer, Reported, RestoreSkipped, Restored, MovesTo
      <2>5. QED  BY <2>3, <2>4
    <1>2. CASE Await
      <2>1. Head(channel.answers) \in Answers /\ pc \notin Loop
            BY <1>2 DEF Await, WorldType, Loop
      <2>2. pc' \notin Spawning \cup {"restart", "exited"}
            BY <1>2, <2>1, ReturnsElsewhere DEF Await
      <2>3. QED  BY <1>2, <2>2 DEF Await
    <1>3. CASE Send \/ WaitSend \/ WaitDone \/ WaitAgain
          BY <1>3 DEF Send, WaitSend, WaitDone, WaitAgain, WaitAnswer
    <1>4. CASE Restore \/ RestorePlan \/ CheckPending \/ RestorePending \/ Plan \/ Mapped
          BY <1>4
             DEF Restore, RestorePlan, CheckPending, RestorePending, Plan, Mapped, Keeps,
                 rendererVars, CallRequest, Call
    <1>5. CASE SkipCheck \/ NothingPending \/ AcceptNone \/ NotRendered
          BY <1>5
             DEF SkipCheck, NothingPending, AcceptNone, NotRendered, Keeps, MovesTo,
                 rendererVars
    <1>6. CASE FilesMissing \/ Accept
          BY <1>6 DEF FilesMissing, Accept, MovesTo, rendererVars, CallRequest, Call, Fault
    <1>7. CASE Rendered \/ AnswerClient
          BY <1>7 DEF Rendered, AnswerClient, MovesTo, rendererVars
    <1>8. QED  BY <1>1, <1>2, <1>3, <1>4, <1>5, <1>6, <1>7

LEMMA LastRunsStep ==
    ASSUME Control, WorldType, LastRuns, [Next]_vars
    PROVE  LastRuns'
    <1>1. CASE QuietReturns \/ Await \/ QuietCalls
      <2>1. Quiet
            BY <1>1, QuietSteps
      <2>2. QED  BY <2>1, LastRunsKept DEF Quiet, Spawning
    <1>2. CASE EnsureRenderer \/ SendFails \/ AwaitFails \/ LoopEnsure
          BY <1>2, LastRunsKept
             DEF EnsureRenderer, SendFails, AwaitFails, LoopEnsure, MovesTo, Keeps,
                 CallRestart, Call, rendererVars, Spawning
    <1>3. CASE WaitFails \/ Started \/ LoopEnsured
          BY <1>3, LastRunsKept
             DEF WaitFails, Started, LoopEnsured, MovesTo, Keeps, rendererVars, Spawning
    <1>4. CASE Restart \/ Spawn \/ SpawnReady \/ SpawnFails \/ Stop
          BY <1>4, RestartLastRuns, SpawnLastRuns, SpawnReadyLastRuns, SpawnFailsLastRuns,
             StopLastRuns
    <1>5. CASE Renderer \/ Connect
          BY <1>5, OthersLastRuns
    <1>6. CASE UNCHANGED vars
          BY <1>6 DEF vars, supervisorVars, rendererVars, LastRuns, Generation
    <1>7. QED  BY <1>1, <1>2, <1>3, <1>4, <1>5, <1>6 DEF Next, Step, QuietReturns, QuietCalls

-----------------------------------------------------------------------------
(* What a child was asked before the supervisor took it: nothing *)

LEMMA AskedOnlyTaken ==
    ASSUME WorldType, LastRuns, Unasked,
           \/ Send \/ WaitSend \/ Await \/ WaitDone \/ WaitAgain \/ Serve
    PROVE  /\ Generation > 0 => children[Generation] \notin {"starting", "ready"}
           /\ UNCHANGED children
    <1>1. UNCHANGED children
          BY DEF Send, WaitSend, Await, WaitDone, WaitAgain, WaitAnswer, Serve, ServeHealth,
                 ServeSet
    <1>2. CASE Send \/ WaitSend
          BY <1>1, <1>2 DEF Send, WaitSend, Alive, LastRuns
    <1>3. CASE Await \/ WaitDone \/ WaitAgain \/ Serve
      <2>1. channel # Closed
            BY <1>3 DEF Await, WaitDone, WaitAgain, WaitAnswer, Serve, ServeHealth, ServeSet,
                        Closed
      <2>2. QED  BY <1>1, <2>1 DEF Unasked
    <1>4. QED  BY <1>1, <1>2, <1>3

LEMMA UnaskedKilled ==
    ASSUME WorldType, LastRuns, Unasked, Restart \/ Stop
    PROVE  Unasked'
    <1>1. /\ children' = Killed /\ channel' = Closed /\ accepted' = accepted
          /\ Generation' = Generation /\ Generation \in Nat
          BY KilledType DEF Restart, Stop, Generation, WorldType
    <1>2. Generation > 0 /\ Killed[Generation] \in {"starting", "ready"} =>
              children[Generation] \in {"starting", "ready"}
          BY <1>1, KilledType
    <1>3. QED  BY <1>1, <1>2 DEF Unasked

LEMMA UnaskedOthers ==
    ASSUME WorldType, LastRuns, Unasked, ChildReady \/ ChildDies \/ OrphanExits
    PROVE  Unasked'
    <1>1. channel' = channel /\ accepted' = accepted
          BY DEF ChildReady, ChildDies, OrphanExits
    <1>2. children \in Seq(States) /\ Generation = Len(children) /\ Generation \in Nat
          BY DEF WorldType, States, Generation
    <1>3. CASE ChildReady
      <2>1. Generation > 0 /\ children[Generation] = "starting"
            BY <1>3 DEF ChildReady, LastRuns
      <2>2. QED  BY <1>1, <2>1 DEF Unasked
    <1>4. ASSUME NEW g \in 1..Generation, children' = [children EXCEPT ![g] = "dead"]
          PROVE  Unasked'
      <2>1. /\ Generation' = Generation /\ children'[g] = "dead"
            /\ \A h \in 1..Generation : h # g => children'[h] = children[h]
            BY <1>2, <1>4, ChangeChild DEF States, Generation
      <2>2. QED  BY <1>1, <1>2, <2>1 DEF Unasked
    <1>5. CASE ChildDies
      <2>1. Generation \in 1..Generation
            BY <1>2, <1>5 DEF ChildDies, Running, LastRuns
      <2>2. QED  BY <1>4, <1>5, <2>1 DEF ChildDies
    <1>6. CASE OrphanExits
          BY <1>4, <1>6 DEF OrphanExits
    <1>7. QED  BY <1>3, <1>5, <1>6

LEMMA UnaskedStep ==
    ASSUME Control, WorldType, LastRuns, Unasked, [Next]_vars
    PROVE  Unasked'
    <1>1. CASE Send \/ WaitSend \/ Await \/ WaitDone \/ WaitAgain \/ Serve
          BY <1>1, AskedOnlyTaken DEF Unasked, Generation
    <1>2. CASE Restart \/ Stop
          BY <1>2, UnaskedKilled
    <1>3. CASE Spawn
          BY <1>3 DEF Spawn, Unasked
    <1>4. CASE SpawnReady
      <2>1. Generation \in 1..Len(children) /\ children \in Seq(States)
            BY <1>4 DEF SpawnReady, WorldType, LastRuns, States, Generation
      <2>2. Generation' = Generation /\ children'[Generation] = "running"
            BY <1>4, <2>1, ChangeChild DEF SpawnReady, States, Generation
      <2>3. QED  BY <2>2 DEF Unasked
    <1>5. CASE ChildReady \/ ChildDies \/ OrphanExits
          BY <1>5, UnaskedOthers
    <1>6. CASE UNCHANGED <<children, channel, accepted>>
          BY <1>6 DEF Unasked, Generation
    <1>7. CASE \/ EnsureRenderer \/ Ensured \/ SendWithoutRenderer \/ SendFails \/ AwaitFails
               \/ Reported \/ SpawnFails \/ WaitFails \/ Restore \/ RestorePlan
               \/ RestoreSkipped \/ Restored
          BY <1>6, <1>7
             DEF EnsureRenderer, Ensured, SendWithoutRenderer, SendFails, AwaitFails, Reported,
                 SpawnFails, WaitFails, Restore, RestorePlan, RestoreSkipped, Restored, Keeps,
                 rendererVars
    <1>8. CASE \/ Started \/ LoopEnsure \/ LoopEnsured \/ SkipCheck \/ CheckPending
               \/ NothingPending \/ FilesMissing \/ RestorePending \/ AcceptNone \/ Accept
               \/ Plan \/ Mapped \/ NotRendered \/ Rendered \/ AnswerClient
          BY <1>6, <1>8
             DEF Started, LoopEnsure, LoopEnsured, SkipCheck, CheckPending, NothingPending,
                 FilesMissing, RestorePending, AcceptNone, Accept, Plan, Mapped, NotRendered,
                 Rendered, AnswerClient, Keeps, rendererVars
    <1>9. CASE Configure \/ Replug \/ PowerOff \/ PowerOn \/ Connect
          BY <1>6, <1>9 DEF Configure, Replug, PowerOff, PowerOn, OutputBecomes, Connect,
                            rendererVars
    <1>10. CASE UNCHANGED vars
          BY <1>6, <1>10 DEF vars, rendererVars
    <1>11. QED  BY <1>1, <1>2, <1>3, <1>4, <1>5, <1>7, <1>8, <1>9, <1>10 DEF Next, Step, Renderer

-----------------------------------------------------------------------------
(* Restarts and faults *)

Counted == restartCount + Due <= faults

LEMMA CountTypes ==
    ASSUME WorldType
    PROVE  restartCount \in Nat /\ faults \in Nat /\ Due \in {0, 1} /\ Due' \in {0, 1}
    BY SupervisorAssumption DEF WorldType, Due

\* A restart comes due with a fault, and is then counted.
LEMMA CountCalls ==
    ASSUME Control, WorldType, LastRuns, Counted,
           EnsureRenderer \/ SendFails \/ AwaitFails \/ LoopEnsure
    PROVE  Counted'
    <1>1. /\ restartCount' = restartCount /\ Alive' = Alive
          /\ pc \in {"request", "send", "await", "ensure"}
          /\ pc' \in {"restart", "send", "check"}
          BY DEF EnsureRenderer, SendFails, AwaitFails, LoopEnsure, MovesTo, Keeps,
                 CallRestart, Call, rendererVars, Alive
    <1>2. faults' = faults + 1 \/ (faults' = faults /\ (pc' # "restart" <=> Alive))
          BY DEF EnsureRenderer, SendFails, AwaitFails, LoopEnsure, MovesTo, Keeps,
                 CallRestart, Call, Fault
    <1>3. faults' = faults => Due' = Due
          BY <1>1, <1>2, CountTypes DEF Due
    <1>4. QED  BY <1>1, <1>2, <1>3, CountTypes DEF Counted

LEMMA CountSpawns ==
    ASSUME Control, WorldType, LastRuns, Counted, Restart \/ Spawn \/ SpawnReady \/ SpawnFails
    PROVE  Counted'
    <1>1. CASE Restart
          BY <1>1, CountTypes DEF Restart, Due, Counted
    <1>2. CASE Spawn
      <2>1. children'[Generation'] = "starting"
            BY <1>2, AddChild DEF Spawn, WorldType, States, Generation
      <2>2. Due' = 0 /\ restartCount' = restartCount /\ faults' = faults
            BY <1>2, <2>1 DEF Spawn, Due
      <2>3. QED  BY <2>2, CountTypes DEF Counted
    <1>3. CASE SpawnReady
      <2>1. Generation \in 1..Len(children) /\ children \in Seq(States)
            BY <1>3 DEF SpawnReady, WorldType, LastRuns, States, Generation
      <2>2. children'[Generation] = "running" /\ renderer' = Generation /\ Generation > 0
            BY <1>3, <2>1, ChangeChild DEF SpawnReady, States, Generation
      <2>3. Alive'
            BY <2>2 DEF Alive
      <2>4. Due' = 0 /\ restartCount' = restartCount /\ faults' = faults
            BY <1>3, <2>3 DEF SpawnReady, Due
      <2>5. QED  BY <2>4, CountTypes DEF Counted
    <1>4. CASE SpawnFails
      <2>1. restartCount' = restartCount /\ ((Due = 1 /\ faults' = faults) \/ faults' = faults + 1)
            BY <1>4 DEF SpawnFails, Due, Fault
      <2>2. QED  BY <2>1, CountTypes DEF Counted
    <1>5. QED  BY <1>1, <1>2, <1>3, <1>4

LEMMA CountRest ==
    ASSUME Control, WorldType, LastRuns, Counted,
           WaitFails \/ Started \/ LoopEnsured \/ Stop
    PROVE  Counted'
    <1>1. CASE WaitFails
      <2>1. Due' = Due /\ restartCount' = restartCount /\ (faults' = faults \/ faults' = faults + 1)
            BY <1>1 DEF WaitFails, Due, Alive, rendererVars, Fault
      <2>2. QED  BY <2>1, CountTypes DEF Counted
    <1>2. CASE Started \/ LoopEnsured
      <2>1. /\ pc \in {"started", "loopEnsured"} /\ pc' \in {"exited", "ensure", "check"}
            /\ Alive' = Alive /\ restartCount' = restartCount /\ faults' = faults
            BY <1>2 DEF Started, LoopEnsured, MovesTo, Keeps, Alive, rendererVars
      <2>2. Due' = Due \/ Due' = 0
            BY <2>1 DEF Due
      <2>3. QED  BY <2>1, <2>2, CountTypes DEF Counted
    <1>3. CASE Stop
          BY <1>3, CountTypes DEF Stop, Due, Counted
    <1>4. QED  BY <1>1, <1>2, <1>3

LEMMA CountOthers ==
    ASSUME Control, WorldType, LastRuns, Counted, Renderer \/ Connect
    PROVE  Counted'
    <1>1. pc' = pc /\ renderer' = renderer /\ restartCount' = restartCount
          BY OthersKeep DEF supervisorVars
    <1>2. children \in Seq(States) /\ Generation = Len(children) /\ Generation \in Nat
          BY DEF WorldType, States, Generation
    <1>3. CASE UNCHANGED children
      <2>1. Due' = Due
            BY <1>1, <1>3 DEF Due, Alive, Generation
      <2>2. faults' = faults \/ faults' = faults + 1
            BY <1>3
               DEF Renderer, Connect, ChildReady, ChildDies, OrphanExits, Serve, ServeHealth,
                   ServeSet, Configure, Replug, PowerOff, PowerOn, OutputBecomes, rendererVars,
                   Fault
      <2>3. QED  BY <1>1, <2>1, <2>2, CountTypes DEF Counted
    <1>4. CASE ChildReady
      <2>1. children'[Generation'] = "ready"
            BY <1>2, <1>4, ChangeChild DEF ChildReady, LastRuns, Generation, States
      <2>2. Due' = 0 /\ faults' = faults
            BY <1>1, <1>4, <2>1 DEF ChildReady, Due
      <2>3. QED  BY <1>1, <2>2, CountTypes DEF Counted
    <1>5. CASE ChildDies
      <2>1. faults' = faults + 1
            BY <1>5 DEF ChildDies, Fault
      <2>2. QED  BY <1>1, <2>1, CountTypes DEF Counted
    <1>6. CASE OrphanExits
      <2>1. PICK g \in 1..Generation :
                  /\ children[g] \in {"starting", "ready"} /\ (g = Generation => pc # "spawned")
                  /\ children' = [children EXCEPT ![g] = "dead"]
            BY <1>6 DEF OrphanExits
      <2>2. /\ Generation' = Generation
            /\ \A h \in 1..Generation : h # g => children'[h] = children[h]
            BY <1>2, <2>1, ChangeChild DEF States, Generation
      <2>3. Alive' = Alive
            BY <1>1, <1>2, <2>1, <2>2 DEF LastRuns, Alive
      <2>4. pc = "spawned" => children'[Generation'] = children[Generation]
            BY <1>2, <2>1, <2>2 DEF LastRuns
      <2>5. Due' = Due
            BY <1>1, <2>3, <2>4 DEF Due
      <2>6. faults' = faults
            BY <1>6 DEF OrphanExits
      <2>7. QED  BY <1>1, <2>5, <2>6, CountTypes DEF Counted
    <1>7. QED  BY <1>3, <1>4, <1>5, <1>6
                  DEF Renderer, Connect, Serve, ServeHealth, ServeSet, Configure, Replug,
                      PowerOff, PowerOn, OutputBecomes, rendererVars

LEMMA CountStep ==
    ASSUME Control, WorldType, LastRuns, Counted, [Next]_vars
    PROVE  Counted'
    <1>1. CASE QuietReturns \/ Await \/ QuietCalls
      <2>1. Quiet
            BY <1>1, QuietSteps
      <2>2. Due' = Due
            BY <2>1 DEF Quiet, Spawning, Due, Alive
      <2>3. QED  BY <2>1, <2>2, CountTypes DEF Quiet, Counted
    <1>2. CASE \/ EnsureRenderer \/ SendFails \/ AwaitFails \/ LoopEnsure
               \/ Restart \/ Spawn \/ SpawnReady \/ SpawnFails
               \/ WaitFails \/ Started \/ LoopEnsured \/ Stop
          BY <1>2, CountCalls, CountSpawns, CountRest
    <1>3. CASE Renderer \/ Connect
          BY <1>3, CountOthers
    <1>4. CASE UNCHANGED vars
          BY <1>4 DEF vars, supervisorVars, rendererVars, Counted, Due, Alive, Generation
    <1>5. QED  BY <1>1, <1>2, <1>3, <1>4 DEF Next, Step, QuietReturns, QuietCalls

-----------------------------------------------------------------------------
(* Requests and answers, when no readiness check is given up *)

Exchanging == {"await", "waitAnswer", "restart"}

\* Steps and calls within the supervisor, outside an exchange.
LEMMA MatchKept ==
    ASSUME AnswersMatch, UNCHANGED <<renderer, children, channel>>,
           pc \notin Exchanging,
           pc' \notin {"await", "waitAnswer", "spawn", "spawned", "restored", "rendered"}
    PROVE  AnswersMatch'
    BY DEF AnswersMatch, Alive, Exchanging

\* A return of anything else than an answer of the renderer.
LEMMA MatchReturned ==
    ASSUME Control, AnswersMatch, UNCHANGED <<renderer, children, channel>>,
           pc \notin Loop \cup Exchanging,
           NEW answer \in Answers, Return(answer), answer = Failed \/ pc \notin InRequest
    PROVE  AnswersMatch'
    <1>1. pc' \in Callers(pc) /\ outcome'.answer = answer
          BY ControlPop
    <1>2. pc' \notin Exchanging \cup Spawning
          BY ReturnsElsewhere DEF Exchanging
    <1>3. pc' \in {"restored", "rendered"} => outcome'.answer.is = "failed"
          BY <1>1 DEF Callers, RestartReturns, Failed, Answer
    <1>4. pc \notin Exchanging /\ Alive' = Alive
          BY DEF Alive
    <1>5. QED  BY <1>2, <1>3, <1>4 DEF AnswersMatch, Exchanging, Spawning

LEMMA AnswerTaken ==
    ASSUME NEW c \in Channels, NEW d, d = [c EXCEPT !.answers = Tail(@)]
    PROVE  d.requests = c.requests /\ d.answers = Tail(c.answers)
    BY DEF Channels

LEMMA OneAnswer ==
    ASSUME NEW s \in Seq(Answers), s # <<>>, Len(s) = 1
    PROVE  Head(s) = s[1] /\ Tail(s) = <<>>
    <1>1. Head(s) = s[1] /\ Tail(s) \in Seq(Answers) /\ Len(Tail(s)) = Len(s) - 1
          OBVIOUS
    <1>2. ASSUME NEW t \in Seq(Answers), Len(t) = 0
          PROVE  t = <<>>
          BY <1>2
    <1>3. Len(Tail(s)) = 0
          BY <1>1
    <1>4. QED  BY <1>1, <1>2, <1>3

LEMMA EmptyChannel ==
    ASSUME NEW c \in Channels, c.requests = <<>>, c.answers = <<>>
    PROVE  c = Closed
    BY DEF Channels, Closed

\* The answer that comes is the one to the request that waits for it.
LEMMA CarriedAnswer ==
    ASSUME WorldType, NEW request \in Requests, Carries(request), channel.answers # <<>>,
           channel' = [channel EXCEPT !.answers = Tail(@)]
    PROVE  Answered(request, Head(channel.answers)) /\ channel' = Closed
    <1>1. channel \in Channels /\ channel' \in Channels
          BY ChannelChanges DEF WorldType, Channels
    <1>2. /\ channel.requests = <<>> /\ Len(channel.answers) = 1
          /\ Answered(request, channel.answers[1])
          BY DEF Carries
    <1>3. channel.answers \in Seq(Answers)
          BY <1>1 DEF Channels
    <1>4. Head(channel.answers) = channel.answers[1] /\ Tail(channel.answers) = <<>>
          BY <1>2, <1>3, OneAnswer
    <1>5. channel'.requests = channel.requests /\ channel'.answers = Tail(channel.answers)
          BY <1>1, AnswerTaken
    <1>6. channel'.requests = <<>> /\ channel'.answers = <<>>
          BY <1>2, <1>4, <1>5
    <1>7. channel' = Closed
          BY <1>1, <1>6, EmptyChannel
    <1>8. QED  BY <1>2, <1>4, <1>7

LEMMA SentRequest ==
    ASSUME channel = Closed, NEW request \in Requests,
           channel' = [channel EXCEPT !.requests = Append(@, request)]
    PROVE  channel' = [requests |-> <<request>>, answers |-> <<>>]
    BY DEF Closed

LEMMA MatchRequest ==
    ASSUME Control, WorldType, AnswersMatch,
           EnsureRenderer \/ Ensured \/ SendWithoutRenderer \/ Send \/ SendFails
           \/ Await \/ AwaitFails \/ Reported
    PROVE  AnswersMatch'
    <1> USE DEF Exchanging, Loop, InRequest
    <1>1. CASE EnsureRenderer \/ SendFails
          BY <1>1, MatchKept
             DEF EnsureRenderer, SendFails, CallRestart, Call, MovesTo, Keeps, rendererVars
    <1>2. CASE Ensured \/ SendWithoutRenderer \/ Reported
          BY <1>2, MatchKept, MatchReturned, AnswerTypes
             DEF Ensured, SendWithoutRenderer, Reported, Keeps, rendererVars, MovesTo
    <1>3. CASE Send
      <2>1. /\ Head(stack) = stack[1] /\ stack[1] \in Frames
            BY <1>3, PopFrame DEF Send, Control, ControlType, CallsNest
      <2>2. stack[1].request \in Requests
            BY <2>1 DEF Frames
      <2>3. channel = Closed
            BY <1>3 DEF Send, AnswersMatch
      <2>4. channel' = [requests |-> <<stack[1].request>>, answers |-> <<>>]
            BY <1>3, <2>1, <2>2, <2>3, SentRequest DEF Send
      <2>5. QED  BY <1>3, <2>4 DEF Send, AnswersMatch, Carries
    <1>4. CASE Await
      <2>1. stack[1] \in Frames
            BY <1>4, PopFrame DEF Await, Control, ControlType, CallsNest
      <2>2. stack[1].request \in Requests /\ Carries(stack[1].request)
            BY <1>4, <2>1 DEF Frames, Await, AnswersMatch
      <2>3. Answered(stack[1].request, Head(channel.answers)) /\ channel' = Closed
            BY <1>4, <2>2, CarriedAnswer DEF Await
      <2>4. Head(channel.answers) \in Answers
            BY <1>4 DEF Await, WorldType
      <2>5. /\ pc' = stack[1].to
            /\ outcome' = [answer |-> Head(channel.answers), image |-> stack[1].image]
            BY <1>4, <2>4, ControlPop DEF Await
      <2>6. pc' \notin {"await", "waitAnswer"}
            BY <1>4, <2>4, ReturnsElsewhere DEF Await
      <2>7. 1 \in 1..Len(stack)
            BY <1>4, PopFrame DEF Await, Control, ControlType, CallsNest
      <2>8. pc' \in {"restored", "rendered"} => stack[1].request = Set(stack[1].image)
            BY <2>5, <2>7 DEF Control, FramesPrepared
      <2>9. accepted' = accepted
            BY <1>4 DEF Await
      <2>10. pc' \in {"restored", "rendered"} =>
                   Answered(Set(outcome.image), outcome.answer)'
            BY <2>3, <2>5, <2>8, <2>9 DEF Answered, Set
      <2>11. QED  BY <2>3, <2>6, <2>10 DEF AnswersMatch
    <1>5. CASE AwaitFails
          BY <1>5 DEF AwaitFails, CallRestart, Call, AnswersMatch, MovesTo
    <1>6. QED  BY <1>1, <1>2, <1>3, <1>4, <1>5

LEMMA MatchRestart ==
    ASSUME Control, WorldType, LastRuns, AnswersMatch, "late" \notin Faults,
           Restart \/ Spawn \/ SpawnReady \/ SpawnFails
           \/ WaitSend \/ WaitDone \/ WaitAgain \/ WaitFails
           \/ Restore \/ RestorePlan \/ RestoreSkipped \/ Restored
    PROVE  AnswersMatch'
    <1> USE DEF Exchanging, Loop, InRequest
    <1>1. CASE Restart \/ Spawn
          BY <1>1 DEF Restart, Spawn, AnswersMatch
    <1>2. CASE SpawnReady
          BY <1>2 DEF SpawnReady, AnswersMatch
    <1>3. CASE SpawnFails
          BY <1>3, MatchReturned, AnswerTypes DEF SpawnFails, rendererVars
    <1>4. CASE WaitSend
      <2>1. channel = Closed
            BY <1>4 DEF WaitSend, AnswersMatch
      <2>2. channel' = [requests |-> <<Health>>, answers |-> <<>>]
            BY <1>4, <2>1, SentRequest, AnswerTypes DEF WaitSend
      <2>3. QED  BY <1>4, <2>2 DEF WaitSend, AnswersMatch, Carries
    <1>5. CASE WaitDone \/ WaitAgain
      <2>1. /\ pc = "waitAnswer" /\ pc' \in {"restore", "waitReady"}
            /\ channel' = [channel EXCEPT !.answers = Tail(@)] /\ channel.answers # <<>>
            BY <1>5 DEF WaitDone, WaitAgain, WaitAnswer
      <2>2. channel' = Closed
            BY <2>1, CarriedAnswer, AnswerTypes DEF AnswersMatch
      <2>3. QED  BY <2>1, <2>2 DEF AnswersMatch
    <1>6. CASE WaitFails
      <2>1. ~Alive' /\ pc' = "restore"
            BY <1>6 DEF WaitFails, Fault, MayFault, Alive, rendererVars
      <2>2. QED  BY <2>1 DEF AnswersMatch
    <1>7. CASE Restore
          BY <1>7, MatchKept DEF Restore, CallRequest, Call, MovesTo, Keeps, rendererVars
    <1>8. CASE RestorePlan
          BY <1>8, MatchKept DEF RestorePlan, CallRequest, Call, Keeps, rendererVars
    <1>9. CASE RestoreSkipped \/ Restored
          BY <1>9, MatchReturned, AnswerTypes DEF RestoreSkipped, Restored, rendererVars
    <1>10. QED  BY <1>1, <1>2, <1>3, <1>4, <1>5, <1>6, <1>7, <1>8, <1>9

LEMMA MatchLoop ==
    ASSUME Control, WorldType, AnswersMatch,
           Started \/ LoopEnsure \/ LoopEnsured \/ SkipCheck \/ CheckPending
           \/ NothingPending \/ FilesMissing \/ RestorePending \/ AcceptNone \/ Accept
           \/ Plan \/ Mapped \/ NotRendered \/ Rendered \/ AnswerClient \/ Stop
    PROVE  AnswersMatch'
    <1> USE DEF Exchanging
    <1>1. CASE Started \/ LoopEnsure \/ LoopEnsured \/ SkipCheck \/ NothingPending \/ AcceptNone
          BY <1>1, MatchKept
             DEF Started, LoopEnsure, LoopEnsured, SkipCheck, NothingPending, AcceptNone,
                 MovesTo, CallRestart, Call, Keeps, rendererVars
    <1>2. CASE CheckPending \/ RestorePending \/ Plan \/ Mapped \/ NotRendered
          BY <1>2, MatchKept
             DEF CheckPending, RestorePending, Plan, Mapped, NotRendered, MovesTo, CallRequest,
                 Call, Keeps, rendererVars
    <1>3. CASE FilesMissing \/ Accept \/ Rendered \/ AnswerClient
          BY <1>3, MatchKept
             DEF FilesMissing, Accept, Rendered, AnswerClient, MovesTo, CallRequest, Call,
                 rendererVars
    <1>4. CASE Stop
          BY <1>4 DEF Stop, AnswersMatch, Alive
    <1>5. QED  BY <1>1, <1>2, <1>3, <1>4

\* The renderer answers only what it was asked: elsewhere its channel is empty.
LEMMA ServesInExchange ==
    ASSUME WorldType, LastRuns, Unasked, AnswersMatch, Serve
    PROVE  pc \in Exchanging
    <1>1. Running /\ channel.requests # <<>>
          BY DEF Serve, ServeHealth, ServeSet
    <1>2. channel # Closed
          BY <1>1 DEF Closed
    <1>3. Alive
      <2>1. Generation > 0 /\ children[Generation] = "running"
            BY <1>1, <1>2 DEF Running, Unasked
      <2>2. Generation \in 1..Generation
            BY <2>1 DEF WorldType, Generation
      <2>3. QED  BY <2>1, <2>2 DEF LastRuns, Alive
    <1>4. QED  BY <1>2, <1>3 DEF AnswersMatch, Exchanging

LEMMA CarriedReply ==
    ASSUME NEW request \in Requests, Carries(request), channel.requests # <<>>,
           NEW answer \in Answers, Replies(answer), Answered(request, answer)'
    PROVE  Head(channel.requests) = request /\ Carries(request)'
    <1>1. channel = [requests |-> <<request>>, answers |-> <<>>]
          BY DEF Carries
    <1>2. Head(channel.requests) = request
          BY <1>1
    <1>3. channel' = [requests |-> <<>>, answers |-> <<answer>>]
          BY <1>1 DEF Replies
    <1>4. /\ channel'.requests = <<>> /\ Len(channel'.answers) = 1
          /\ channel'.answers[1] = answer
          BY <1>3
    <1>5. QED  BY <1>2, <1>4 DEF Carries

LEMMA ServeCarries ==
    ASSUME WorldType, NEW request \in Requests, Carries(request), Serve
    PROVE  Carries(request)'
    <1>1. channel.requests # <<>>
          BY DEF Serve, ServeHealth, ServeSet
    <1>2. Head(channel.requests) = request
          BY <1>1 DEF Carries
    <1>3. output \in OutputStates
          BY DEF WorldType
    <1>4. CASE ServeHealth
      <2>1. Replies(Report(output)) /\ request = Health
            BY <1>2, <1>4 DEF ServeHealth
      <2>2. PICK answer \in Answers : answer = Report(output)
            BY <1>3, OutputChanges
      <2>3. Answered(request, answer)'
            BY <2>1, <2>2 DEF Answered, Report
      <2>4. QED  BY <1>1, <2>1, <2>2, <2>3, CarriedReply
    <1>5. CASE ServeSet
      <2>1. request # Health
            BY <1>2, <1>5 DEF ServeSet
      <2>2. \/ Replies(Answer("skipped")) \/ Replies(Answer("error"))
            \/ Replies(Answer("ack")) /\ accepted' = request.image
            BY <1>2, <1>5 DEF ServeSet
      <2>3. CASE Replies(Answer("skipped"))
            BY <1>1, <2>1, <2>3, CarriedReply, AnswerTypes DEF Answered, Answer
      <2>4. CASE Replies(Answer("error"))
            BY <1>1, <2>1, <2>4, CarriedReply, AnswerTypes DEF Answered, Answer
      <2>5. CASE Replies(Answer("ack")) /\ accepted' = request.image
            BY <1>1, <2>1, <2>5, CarriedReply, AnswerTypes DEF Answered, Answer
      <2>6. QED  BY <2>2, <2>3, <2>4, <2>5
    <1>6. QED  BY <1>4, <1>5 DEF Serve

LEMMA MatchOthers ==
    ASSUME Control, WorldType, LastRuns, Unasked, AnswersMatch, Renderer \/ Connect
    PROVE  AnswersMatch'
    <1>1. /\ pc' = pc /\ stack' = stack /\ outcome' = outcome /\ renderer' = renderer
          BY OthersKeep DEF supervisorVars
    <1>2. children \in Seq(States) /\ Generation = Len(children) /\ Generation \in Nat
          BY DEF WorldType, States, Generation
    <1>3. CASE Serve
      <2>1. pc \in Exchanging
            BY <1>3, ServesInExchange
      <2>2. CASE pc = "await"
        <3>1. stack[1] \in Frames
              BY <2>2, PopFrame DEF Control, ControlType, CallsNest, Loop
        <3>2. stack[1].request \in Requests
              BY <3>1 DEF Frames
        <3>3. Carries(stack[1].request)'
              BY <1>1, <1>3, <2>2, <3>2, ServeCarries DEF AnswersMatch
        <3>4. QED  BY <1>1, <2>2, <3>3 DEF AnswersMatch
      <2>3. CASE pc = "waitAnswer"
        <3>1. Carries(Health)'
              BY <1>3, <2>3, ServeCarries, AnswerTypes DEF AnswersMatch
        <3>2. QED  BY <1>1, <2>3, <3>1 DEF AnswersMatch
      <2>4. CASE pc = "restart"
            BY <1>1, <2>4 DEF AnswersMatch
      <2>5. QED  BY <2>1, <2>2, <2>3, <2>4 DEF Exchanging
    <1>4. ASSUME UNCHANGED <<channel, accepted>>, Alive' => Alive
          PROVE  AnswersMatch'
          BY <1>1, <1>4 DEF AnswersMatch, Carries, Answered
    <1>5. CASE ChildReady
      <2>1. ~Alive'
            BY <1>1, <1>5 DEF ChildReady, LastRuns, Alive
      <2>2. QED  BY <1>4, <1>5, <2>1 DEF ChildReady
    <1>6. ASSUME NEW g \in 1..Generation, children' = [children EXCEPT ![g] = "dead"]
          PROVE  Alive' => Alive
          BY <1>1, <1>2, <1>6, ChangeChild DEF Alive, States, LastRuns, Generation
    <1>7. CASE ChildDies
      <2>1. Generation \in 1..Generation
            BY <1>2, <1>7 DEF ChildDies, Running, LastRuns
      <2>2. QED  BY <1>4, <1>6, <1>7, <2>1 DEF ChildDies
    <1>8. CASE OrphanExits
          BY <1>4, <1>6, <1>8 DEF OrphanExits
    <1>9. CASE UNCHANGED <<children, channel, accepted>>
          BY <1>1, <1>4, <1>9 DEF Alive
    <1>10. QED  BY <1>3, <1>5, <1>7, <1>8, <1>9
                   DEF Renderer, Connect, Configure, Replug, PowerOff, PowerOn, OutputBecomes,
                       rendererVars

LEMMA MatchStep ==
    ASSUME Control, WorldType, LastRuns, Unasked, "late" \notin Faults, AnswersMatch,
           [Next]_vars
    PROVE  AnswersMatch'
    <1>1. CASE Step
          BY <1>1, MatchRequest, MatchRestart, MatchLoop DEF Step
    <1>2. CASE Renderer \/ Connect
          BY <1>2, MatchOthers
    <1>3. CASE UNCHANGED vars
          BY <1>3 DEF vars, supervisorVars, rendererVars, AnswersMatch, Alive, Carries, Answered
    <1>4. QED  BY <1>1, <1>2, <1>3 DEF Next

-----------------------------------------------------------------------------
(* The inductive invariant *)

LEMMA InductiveParts ==
    Inductive <=> /\ Control /\ WorldType /\ ClientServed /\ LastRuns /\ Unasked /\ Counted
                  /\ "late" \notin Faults => AnswersMatch
    BY TypeSplit DEF Inductive, Control, Counted

LEMMA InitInductive ==
    ASSUME Init
    PROVE  Inductive
    <1> DEFINE f == [to |-> "started", request |-> Health, image |-> NoImage]
    <1>1. f \in Frames /\ stack = <<f>>
          BY AnswerTypes DEF Init, Frames, RestartReturns
    <1>2. stack \in Seq(Frames) /\ Len(stack) = 1 /\ stack # <<>> /\ stack[1] = f
          BY <1>1
    <1>3. ControlType
          BY <1>2, AnswerTypes DEF Init, ControlType, Labels, InRestart
    <1>4. CallsNest
          BY <1>2 DEF Init, CallsNest, Callers, InRequest, Loop, RestartReturns
    <1>5. FramesPrepared
          BY <1>2 DEF Init, FramesPrepared
    <1>6. children = <<>> /\ Generation = 0
          BY DEF Init, Generation
    <1>7. WorldType
      <2>1. channel \in Channels
            BY ChannelChanges DEF Init, Closed, Channels
      <2>2. faults \in Nat /\ restartCount \in Nat /\ renderer \in 0..Generation
            BY <1>6, SupervisorAssumption DEF Init
      <2>3. children \in Seq({"starting", "ready", "running", "dead"})
            /\ queue \in Seq([client : Clients, command : Commands])
            BY DEF Init
      <2>4. serving \in [client : Clients \cup {"none"}, command : Commands \cup {"none"}]
            BY DEF Init, NoClient
      <2>5. QED  BY <2>1, <2>2, <2>3, <2>4, AnswerTypes DEF Init, WorldType, Channels
    <1>8. ClientServed
          BY <1>2 DEF Init, ClientServed, Served
    <1>9. LastRuns
          BY <1>6 DEF Init, LastRuns
    <1>10. Unasked /\ Counted
          BY <1>6 DEF Init, Unasked, Counted, Due
    <1>11. AnswersMatch
          BY DEF Init, AnswersMatch, Alive
    <1>12. QED  BY <1>3, <1>4, <1>5, <1>7, <1>8, <1>9, <1>10, <1>11, InductiveParts DEF Control

LEMMA InductiveStep ==
    ASSUME Inductive, [Next]_vars
    PROVE  Inductive'
    <1>1. /\ Control /\ WorldType /\ ClientServed /\ LastRuns /\ Unasked /\ Counted
          /\ "late" \notin Faults => AnswersMatch
          BY InductiveParts
    <1>2. Control' /\ WorldType' /\ ClientServed' /\ LastRuns' /\ Unasked' /\ Counted'
          BY <1>1, ControlStep, WorldStep, ServedStep, LastRunsStep, UnaskedStep, CountStep
    <1>3. "late" \notin Faults => AnswersMatch'
          BY <1>1, MatchStep
    <1>4. TypeOK'
          BY <1>2 DEF TypeOK, Control, ControlType, WorldType, Labels
    <1>5. QED  BY <1>2, <1>3, <1>4 DEF Inductive, Control, Counted

\* The supervisor's state is well typed, its calls nest, only the generation it
\* holds runs, and an answer it waits for is the one to its request.
THEOREM SupervisorInductive == Spec => []Inductive
    <1>1. Init => Inductive
          BY InitInductive
    <1>2. Inductive /\ [Next]_vars => Inductive'
          BY InductiveStep
    <1>3. QED  BY <1>1, <1>2, PTL DEF Spec

\* Two renderers never draw at the same time, whatever dies or starts too late.
THEOREM SupervisorOneRendererDraws == Spec => []OneRendererDraws
    <1> DEFINE running == {g \in DOMAIN children : children[g] = "running"}
    <1>1. ASSUME Inductive
          PROVE  OneRendererDraws
      <2>1. children \in Seq(States) /\ LastRuns
            BY <1>1 DEF Inductive, TypeOK, States
      <2>2. DOMAIN children = 1..Generation
            BY <2>1 DEF Generation
      <2>3. PICK only : \A g \in 1..Generation : children[g] = "running" => g = only
            BY <2>1 DEF LastRuns
      <2>4. running = {} \/ running = {only}
            BY <2>2, <2>3
      <2>5. Cardinality({}) = 0 /\ Cardinality({only}) = 1
            BY FS_EmptySet, FS_Singleton
      <2>6. Cardinality(running) \in {0, 1}
            BY <2>4, <2>5
      <2>7. Cardinality(running) <= 1
            BY <2>6
      <2>8. Running /\ accepted # NoImage => renderer = Generation
        <3>1. Running /\ accepted # NoImage =>
                  Generation \in 1..Generation /\ children[Generation] = "running"
              BY <1>1, <2>1 DEF Inductive, Unasked, Running, Generation
        <3>2. QED  BY <2>1, <3>1 DEF LastRuns
      <2>9. QED  BY <2>7, <2>8 DEF OneRendererDraws
    <1>2. QED  BY <1>1, SupervisorInductive, PTL

\* The supervisor never restarts a renderer that nothing has happened to.
THEOREM SupervisorRestartsAreCaused == Spec => []RestartsAreCaused
    <1>1. ASSUME Inductive
          PROVE  RestartsAreCaused
      <2>1. /\ restartCount \in Nat /\ faults \in Nat /\ Due \in {0, 1}
            /\ restartCount + Due <= faults
            BY <1>1, InductiveParts, CountTypes DEF Counted
      <2>2. QED  BY <2>1 DEF RestartsAreCaused
    <1>2. QED  BY <1>1, SupervisorInductive, PTL

LEMMA CurrentKept ==
    ASSUME [Next]_vars, ~Restored, ~Rendered
    PROVE  current' = current
    <1>1. CASE Step
          BY <1>1
             DEF Step, EnsureRenderer, Ensured, SendWithoutRenderer, Send, SendFails, Await,
                 AwaitFails, Reported, Restart, Spawn, SpawnReady, SpawnFails, WaitSend,
                 WaitDone, WaitAgain, WaitAnswer, WaitFails, Restore, RestorePlan,
                 RestoreSkipped, Started, LoopEnsure, LoopEnsured, SkipCheck, CheckPending,
                 NothingPending, FilesMissing, RestorePending, AcceptNone, Accept, Plan,
                 Mapped, NotRendered, AnswerClient, Stop, MovesTo, Keeps
    <1>2. CASE Renderer \/ Connect
          BY <1>2, OthersKeep DEF supervisorVars
    <1>3. CASE UNCHANGED vars
          BY <1>3 DEF vars, supervisorVars
    <1>4. QED  BY <1>1, <1>2, <1>3 DEF Next

\* When no readiness check is given up, a wall is committed only on the renderer's
\* own answer to the request that set it.
THEOREM SupervisorCommitsAreAccepted ==
    ASSUME "late" \notin Faults
    PROVE  Spec => CommitsAreAccepted
    <1> DEFINE Commits == current' # current =>
                            accepted = current' \/ outcome.answer.is = "skipped"
    <1>1. ASSUME Inductive, [Next]_vars
          PROVE  [Commits]_vars
      <2>1. CASE Restored \/ Rendered
        <3>1. \/ outcome.answer.is = "failed"
              \/ Answered(Set(outcome.image), outcome.answer)
              BY <1>1, <2>1 DEF Inductive, AnswersMatch, Restored, Rendered
        <3>2. Set(outcome.image) # Health /\ Set(outcome.image).image = outcome.image
              BY DEF Set, Health
        <3>3. current' = Committed
              BY <2>1 DEF Restored, Rendered
        <3>4. QED  BY <3>1, <3>2, <3>3 DEF Committed, IsError, Answered
      <2>2. CASE ~Restored /\ ~Rendered
            BY <1>1, <2>2, CurrentKept
      <2>3. QED  BY <2>1, <2>2
    <1>2. QED  BY <1>1, SupervisorInductive, PTL DEF Spec, CommitsAreAccepted
=============================================================================
