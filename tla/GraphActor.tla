------------------------------ MODULE GraphActor ------------------------------
(***************************************************************************)
(* The actor that owns one flow (actor/graph.go) with its journal and its  *)
(* replay (persistence/plugin.go).  The actor is single threaded: it       *)
(* handles one message at a time.  Handling a message runs a cascade of    *)
(* nested calls, each of which appends an event to the journal and applies *)
(* it to the graph; the cascade is the variable stack, one step per frame. *)
(* The process or the actor may fail between any two steps, which loses    *)
(* everything but the journal; the next incarnation replays the journal    *)
(* and then calls Recover.                                                 *)
(***************************************************************************)
EXTENDS CompletionGraph

CONSTANTS
    Operations,     \* the operations clients use
    External,       \* the operations whose stages clients complete externally
    FailureKinds,   \* the failures considered: "restart", "crash", "passivate"
    Provider,       \* the persistence provider: "inmem", "mysql" or "sqlite3"
    MaxDeps,        \* bound on the dependencies of allOf and anyOf
    MaxSpawns       \* bound on the number of incarnations of the actor

ASSUME BoundsAssumption ==
    /\ Operations \subseteq Operation /\ External \subseteq Operation
    /\ MaxDeps \in Nat /\ MaxSpawns \in Nat
    /\ Provider \in {"inmem", "mysql", "sqlite3"}

VARIABLES
    journal,     \* the persisted events of this graph
    graph,       \* graphActor.graph
    actor,       \* "down", "replaying" (Mixin.recovering) or "up"
    cursor,      \* next event to replay
    replayEnd,   \* last event of this replay: GetEvents reads what was there at its start
    stack,       \* pending calls of the message being handled
    inflight,    \* invocations the executor has not answered yet
    timers,      \* stages with a running delay goroutine
    deactivate,  \* the actor has told itself DeactivateGraphRequest
    spawns       \* incarnations so far

vars == << journal, graph, actor, cursor, replayEnd, stack, inflight, timers,
           deactivate, spawns >>

replayVars == << actor, cursor, replayEnd, spawns >>

envVars == << inflight, timers, deactivate >>

Init ==
    /\ journal = <<>>
    /\ graph = NilGraph
    /\ actor = "down"
    /\ cursor = 1
    /\ replayEnd = 0
    /\ stack = <<>>
    /\ inflight = {}
    /\ timers = {}
    /\ deactivate = FALSE
    /\ spawns = 0

Recovering == actor = "replaying"

Idle == actor = "up" /\ stack = <<>>

-----------------------------------------------------------------------------
(***************************************************************************)
(* Persisting.                                                             *)
(***************************************************************************)

\* persistAndUpdateGraph(e), with the calls rest left to do afterwards.
persistAndUpdateGraph(e, rest) ==
    /\ journal' = Append(journal, e)
    /\ graph' = UpdateWithEvent(graph, e)
    /\ stack' = CallsAfter(UpdateWithEvent(graph, e), e, ~ Recovering) \o rest

\* PersistReceive of an InvocationStarted event and the request to the
\* executor.  A call is known by the position of its event in the journal.
Invoke(s, args) ==
    /\ journal' = Append(journal, InvocationStarted(s))
    /\ inflight' = inflight \union {[stage |-> s, call |-> Len(journal) + 1, args |-> args]}

-----------------------------------------------------------------------------
(***************************************************************************)
(* The calls of a cascade.  Only the top frame runs.                       *)
(***************************************************************************)
Calling(call) == stack # <<>> /\ Head(stack).call = call

PersistCall ==
    /\ Calling("persist")
    /\ Head(stack).event.type \notin {"InvocationStarted", "DelayScheduled"}
    /\ Recovering => Provider = "inmem"
    /\ persistAndUpdateGraph(Head(stack).event, Tail(stack))
    /\ UNCHANGED << replayVars, envVars >>

InsertAt(p, e) ==
    [i \in 1 .. Len(journal) + 1 |->
       IF i < p THEN journal[i] ELSE IF i = p THEN e ELSE journal[i - 1]]

\* OnCompleteStage has no Recovering guard.  While the actor replays an event,
\* eventIndex is the index of that event, so the row that is written sorts with
\* it and not at the end; the rows under the cursor of GetEvents stay the same.
\* With sqlite3 the pool has one connection, which GetEvents holds: the write
\* never returns and this call never runs.
PersistReplaying ==
    /\ Calling("persist")
    /\ Recovering /\ Provider = "mysql"
    /\ LET e == Head(stack).event
           g == UpdateWithEvent(graph, e)
       IN  /\ journal' = InsertAt(cursor, e)
           /\ graph' = g
           /\ stack' = CallsAfter(g, e, FALSE) \o Tail(stack)
    /\ cursor' = cursor + 1
    /\ replayEnd' = replayEnd + 1
    /\ UNCHANGED << actor, spawns, envVars >>

Blocked == Calling("persist") /\ Recovering /\ Provider = "sqlite3"

\* The second half of adding an invokeFunction stage.
PersistInvocation ==
    /\ Calling("persist")
    /\ Head(stack).event.type = "InvocationStarted"
    /\ Invoke(Head(stack).event.stage, <<>>)
    /\ stack' = Tail(stack)
    /\ UNCHANGED << graph, replayVars, timers, deactivate >>

scheduleDelay(s) == timers' = timers \union {s}

\* The second half of adding a delay stage: PersistReceive and scheduleDelay.
PersistDelay ==
    /\ Calling("persist")
    /\ Head(stack).event.type = "DelayScheduled"
    /\ journal' = Append(journal, Head(stack).event)
    /\ scheduleDelay(Head(stack).event.stage)
    /\ stack' = Tail(stack)
    /\ UNCHANGED << graph, replayVars, inflight, deactivate >>

\* The loop of triggerReadyStages ranges over a map, in any order.  It acts
\* on the ready stages only.  A stage the loop has passed and that becomes
\* ready later does so by a completion, whose own nested loop takes it, so
\* the loop needs no record of the stages it has passed.
TriggerInvoke(s) ==
    LET t == requestTrigger(graph, s)
        x == ExecutionStrategy(graph.stages[s].op, t.status)
    IN  /\ x \in {"invokeWithoutArgs", "invokeWithResult", "invokeWithResultOrError"}
        /\ Invoke(s, InvocationArgs(x, t.inputs))
        /\ graph' = MarkTriggered(graph, s)
        /\ UNCHANGED << stack, replayVars, timers, deactivate >>

TriggerComplete(s) ==
    LET t == requestTrigger(graph, s)
        x == ExecutionStrategy(graph.stages[s].op, t.status)
        r == IF x = "succeedWithEmpty" THEN NewSuccessfulResult("empty") ELSE t.inputs[1]
    IN  /\ x \in {"succeedWithEmpty", "propagateResult"}
        /\ persistAndUpdateGraph(StageCompleted(s, r), stack)
        /\ UNCHANGED << replayVars, envVars >>

TriggerExternal(s) ==
    /\ ExecutionStrategy(graph.stages[s].op, requestTrigger(graph, s).status) = "completeExternally"
    /\ graph' = MarkTriggered(graph, s)
    /\ UNCHANGED << journal, stack, replayVars, envVars >>

triggerReadyStages ==
    /\ Calling("trigger")
    /\ \E s \in ReadyStages(graph) :
         TriggerInvoke(s) \/ TriggerComplete(s) \/ TriggerExternal(s)

\* The loop of Recover: a stage that would trigger now was triggered before.
RecoverStage ==
    /\ Calling("recover")
    /\ \E s \in ReadyStages(graph) :
         persistAndUpdateGraph(StageCompleted(s, NewFailedResult("stage_lost")), stack)
    /\ UNCHANGED << replayVars, envVars >>

LoopDone ==
    /\ Calling("trigger") \/ Calling("recover")
    /\ ReadyStages(graph) = {}
    /\ stack' = Tail(stack)
    /\ UNCHANGED << journal, graph, replayVars, envVars >>

ExecutionFinished(g) == g.state = "committed" /\ PendingMain(g) = {}

HooksFinished(g) == g.state = "terminating" /\ PendingHooks(g) = {}

OnGraphExecutionFinished ==
    /\ Calling("check")
    /\ ExecutionFinished(graph) /\ ~ Recovering
    /\ persistAndUpdateGraph(GraphTerminating, Tail(stack))
    /\ UNCHANGED << replayVars, envVars >>

OnGraphComplete ==
    /\ Calling("check")
    /\ HooksFinished(graph) /\ ~ Recovering
    /\ persistAndUpdateGraph(GraphCompleted, Tail(stack))
    /\ deactivate' = TRUE
    /\ UNCHANGED << replayVars, inflight, timers >>

CheckDone ==
    /\ Calling("check")
    /\ (ExecutionFinished(graph) \/ HooksFinished(graph)) => Recovering
    /\ stack' = Tail(stack)
    /\ UNCHANGED << journal, graph, replayVars, envVars >>

Step ==
    \/ PersistCall \/ PersistReplaying \/ PersistInvocation \/ PersistDelay
    \/ triggerReadyStages \/ RecoverStage \/ LoopDone
    \/ OnGraphExecutionFinished \/ OnGraphComplete \/ CheckDone

-----------------------------------------------------------------------------
(***************************************************************************)
(* Commands (receiveCommand).  One is taken when no other is being handled.*)
(* A command that fails validation answers with an error and changes       *)
(* nothing; reads (GetGraphState, AwaitStageResult) change nothing either. *)
(***************************************************************************)
HasGraph == graph.state # "nil"

CreateGraph ==
    /\ Idle /\ ~ HasGraph
    /\ journal' = Append(journal, GraphCreated)
    /\ graph' = New
    /\ UNCHANGED << stack, replayVars, envVars >>

\* Adding a stage: StageAdded is persisted and applied, then the rest of the
\* command runs.
AddStageThen(op, deps, hasClosure, rest) ==
    /\ Idle /\ HasGraph
    /\ ValidateAdd(graph, op, deps, hasClosure)
    /\ persistAndUpdateGraph(StageAdded(NextStageID(graph), op, deps), rest)
    /\ UNCHANGED << replayVars, envVars >>

AddStage(op, deps, hasClosure) == AddStageThen(op, deps, hasClosure, <<>>)

AddCompletedValue(r) ==
    AddStageThen("completedValue", <<>>, FALSE,
                 << Persist(StageCompleted(NextStageID(graph), r)) >>)

AddDelay ==
    AddStageThen("delay", <<>>, FALSE, << Persist(DelayScheduled(NextStageID(graph))) >>)

AddInvokeFunction ==
    AddStageThen("invokeFunction", <<>>, FALSE,
                 << Persist(InvocationStarted(NextStageID(graph))) >>)

CompleteStageExternally(s, r) ==
    /\ Idle /\ HasGraph
    /\ ~ StageResolved(graph, s)
    /\ persistAndUpdateGraph(StageCompleted(s, r), <<>>)
    /\ UNCHANGED << replayVars, envVars >>

Commit_Unchecked ==
    /\ Idle /\ HasGraph
    /\ persistAndUpdateGraph(GraphCommitted, <<>>)
    /\ UNCHANGED << replayVars, envVars >>

Commit ==
    /\ Idle /\ HasGraph
    /\ ~ IsCommitted(graph)
    /\ persistAndUpdateGraph(GraphCommitted, <<>>)
    /\ UNCHANGED << replayVars, envVars >>

\* A delay goroutine fires: CompleteDelayStageRequest.
CompleteDelay(s) ==
    /\ Idle /\ HasGraph
    /\ s \in timers
    /\ timers' = timers \ {s}
    /\ IF StageResolved(graph, s)
         THEN UNCHANGED << journal, graph, stack >>
         ELSE persistAndUpdateGraph(StageCompleted(s, NewSuccessfulResult("empty")), <<>>)
    /\ UNCHANGED << replayVars, inflight, deactivate >>

\* The executor answers call i with result r.
FaasInvocationResponse(i, r) ==
    /\ Idle /\ HasGraph
    /\ inflight' = inflight \ {i}
    /\ persistAndUpdateGraph(InvocationCompleted(i.stage, r), <<>>)
    /\ UNCHANGED << replayVars, timers, deactivate >>

ClientOperations == Operations \ {"completedValue", "delay", "invokeFunction"}

\* What a client or a function may answer with.
Values == {NewSuccessfulResult("blob"), NewFailedResult("blob")}

\* The answers to the invocation of a closure: a value, an error of the closure
\* or of the platform, or, for a composing stage, a reference to a stage, known
\* or not.
HandleInvokeStage(s) ==
    {NewSuccessfulResult("blob"), NewFailedResult("stage_failed")} \union
    IF getStrategyFromOperation(graph.stages[s].op).result = "referencedStageResult"
      THEN {NewStageRefResult(i) : i \in 1 .. NextStageID(graph)}
      ELSE {}

\* The answers to a function call: its response, or an error response or error
\* of the platform.
HandleInvokeFunction(s) == {NewSuccessfulResult("blob"), NewFailedResult("stage_failed")}

Responses(s) ==
    IF graph.stages[s].op = "invokeFunction" THEN HandleInvokeFunction(s) ELSE HandleInvokeStage(s)

Answer(i) ==
    Idle /\ HasGraph /\ \E r \in Responses(i.stage) : FaasInvocationResponse(i, r)

DependencyLists(n) == UNION {[1 .. k -> StageIds(graph)] : k \in 0 .. n}

Command == Idle /\
   (\/ CreateGraph
    \/ \E op \in ClientOperations : \E deps \in DependencyLists(MaxDeps) :
         \E c \in BOOLEAN : AddStage(op, deps, c)
    \/ "completedValue" \in Operations /\ \E r \in Values : AddCompletedValue(r)
    \/ "delay" \in Operations /\ AddDelay
    \/ "invokeFunction" \in Operations /\ AddInvokeFunction
    \/ \E s \in StageIds(graph), r \in Values :
         graph.stages[s].op \in External /\ CompleteStageExternally(s, r)
    \/ Commit)

-----------------------------------------------------------------------------
(***************************************************************************)
(* Incarnations.  A spawned actor replays its journal (Mixin.init), with   *)
(* the listener still persisting completions of composed stages, and then  *)
(* recovers (ReplayComplete).                                              *)
(***************************************************************************)
Spawn_FromZero ==
    /\ actor = "down"
    /\ spawns < MaxSpawns
    /\ actor' = "replaying"
    /\ cursor' = 0
    /\ replayEnd' = Len(journal)
    /\ spawns' = spawns + 1
    /\ UNCHANGED << journal, graph, stack, envVars >>

Spawn ==
    /\ actor = "down"
    /\ spawns < MaxSpawns
    /\ actor' = "replaying"
    /\ cursor' = 1
    /\ replayEnd' = Len(journal)
    /\ spawns' = spawns + 1
    /\ UNCHANGED << journal, graph, stack, envVars >>

Replay_NoTimers ==
    /\ Recovering /\ stack = <<>>
    /\ cursor <= replayEnd
    /\ LET e == journal[cursor]
       IN  /\ graph' = IF e.type = "GraphCreated" THEN New ELSE UpdateWithEvent(graph, e)
           /\ stack' = CallsAfter(UpdateWithEvent(graph, e), e, FALSE)
    /\ cursor' = cursor + 1
    /\ UNCHANGED << journal, actor, replayEnd, spawns, envVars >>

Replay ==
    /\ Recovering /\ stack = <<>>
    /\ cursor <= replayEnd
    /\ LET e == journal[cursor]
       IN  /\ graph' = IF e.type = "GraphCreated" THEN New ELSE UpdateWithEvent(graph, e)
           /\ stack' = CallsAfter(UpdateWithEvent(graph, e), e, FALSE)
           /\ IF e.type = "DelayScheduled" THEN scheduleDelay(e.stage) ELSE UNCHANGED timers
    /\ cursor' = cursor + 1
    /\ UNCHANGED << journal, actor, replayEnd, spawns, inflight, deactivate >>

ReplayComplete_NoRecover ==
    /\ Recovering /\ stack = <<>>
    /\ cursor > replayEnd
    /\ actor' = "up"
    /\ UNCHANGED << journal, graph, cursor, replayEnd, stack, spawns, envVars >>

ReplayComplete ==
    /\ Recovering /\ stack = <<>>
    /\ cursor > replayEnd
    /\ actor' = "up"
    /\ stack' = IF HasGraph THEN << RecoverLost, Trigger, Check >> ELSE <<>>
    /\ UNCHANGED << journal, graph, cursor, replayEnd, spawns, envVars >>

Stop ==
    /\ actor' = "down"
    /\ graph' = NilGraph
    /\ stack' = <<>>
    /\ UNCHANGED << journal, cursor, replayEnd, spawns >>

\* A panic (a failed write to the journal, say): the supervisor restarts the
\* actor, whose mailbox, timers and calls survive.
RestartActor ==
    /\ actor # "down" /\ ~ Blocked /\ spawns < MaxSpawns
    /\ Stop
    /\ UNCHANGED envVars

\* The process dies and with it the executor's calls, timers and mailboxes.
\* With the in-memory provider the flow dies too, and there is nothing to check.
CrashProcess ==
    /\ actor # "down" /\ Provider # "inmem" /\ spawns < MaxSpawns
    /\ Stop
    /\ inflight' = {} /\ timers' = {} /\ deactivate' = FALSE

\* Through the supervisor the actor is stopped by a poison pill.  A later
\* message spawns it again under the same name: answers and timers then reach
\* the new incarnation, those that come before are dead letters.
Passivate ==
    /\ Idle
    /\ Stop
    /\ deactivate' = FALSE
    /\ inflight' \in SUBSET inflight
    /\ timers' \in SUBSET timers

\* The actor handles the DeactivateGraphRequest it sent itself on completion.
Deactivate == deactivate /\ Passivate

\* No message for the commit, completion or read timeout.
ReceiveTimeout == ~ deactivate /\ spawns < MaxSpawns /\ Passivate

Incarnation == Spawn \/ Replay \/ ReplayComplete

Failure ==
    \/ "restart" \in FailureKinds /\ RestartActor
    \/ "crash" \in FailureKinds /\ CrashProcess
    \/ "passivate" \in FailureKinds /\ ReceiveTimeout

Next ==
    \/ Step
    \/ Command
    \/ \E s \in timers : CompleteDelay(s)
    \/ \E i \in inflight : Answer(i)
    \/ Incarnation
    \/ Deactivate
    \/ Failure

Spec == Init /\ [][Next]_vars
=============================================================================
