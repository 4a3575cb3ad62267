---------------------------- MODULE FlowProperties ----------------------------
(***************************************************************************)
(* What is to hold of a graph actor, across failures.  Properties speak of *)
(* the journal, which survives, and of how the graph in memory agrees with *)
(* it.                                                                     *)
(***************************************************************************)
EXTENDS GraphActor

Positions(type) == {i \in DOMAIN journal : journal[i].type = type}

Before(type, i) == \E j \in Positions(type) : j < i

\* Stages of the journal, and the hooks among them.
HookStages ==
    {journal[i].stage : i \in {j \in Positions("StageAdded") : journal[j].op = "terminationHook"}}

AddedBefore(i) == {journal[j].stage : j \in {k \in Positions("StageAdded") : k < i}}

CompletedBefore(i) == {journal[j].stage : j \in {k \in Positions("StageCompleted") : k < i}}

Completions(s) == {i \in Positions("StageCompleted") : journal[i].stage = s}

\* The result the journal gives stage s: that of its first completion.
JournalResult(s) == IF Completions(s) = {} THEN NoResult ELSE journal[First(Completions(s))].result

-----------------------------------------------------------------------------
(* Types of the variables. *)
Call == [stage : Nat, call : Nat, args : Seq(Result)]

TypeOK ==
    /\ journal \in Seq(Event)
    /\ graph \in Graph
    /\ actor \in {"down", "replaying", "up"}
    /\ cursor \in Nat \ {0} /\ replayEnd \in Nat /\ spawns \in Nat
    /\ stack \in Seq(Frame)
    /\ inflight \subseteq Call
    /\ timers \subseteq Nat
    /\ deactivate \in BOOLEAN

-----------------------------------------------------------------------------
LifecycleOrder == [t \in LifecycleType |->
    CASE t = "GraphCreated" -> 1 [] t = "GraphCommitted" -> 2
      [] t = "GraphTerminating" -> 3 [] t = "GraphCompleted" -> 4]

\* The journal tells one life: created, committed, terminating, completed, each
\* at most once, in this order and none skipped, however often the actor failed
\* and recovered in between (handleCommitted, checkForExecutionFinished and the
\* guards of OnGraphExecutionFinished and OnGraphComplete); and no stage is
\* added once termination has begun (canModifyGraph).
OneLife ==
    /\ \A i, j \in DOMAIN journal :
         i < j /\ journal[i].type \in LifecycleType /\ journal[j].type \in LifecycleType
           => LifecycleOrder[journal[i].type] < LifecycleOrder[journal[j].type]
    /\ \A i \in DOMAIN journal :
         /\ i = 1 <=> journal[i].type = "GraphCreated"
         /\ journal[i].type = "GraphTerminating" => Before("GraphCommitted", i)
         /\ journal[i].type = "GraphCompleted" => Before("GraphTerminating", i)
         /\ journal[i].type = "StageAdded" => ~ Before("GraphTerminating", i)

\* Termination is recorded only after every regular stage has a recorded
\* completion, and the end only after every hook has one too
\* (checkForExecutionFinished, getPendingCount).
DrainedBeforeEnd ==
    /\ \A i \in Positions("GraphTerminating") :
         AddedBefore(i) \ HookStages \subseteq CompletedBefore(i)
    /\ \A i \in Positions("GraphCompleted") : AddedBefore(i) \subseteq CompletedBefore(i)

\* The first recorded result of a stage is its result for good: in a running
\* actor every stage has exactly the result of its first completion in the
\* journal, and a replay never shows another one (CompletionStage.complete,
\* receiveEvent, and the completions that composition persists during replay).
FirstResultWins ==
    \A s \in StageIds(graph) :
        LET r == graph.stages[s].result
        IN  r = JournalResult(s) \/ (Recovering /\ ~ IsResolved(r))

\* The panics of the handlers are unreachable: a completion or composition
\* names a known stage, a propagated result is one result, the parent of an
\* answered hook or whenComplete stage is resolved, and replay meets stages in
\* the order of their identifiers, after their dependencies.
HandlersDontPanic ==
    /\ Calling("persist") =>
         /\ Head(stack).event.stage \in StageIds(graph)
         /\ Head(stack).event.type = "StageComposed" => Head(stack).event.inner \in StageIds(graph)
    /\ \A s \in ReadyStages(graph) :
         LET t == requestTrigger(graph, s)
         IN  ExecutionStrategy(graph.stages[s].op, t.status) \in
               {"propagateResult", "invokeWithResultOrError"} => Len(t.inputs) = 1
    /\ Idle => \A i \in inflight :
         /\ i.stage \in StageIds(graph)
         /\ getStrategyFromOperation(graph.stages[i.stage].op).result = "parentStageResult" =>
              /\ Len(graph.stages[i.stage].deps) = 1
              /\ IsResolved(DependencyResult(graph, graph.stages[i.stage].deps[1]))
    /\ (Recovering /\ stack = <<>> /\ cursor <= replayEnd) =>
         LET e == journal[cursor]
         IN  /\ e.type # "GraphCreated" => HasGraph
             /\ e.type = "StageAdded" =>
                  /\ e.stage = NextStageID(graph)
                  /\ \A i \in DOMAIN e.deps : e.deps[i] \in StageIds(graph)
             /\ e.type \in {"StageCompleted", "StageComposed"} => e.stage \in StageIds(graph)

\* Between messages nothing is left undone: no stage is ready but not
\* triggered, and a flow that could terminate or complete has done so
\* (triggerReadyStages and checkForExecutionFinished run where they must).
NothingLeftUndone ==
    Idle => /\ ReadyStages(graph) = {}
            /\ ~ ExecutionFinished(graph)
            /\ ~ HooksFinished(graph)

\* Between messages every stage that is running is waiting for something: for
\* an answer of the executor, or for the stage it has been composed with; and
\* a scheduled delay has a running timer, however often the actor was restarted
\* (Recover, OnExecuteStage, scheduleDelay during replay).  A function call is
\* in flight as long as its stage is unresolved, until the first failure: a
\* recovery that completes another stage first forgets a call that was lost.
RunningStagesAwaited ==
    Idle => \A s \in StageIds(graph) : ~ StageResolved(graph, s) =>
        /\ graph.stages[s].triggered /\ graph.stages[s].op # "invokeFunction" =>
             \/ \E i \in inflight : i.stage = s
             \/ \E j \in Positions("StageComposed") : journal[j].stage = s
        /\ graph.stages[s].op = "invokeFunction" =>
             spawns > 1 \/ \E i \in inflight : i.stage = s
        /\ (\E j \in Positions("DelayScheduled") : journal[j].stage = s) => s \in timers

\* Within one incarnation of the actor a stage is invoked at most once
\* (CompletionStage.triggered).
InvokedOncePerIncarnation ==
    \A i, j \in Positions("InvocationStarted") :
        i > replayEnd /\ j > replayEnd /\ journal[i].stage = journal[j].stage => i = j

\* A stage that is the last to have been composed with another one has a
\* result as soon as that one has (handleStageComposed, handleStageCompleted).
LastComposedCompletes ==
    Idle => \A i \in Positions("StageComposed") :
        LET inner == journal[i].inner
        IN  (/\ \A j \in Positions("StageComposed") : journal[j].inner = inner => j <= i
             /\ StageResolved(graph, inner))
            => StageResolved(graph, journal[i].stage)

\* Unless a client completes a hook itself before the flow terminates, hooks
\* run only once the flow terminates, one after the other, the last one added
\* first (handleAddTerminationHook).
HooksRunLIFO ==
    (\A i \in Positions("StageCompleted") :
        journal[i].stage \in HookStages => Before("GraphTerminating", i))
    => \A i \in Positions("InvocationStarted") :
         journal[i].stage \in HookStages =>
             /\ Before("GraphTerminating", i)
             /\ {h \in HookStages : h > journal[i].stage} \subseteq CompletedBefore(i)

\* Where stages are neither completed by clients nor lost, the outcome of a
\* stage follows from the outcomes of its dependencies as the table of stage
\* types in docs/API.md has it: a stage that waits for all of them is invoked,
\* or completes, successfully only if all are successful; one that waits for
\* any of them if one is; a failure is passed on, or handed to the closure of
\* an exceptional stage, only once all are failed (waitForAll, triggerAny).
DependenciesExplainOutcomes ==
    \A s \in StageIds(graph) :
        LET rs      == DependencyResults(graph, s)
            r       == graph.stages[s].result
            op      == graph.stages[s].op
            invoked == \E i \in Positions("InvocationStarted") : journal[i].stage = s
        IN  CASE op = "allOf" ->
                   IsResolved(r) => AllResolved(rs) /\ (IsSuccessful(r) <=> Successes(rs) = DOMAIN rs)
              [] op = "thenCombine" ->
                   /\ invoked => Successes(rs) = DOMAIN rs
                   /\ IsResolved(r) /\ ~ invoked => r \in {rs[i] : i \in Failures(rs)}
              [] op = "anyOf" ->
                   /\ IsSuccessful(r) => r \in {rs[i] : i \in Successes(rs)}
                   /\ IsFailed(r) => Failures(rs) = DOMAIN rs
              [] op \in {"applyToEither", "thenApply", "thenCompose"} ->
                   /\ invoked => Successes(rs) # {}
                   /\ IsResolved(r) /\ ~ invoked => Failures(rs) = DOMAIN rs /\ IsFailed(r)
              [] op = "exceptionally" ->
                   /\ invoked => Failures(rs) = DOMAIN rs
                   /\ IsResolved(r) /\ ~ invoked => r \in {rs[i] : i \in Successes(rs)}
              [] op = "whenComplete" -> IsResolved(r) => r = rs[1]
              [] OTHER -> TRUE

-----------------------------------------------------------------------------
(***************************************************************************)
(* Progress.  The actor runs the message it is handling to its end; the    *)
(* supervisor respawns or restarts it after a failure and replay runs to   *)
(* its end; the executor answers every call, by its 300 s client timeout   *)
(* at the latest (executor.go:58); timers fire.  Clients owe nothing.      *)
(***************************************************************************)
Fairness ==
    /\ WF_vars(Step)
    /\ WF_vars(Incarnation)
    /\ WF_vars(\E i \in inflight : Answer(i))
    /\ WF_vars(\E s \in timers : CompleteDelay(s))

FairSpec == Spec /\ Fairness

\* A committed flow ends: once the journal has GraphCommitted it will have
\* GraphCompleted, through crashes and restarts with work in flight, unless a
\* regular stage has been made to depend on a termination hook
\* (checkForExecutionFinished, Recover, triggerReadyStages).
CommittedFlowEnds ==
    (Positions("GraphCommitted") # {}) ~>
        \/ Positions("GraphCompleted") # {}
        \/ \E i \in Positions("StageAdded") :
             \E d \in DOMAIN journal[i].deps : journal[i].deps[d] \in HookStages

\* model.proto on GraphCommitted: the graph will finish when all its nodes have
\* completed, whatever happens in between (checkForExecutionFinished, Recover).
FinishesWhenDrained ==
    (Positions("GraphCommitted") # {} /\ AddedBefore(Len(journal) + 1) \subseteq CompletedBefore(Len(journal) + 1))
        ~> Positions("GraphCompleted") # {}

-----------------------------------------------------------------------------
(***************************************************************************)
(* A statement of the repository that its code does not keep.              *)
(***************************************************************************)

\* docs/Clustering.md: graph computations, which may have side effects, are
\* run at most once; graph.go: pending triggered stages are failed on recovery.
InvokedAtMostOnce ==
    \A i, j \in Positions("InvocationStarted") : journal[i].stage = journal[j].stage => i = j

-----------------------------------------------------------------------------
(***************************************************************************)
(* The invariant from which OneLife and TypeOK follow by induction: journal,*)
(* graph, pending calls and outstanding work agree on the stages there are *)
(* and on the lifecycle state, also in the middle of a cascade or a replay.*)
(***************************************************************************)

\* The stages and stage pointers of a graph are within the graph.
GraphOK(g) ==
    /\ g.terminationChainHead \in 0 .. Len(g.stages)
    /\ \A s \in StageIds(g) :
         /\ g.stages[s].composeReference \in 0 .. Len(g.stages)
         /\ \A d \in DOMAIN g.stages[s].deps : g.stages[s].deps[d] \in 0 .. Len(g.stages)
         /\ getStrategyFromOperation(g.stages[s].op).result = "parentStageResult" =>
              g.stages[s].deps # <<>>

\* A recorded event names stages that were added before it, and stages are
\* added under consecutive identifiers.
EventOK(i) ==
    LET e == journal[i]
    IN  /\ e.type = "StageAdded" =>
             /\ AddedBefore(i) = 1 .. e.stage - 1 /\ e.stage > 0
             /\ \A d \in DOMAIN e.deps : e.deps[d] \in AddedBefore(i)
             /\ e.op = "whenComplete" => e.deps # <<>>
        /\ e.type \notin LifecycleType \union {"StageAdded"} => e.stage \in AddedBefore(i)
        /\ e.type = "StageComposed" => e.inner \in AddedBefore(i)

\* A pending call to the journal records the progress of stages of the graph.
FrameOK(g, f) ==
    f.call = "persist" =>
        /\ f.event.type \in {"StageCompleted", "StageComposed", "DelayScheduled", "InvocationStarted"}
        /\ f.event.stage \in StageIds(g)
        /\ f.event.type = "StageComposed" => f.event.inner \in StageIds(g)

\* The part of the journal that the graph in memory reflects.
Applied == IF Recovering THEN cursor - 1 ELSE Len(journal)

Seen(type, n) == \E i \in DOMAIN journal : i <= n /\ journal[i].type = type

StateAfter(n) ==
    IF Seen("GraphCompleted", n) THEN "completed"
    ELSE IF Seen("GraphTerminating", n) THEN "terminating"
    ELSE IF Seen("GraphCommitted", n) THEN "committed"
    ELSE IF Seen("GraphCreated", n) THEN "initial"
    ELSE "nil"

\* The graph in memory has the lifecycle state and exactly the stages of the
\* part of the journal it was built from; calls and timers that outlive the
\* actor, and recorded events, only name stages of the journal; what is
\* appended while an actor replays adds no stage and no lifecycle event
\* (receiveEvent, persistAndUpdateGraph, PersistReceive, OnCompleteStage).
GraphMatchesJournal ==
    /\ GraphOK(graph)
    /\ \A i \in DOMAIN journal : EventOK(i)
    /\ \A k \in DOMAIN stack : FrameOK(graph, stack[k])
    /\ stack # <<>> => HasGraph
    /\ \A i \in inflight : i.stage \in AddedBefore(Len(journal) + 1)
    /\ timers \subseteq AddedBefore(Len(journal) + 1)
    /\ actor = "down" => graph = NilGraph /\ stack = <<>>
    /\ actor # "down" => /\ graph.state = StateAfter(Applied)
                         /\ StageIds(graph) = AddedBefore(Applied + 1)
    /\ Recovering =>
         /\ cursor <= replayEnd + 1 /\ replayEnd <= Len(journal)
         /\ \A i \in replayEnd + 1 .. Len(journal) :
              journal[i].type \notin LifecycleType \union {"StageAdded"}

-----------------------------------------------------------------------------
(***************************************************************************)
(* The abstract flow, read off the journal.                                *)
(***************************************************************************)
JournalPhase ==
    CASE Positions("GraphCompleted") # {}   -> "completed"
      [] Positions("GraphTerminating") # {} -> "terminating"
      [] Positions("GraphCommitted") # {}   -> "committed"
      [] Positions("GraphCreated") # {}     -> "initial"
      [] OTHER                              -> "none"

JournalStages == 1 .. Cardinality(Positions("StageAdded"))

F == INSTANCE Flow WITH
    phase   <- JournalPhase,
    kind    <- [s \in JournalStages |-> IF s \in HookStages THEN "hook" ELSE "main"],
    outcome <- [s \in JournalStages |-> JournalResult(s)]

\* The journal, and with it everything a client can learn after a failure,
\* moves only as the abstract flow does: outcomes are never changed or
\* withdrawn, and the phases advance only under their conditions, whatever the
\* interleaving of commands, answers, timers, failures and replays.
ImplementsFlow == F!FlowSpec
=============================================================================
