--------------------------- MODULE CompletionGraph ---------------------------
(***************************************************************************)
(* The completion graph of one flow as a value (graph/graph.go,            *)
(* graph/stage.go): its stages, its lifecycle state, how an event changes  *)
(* it, and which further calls the handler of that event makes.  GraphActor*)
(* holds such a value in a variable and runs the calls.                    *)
(*                                                                         *)
(* Stage identifiers are positions in g.stages: the source names the n-th  *)
(* stage strconv.Itoa(n), counting from 0, this model n, counting from 1.  *)
(* 0 is free to stand for the termination root among the dependencies and  *)
(* for a nil stage pointer.                                                *)
(***************************************************************************)
EXTENDS StageStrategy, FiniteSets

CONSTANTS
    MaxStages,            \* maxStages of graph.go
    MaxTerminationHooks   \* maxTerminationHooks of graph.go

ASSUME LimitsAssumption == MaxStages \in Nat /\ MaxTerminationHooks \in Nat

TerminationRoot == 0

NoStage == 0

GraphState == {"nil", "initial", "committed", "terminating", "completed"}

Stage == [op : Operation, deps : Seq(Nat), result : Result, triggered : BOOLEAN,
          composeReference : Nat]

Graph == [state : GraphState, stages : Seq(Stage), terminationRoot : Result,
          terminationChainHead : Nat]

\* graphActor.graph before initGraph: a nil pointer.
NilGraph == [state |-> "nil", stages |-> <<>>, terminationRoot |-> NoResult,
             terminationChainHead |-> NoStage]

New == [NilGraph EXCEPT !.state = "initial"]

-----------------------------------------------------------------------------
(***************************************************************************)
(* Reading the graph.                                                      *)
(***************************************************************************)
StageIds(g) == 1 .. Len(g.stages)

NextStageID_Hookless(g) == Cardinality({s \in StageIds(g) : g.stages[s].op # "terminationHook"}) + 1

NextStageID(g) == Len(g.stages) + 1

StageResolved(g, s) == IsResolved(g.stages[s].result)

IsHook(g, s) == g.stages[s].op = "terminationHook"

DependencyResult(g, d) ==
    IF d = TerminationRoot THEN g.terminationRoot ELSE g.stages[d].result

DependencyResults(g, s) ==
    [i \in 1 .. Len(g.stages[s].deps) |-> DependencyResult(g, g.stages[s].deps[i])]

\* The decision of requestTrigger for a stage that has not been triggered.
requestTrigger(g, s) ==
    IF g.stages[s].triggered THEN NotTriggered
    ELSE TriggerStrategy(g.stages[s].op, DependencyResults(g, s))

\* The stages on which a pass of triggerReadyStages or of Recover acts.
ReadyStages(g) ==
    {s \in StageIds(g) : ~ StageResolved(g, s) /\ requestTrigger(g, s).satisfied}

PendingMain_Running(g) ==
    {s \in StageIds(g) : ~ IsHook(g, s) /\ g.stages[s].triggered /\ ~ StageResolved(g, s)}

PendingMain(g) == {s \in StageIds(g) : ~ IsHook(g, s) /\ ~ StageResolved(g, s)}

PendingHooks_OtherPhase(g) == PendingMain(g)

PendingHooks(g) == {s \in StageIds(g) : IsHook(g, s) /\ ~ StageResolved(g, s)}

IsCommitted(g) == g.state # "initial"

canModifyGraph(g) == g.state \in {"initial", "committed"}

\* ValidateCommand for the commands that add a stage; a rejected command
\* changes nothing.
ValidateAdd(g, op, deps, hasClosure) ==
    /\ canModifyGraph(g)
    /\ Len(deps) >= getStrategyFromOperation(op).min
    /\ getStrategyFromOperation(op).max >= 0 => Len(deps) <= getStrategyFromOperation(op).max
    /\ hasClosure = getStrategyFromOperation(op).takesClosure
    /\ Len(g.stages) < MaxStages
    /\ op = "terminationHook" =>
         Cardinality({s \in StageIds(g) : IsHook(g, s)}) < MaxTerminationHooks
    /\ \A i \in DOMAIN deps : deps[i] \in StageIds(g)

-----------------------------------------------------------------------------
(***************************************************************************)
(* Events of a graph actor's journal.                                      *)
(***************************************************************************)
GraphCreated == [type |-> "GraphCreated"]

GraphCommitted == [type |-> "GraphCommitted"]

GraphTerminating == [type |-> "GraphTerminating"]

GraphCompleted == [type |-> "GraphCompleted"]

StageAdded(s, op, deps) ==
    [type |-> "StageAdded", stage |-> s, op |-> op, deps |-> deps]

StageCompleted(s, r) == [type |-> "StageCompleted", stage |-> s, result |-> r]

StageComposed(s, inner) == [type |-> "StageComposed", stage |-> s, inner |-> inner]

DelayScheduled(s) == [type |-> "DelayScheduled", stage |-> s]

InvocationStarted(s) == [type |-> "InvocationStarted", stage |-> s]

InvocationCompleted(s, r) ==
    [type |-> "InvocationCompleted", stage |-> s, result |-> r]

LifecycleType == {"GraphCreated", "GraphCommitted", "GraphTerminating", "GraphCompleted"}

Event == [type : LifecycleType]
    \union [type : {"StageAdded"}, stage : Nat, op : Operation, deps : Seq(Nat)]
    \union [type : {"StageCompleted", "InvocationCompleted"}, stage : Nat, result : Result]
    \union [type : {"StageComposed"}, stage : Nat, inner : Nat]
    \union [type : {"DelayScheduled", "InvocationStarted"}, stage : Nat]

-----------------------------------------------------------------------------
(***************************************************************************)
(* The effect of an event on the graph: the assignments of its handler.    *)
(***************************************************************************)
NewStage(op, deps) ==
    [op |-> op, deps |-> deps, result |-> NoResult, triggered |-> FALSE,
     composeReference |-> NoStage]

handleStageAdded(g, e) ==
    [g EXCEPT !.stages = Append(@, NewStage(e.op, e.deps))]

handleAddTerminationHook_Unlinked(g, e) ==
    [g EXCEPT !.stages = Append(@, NewStage(e.op, << TerminationRoot >>)),
              !.terminationChainHead = e.stage]

\* The new hook depends on the termination root and the previous head of the
\* chain on the new hook, so that hooks run last in, first out.
handleAddTerminationHook(g, e) ==
    LET relinked == IF g.terminationChainHead = NoStage THEN g.stages
                    ELSE [g.stages EXCEPT ![g.terminationChainHead].deps = << e.stage >>]
    IN  [g EXCEPT !.stages = Append(relinked, NewStage(e.op, << TerminationRoot >>)),
                  !.terminationChainHead = e.stage]

complete_LastWins(stage, r) == [stage EXCEPT !.triggered = TRUE, !.result = r]

\* The first result wins; later ones only find the stage resolved.
complete(stage, r) ==
    [stage EXCEPT !.triggered = TRUE,
                  !.result = IF IsResolved(stage.result) THEN stage.result ELSE r]

handleStageCompleted(g, e) ==
    [g EXCEPT !.stages = [@ EXCEPT ![e.stage] = complete(g.stages[e.stage], e.result)]]

handleStageComposed(g, e) ==
    [g EXCEPT !.stages = [@ EXCEPT ![e.inner].composeReference = e.stage]]

handleTerminating(g) ==
    [g EXCEPT !.state = "terminating", !.terminationRoot = NewSuccessfulResult("status")]

UpdateWithEvent(g, e) ==
    CASE e.type = "GraphCommitted"   -> [g EXCEPT !.state = "committed"]
      [] e.type = "GraphTerminating" -> handleTerminating(g)
      [] e.type = "GraphCompleted"   -> [g EXCEPT !.state = "completed"]
      [] e.type = "StageAdded"       -> IF e.op = "terminationHook"
                                          THEN handleAddTerminationHook(g, e)
                                          ELSE handleStageAdded(g, e)
      [] e.type = "StageCompleted"   -> handleStageCompleted(g, e)
      [] e.type = "StageComposed"    -> handleStageComposed(g, e)
      [] OTHER                       -> g

MarkTriggered_Forgotten(g, s) == g

\* requestTrigger's side effect.
MarkTriggered(g, s) == [g EXCEPT !.stages = [@ EXCEPT ![s].triggered = TRUE]]

-----------------------------------------------------------------------------
(***************************************************************************)
(* The calls a handler makes after its assignments, in order.  Handlers    *)
(* call the listener, the listener persists an event and updates the graph *)
(* with it, and so on recursively: a pending call is a frame of an explicit*)
(* call stack, which GraphActor executes frame by frame.                   *)
(***************************************************************************)
Persist(e) == [call |-> "persist", event |-> e]

Trigger == [call |-> "trigger"]     \* triggerReadyStages

Check == [call |-> "check"]         \* checkForExecutionFinished

RecoverLost == [call |-> "recover"] \* the loop of Recover

Frame == [call : {"persist"}, event : Event] \union [call : {"trigger", "check", "recover"}]

tryCompleteComposedStage(g, outer, inner) ==
    IF StageResolved(g, inner) /\ ~ StageResolved(g, outer)
      THEN << Persist(StageCompleted(outer, g.stages[inner].result)) >>
      ELSE <<>>

CompleteComposing_Skipped(g, s) == <<>>

CompleteComposing(g, s) ==
    IF g.stages[s].composeReference # NoStage
      THEN tryCompleteComposedStage(g, g.stages[s].composeReference, s)
      ELSE <<>>

referencedStageResult_Unchecked(g, s, r) ==
    IF r.datum = "stage_ref" THEN StageComposed(s, r.ref) ELSE StageCompleted(s, r)

referencedStageResult(g, s, r) ==
    CASE ~ r.successful -> StageCompleted(s, r)
      [] r.successful /\ r.datum = "stage_ref" /\ r.ref \in StageIds(g) -> StageComposed(s, r.ref)
      [] OTHER -> StageCompleted(s, NewFailedResult("invalid_stage_response"))

\* How the answer r of the invocation of stage s completes or composes it.
handleResult(g, s, r) ==
    LET strategy == getStrategyFromOperation(g.stages[s].op).result
    IN  CASE strategy = "invocationResult"      -> << Persist(StageCompleted(s, r)) >>
          [] strategy = "referencedStageResult" -> << Persist(referencedStageResult(g, s, r)) >>
          [] strategy = "parentStageResult"     ->
               << Persist(StageCompleted(s, DependencyResult(g, g.stages[s].deps[1]))) >>
          [] OTHER                              -> <<>>

CallsAfter_NoTrigger(g, e, mayTrigger) ==
    CASE e.type \in {"GraphCommitted", "GraphTerminating"} -> << Check >>
      [] e.type = "StageAdded" /\ e.op # "terminationHook" /\ mayTrigger -> << Trigger >>
      [] e.type = "StageCompleted" -> CompleteComposing(g, e.stage) \o << Check >>
      [] e.type = "InvocationCompleted" /\ mayTrigger -> handleResult(g, e.stage, e.result)
      [] OTHER -> <<>>

\* The calls that follow the update of the graph, now g, with event e.
CallsAfter(g, e, mayTrigger) ==
    LET trigger == IF mayTrigger THEN << Trigger >> ELSE <<>>
    IN  CASE e.type = "GraphCommitted"   -> << Check >>
          [] e.type = "GraphTerminating" -> trigger \o << Check >>
          [] e.type = "StageAdded"       -> IF e.op = "terminationHook" THEN <<>> ELSE trigger
          [] e.type = "StageCompleted"   -> CompleteComposing(g, e.stage) \o trigger \o << Check >>
          [] e.type = "StageComposed"    -> tryCompleteComposedStage(g, e.stage, e.inner)
          [] e.type = "InvocationCompleted" ->
               IF mayTrigger THEN handleResult(g, e.stage, e.result) ELSE <<>>
          [] OTHER                       -> <<>>
=============================================================================
