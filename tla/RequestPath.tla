------------------------------ MODULE RequestPath ------------------------------
(***************************************************************************)
(* A request from the client to the flow's actor and back: the REST        *)
(* gateway (model/model.pb.gw.go), the interceptors of the API server      *)
(* (server/server.go), the proxy to the node that owns the flow            *)
(* (cluster/cluster_proxy.go), the internal service of that node           *)
(* (server/internal_server.go, actor/api.go), the flow's mailbox and the   *)
(* answer of its actor (actor/graph.go), with nodes that crash and start   *)
(* again, and calls that time out.                                         *)
(*                                                                         *)
(* The supervisor (module Supervisor) and the stages' work (module         *)
(* GraphActor) are kept to what a caller can tell: a flow takes its        *)
(* messages in order, one at a time, and what it has done is persisted.    *)
(* Of a result only its author is kept: the call that gave it, or the flow *)
(* itself.                                                                 *)
(***************************************************************************)
EXTENDS Cluster, Messages, FiniteSets

CONSTANTS
    Queries,              \* what a client may send, see Query
    Existing,             \* flows that exist at the start, each with one open stage
    StageIDs,             \* strconv.Itoa of 0, 1, 2, ...: the names of the stages
    MaxStages,            \* maxStages of graph.go
    MaxTerminationHooks,  \* maxTerminationHooks of graph.go
    MaxCalls,             \* bound on the calls
    MaxFaults             \* bound on the crashes

VARIABLES
    up,        \* the nodes that run
    calls,     \* every call so far
    mailbox,   \* mailbox[n][f]: the calls that wait for flow f on node n
    awaiting,  \* the calls whose continuation waits for a stage
    graphs,    \* the persisted state of each flow
    faults     \* crashes so far

vars == << up, calls, mailbox, awaiting, graphs, faults >>

Strategies == INSTANCE StageStrategy

-----------------------------------------------------------------------------
(***************************************************************************)
(* The gateway: the request comes from the body, except what the URL path  *)
(* says.  A body that is not JSON has no request (Nil).  A gRPC client     *)
(* sends the request itself.  entry is the node the client talks to.       *)
(***************************************************************************)
Query == [entry : Nodes, via : {"grpc", "rest"}, body : Optional(Request),
          flow : FlowNames, stage : StageNames]

ASSUME QueriesAssumption == Queries \subseteq Query

WithFlow(q) == [q.body EXCEPT !.flow_id = q.flow]

WithStage(q) == [q.body EXCEPT !.flow_id = q.flow, !.stage_id = q.stage]

request_CreateGraph(q) == q.body

request_AddStage(q) == WithFlow(q)

request_AddValueStage(q) == WithFlow(q)

request_AddInvokeFunction(q) == WithFlow(q)

request_AddDelay(q) == WithFlow(q)

request_AwaitStageResult(q) == WithStage(q)

request_CompleteStageExternally(q) == WithStage(q)

request_Commit(q) == WithFlow(q)

request_GetGraphState(q) == WithFlow(q)

GatewayRequest(q) ==
    CASE q.body.type = "CreateGraph"             -> request_CreateGraph(q)
      [] q.body.type = "AddStage"                -> request_AddStage(q)
      [] q.body.type = "AddValueStage"           -> request_AddValueStage(q)
      [] q.body.type = "AddInvokeFunction"       -> request_AddInvokeFunction(q)
      [] q.body.type = "AddDelay"                -> request_AddDelay(q)
      [] q.body.type = "AwaitStageResult"        -> request_AwaitStageResult(q)
      [] q.body.type = "CompleteStageExternally" -> request_CompleteStageExternally(q)
      [] q.body.type = "Commit"                  -> request_Commit(q)
      [] q.body.type = "GetGraphState"           -> request_GetGraphState(q)

Received(q) == IF q.via = "rest" /\ q.body # Nil THEN GatewayRequest(q) ELSE q.body

-----------------------------------------------------------------------------
(***************************************************************************)
(* The flow's actor: what it answers and what it persists.  Author 0 is no *)
(* result yet, Runtime the flow's own work, c > 0 the call that gave it.   *)
(***************************************************************************)
Runtime == -1

NoAuthor == 0

NoGraph == [state |-> "none", stages |-> <<>>]

NewGraph == [state |-> "initial", stages |-> <<>>]

NewStage(c, op, author) == [by |-> c, op |-> op, author |-> author]

StageNamesOf(g) == {StageIDs[i] : i \in DOMAIN g.stages}

Index(g, s) == CHOOSE i \in DOMAIN g.stages : StageIDs[i] = s

IsResolved(g, i) == g.stages[i].author # NoAuthor

\* A committed graph whose stages have results takes no more stages.
Settled(g) ==
    IF /\ g.state = "committed"
       /\ \A i \in DOMAIN g.stages : g.stages[i].op # "terminationHook" => IsResolved(g, i)
      THEN [g EXCEPT !.state = "terminated"] ELSE g

canModifyGraph(g) == g.state \in {"initial", "committed"}

AddStageCommand == {"AddStage", "AddValueStage", "AddDelay", "AddInvokeFunction"}

GetOperation(m) ==
    CASE m.type = "AddStage"          -> m.operation
      [] m.type = "AddValueStage"     -> "completedValue"
      [] m.type = "AddDelay"          -> "delay"
      [] m.type = "AddInvokeFunction" -> "invokeFunction"

Deps(m) == IF m.type = "AddStage" THEN m.deps ELSE <<>>

HasClosure(m) == m.type = "AddStage" /\ m.closure # Nil

\* ValidateCommand, its first part: the first check that fails decides.
ValidateAdd(g, m) ==
    LET strategy == Strategies!getStrategyFromOperation(GetOperation(m))
        hooks    == {i \in DOMAIN g.stages : g.stages[i].op = "terminationHook"}
        n        == Len(Deps(m))
    IN IF ~ canModifyGraph(g) THEN NewGraphCompletedError
       ELSE IF GetOperation(m) \notin Strategies!Operation THEN NewInvalidOperationError
       ELSE IF n < strategy.min \/ (strategy.max >= 0 /\ n > strategy.max)
         THEN NewInvalidStageDependenciesError
       ELSE IF strategy.takesClosure /\ ~ HasClosure(m) THEN NewNeedsClosureError
       ELSE IF ~ strategy.takesClosure /\ HasClosure(m) THEN NewShouldNotHaveClosureError
       ELSE IF Len(g.stages) >= MaxStages THEN NewTooManyStagesError
       ELSE IF /\ GetOperation(m) = "terminationHook"
               /\ Cardinality(hooks) >= MaxTerminationHooks
         THEN NewTooManyTerminationHooksError
       ELSE Nil

\* ValidateCommand, the checks of each type.
ValidateByType(g, m) ==
    CASE /\ m.type = "AddDelay"
         /\ m.delay_ms <= 0 \/ m.delay_ms > 86400 * 1000 -> NewInvalidDelayError
      [] /\ m.type = "AddStage"
         /\ \E i \in DOMAIN m.deps : m.deps[i] \notin StageNamesOf(g) ->
           NewInvalidStageDependenciesError
      [] /\ m.type \in {"AddValueStage", "CompleteStageExternally"}
         /\ ~ HasValidValue(m.value.datum) -> NewInvalidDatumError
      [] /\ m.type = "CompleteStageExternally"
         /\ HasValidValue(m.value.datum) /\ m.stage_id \notin StageNamesOf(g) ->
           NewStageNotFoundError(m.flow_id, m.stage_id)
      [] /\ m.type = "AwaitStageResult"
         /\ m.stage_id \notin StageNamesOf(g) -> NewStageNotFoundError(m.flow_id, m.stage_id)
      [] OTHER -> Nil

ValidateCommand_ByType(g, m) == ValidateByType(g, m)

ValidateCommand(g, m) ==
    IF m.type \in AddStageCommand /\ ValidateAdd(g, m) # Nil
      THEN ValidateAdd(g, m) ELSE ValidateByType(g, m)

\* The error a command is answered with, or Nil.
validateCmd(g, m) ==
    IF m.type = "CreateGraph"
      THEN IF g.state # "none" THEN NewGraphAlreadyExistsError ELSE Nil
      ELSE IF g.state = "none" THEN NewGraphNotFoundError(m.flow_id) ELSE ValidateCommand(g, m)

\* The graph after a valid command of call c.
Updated(g, m, c) ==
    CASE m.type = "CreateGraph" -> NewGraph
      [] m.type \in AddStageCommand ->
           [g EXCEPT !.stages = Append(@, NewStage(c, GetOperation(m),
                                       IF m.type = "AddValueStage" THEN c ELSE NoAuthor))]
      [] m.type = "CompleteStageExternally" /\ ~ IsResolved(g, Index(g, m.stage_id)) ->
           [g EXCEPT !.stages[Index(g, m.stage_id)].author = c]
      [] m.type = "Commit" /\ g.state = "initial" -> [g EXCEPT !.state = "committed"]
      [] OTHER -> g

completable_Always(g, m) == TRUE

completable(g, m) == ~ IsResolved(g, Index(g, m.stage_id))

\* What the actor answers a valid command, other than AwaitStageResult.
Response(g, m) ==
    CASE m.type = "CreateGraph" -> CreateGraphResponse(m.flow_id)
      [] m.type \in AddStageCommand -> AddStageResponse(m.flow_id, StageIDs[Len(g.stages) + 1])
      [] m.type = "CompleteStageExternally" ->
           CompleteStageExternallyResponse(m.flow_id, m.stage_id, completable(g, m))
      [] m.type = "Commit" -> GraphRequestProcessedResponse(m.flow_id)
      [] m.type = "GetGraphState" -> GetGraphStateResponse(m.flow_id, StageNamesOf(g))

-----------------------------------------------------------------------------
(***************************************************************************)
(* Calls.  On the caller's side a call is at the API server ("api"), with  *)
(* the owner ("proxied") or answered ("over").  On the owner's side its    *)
(* handler is not there yet ("none", then "sent"), waits on its future     *)
(* ("waiting") or has returned ("done").  after: the calls answered before *)
(* this one was made.                                                      *)
(***************************************************************************)
NewCall(q) ==
    [query |-> q, request |-> Nil, node |-> q.entry, at |-> "api", answer |-> Nil,
     handler |-> "none", future |-> Nil,
     after |-> {c \in DOMAIN calls : calls[c].at = "over"}]

Init ==
    /\ up = Nodes
    /\ calls = <<>>
    /\ mailbox = [n \in Nodes |-> [f \in FlowIds |-> <<>>]]
    /\ awaiting = {}
    /\ graphs = [f \in FlowIds |->
                   IF f \in Existing
                     THEN [NewGraph EXCEPT !.stages = << NewStage(0, "externalCompletion", NoAuthor) >>]
                     ELSE NoGraph]
    /\ faults = 0

ClientCalls(q) ==
    /\ q.entry \in up /\ Len(calls) < MaxCalls
    /\ calls' = Append(calls, NewCall(q))
    /\ UNCHANGED << up, mailbox, awaiting, graphs, faults >>

Answered(call, r) ==
    IF call.at = "over" THEN call ELSE [call EXCEPT !.at = "over", !.answer = r]

AtAPI(c) ==
    /\ calls[c].at = "api"
    /\ UNCHANGED << up, mailbox, awaiting, graphs, faults >>

\* The gateway decoded the request, and the validating interceptor passed it.
Accepted(m) == m # Nil /\ Validate(m)

\* The gateway cannot decode the body, or the validator refuses the request.
Refuse(c) ==
    LET m == Received(calls[c].query)
    IN /\ AtAPI(c)
       /\ ~ Accepted(m)
       /\ calls' = [calls EXCEPT ![c] = Answered(@, Error("InvalidArgument"))]

\* GetClient fails: the flow identifier is not a UUID.
NoClient(c) ==
    LET m == Received(calls[c].query)
    IN /\ AtAPI(c)
       /\ Accepted(m)
       /\ m.type # "CreateGraph" /\ m.flow_id \notin FlowIds
       /\ calls' = [calls EXCEPT ![c] = Answered(@, Error("Unknown"))]

\* uuid.NewRandom: an identifier that nobody has used.
FreshIds ==
    {f \in FlowIds : graphs[f].state = "none"
                     /\ \A c \in DOMAIN calls : calls[c].request # Nil => calls[c].request.flow_id # f}

\* The request the proxy sends on: a new flow gets its identifier here.
ProxiedRequests(m) ==
    IF m.type = "CreateGraph" THEN {[m EXCEPT !.flow_id = f] : f \in FreshIds}
    ELSE IF m.flow_id \in FlowIds THEN {m} ELSE {}

\* The proxy calls the owner of the flow; the connection to a node that is
\* down refuses the call.
Proxy(c) ==
    /\ AtAPI(c)
    /\ Accepted(Received(calls[c].query))
    /\ \E m \in ProxiedRequests(Received(calls[c].query)) :
         LET n == GetClient(m.flow_id)
         IN calls' = [calls EXCEPT ![c] =
               IF n \in up
                 THEN [@ EXCEPT !.request = m, !.node = n, !.at = "proxied", !.handler = "sent"]
                 ELSE Answered(@, Error("Unavailable"))]

\* The context of the call expires, at most two minutes after it began (a
\* client that leaves cancels it, with the same effect); the owner's handler
\* goes on.
Deadline(c) ==
    /\ calls[c].at = "proxied"
    /\ calls' = [calls EXCEPT ![c] = Answered(@, Error("DeadlineExceeded"))]
    /\ UNCHANGED << up, mailbox, awaiting, graphs, faults >>

-----------------------------------------------------------------------------
(***************************************************************************)
(* The owner.                                                              *)
(***************************************************************************)

HasSupervisor_FromOne(n, f) == ShardID(f) \in LocalShards(n) \ {0}

\* lookupSupervisor: this node has a supervisor for the flow's shard.
HasSupervisor(n, f) == ShardID(f) \in LocalShards(n)

\* forwardRequest: the request goes to the supervisor of the flow's shard.
forwardRequest(c) ==
    LET n == calls[c].node
        f == calls[c].request.flow_id
    IN /\ calls[c].handler = "sent"
       /\ calls' = [calls EXCEPT ![c].handler = "waiting",
                                 ![c].future = IF HasSupervisor(n, f) THEN @ ELSE NewGraphNotFoundError(f)]
       /\ mailbox' = IF HasSupervisor(n, f)
                       THEN [mailbox EXCEPT ![n][f] = Append(@, c)] ELSE mailbox
       /\ UNCHANGED << up, awaiting, graphs, faults >>

\* A future takes the first answer; one that has timed out takes none.
Respond(cs, c, r) == IF cs[c].future = Nil THEN [cs EXCEPT ![c].future = r] ELSE cs

receiveCommand(n, f) ==
    LET c == Head(mailbox[n][f])
        m == calls[c].request
        g == graphs[f]
        e == validateCmd(g, m)
    IN /\ mailbox[n][f] # <<>>
       /\ mailbox' = [mailbox EXCEPT ![n][f] = Tail(@)]
       /\ graphs' = IF e = Nil THEN [graphs EXCEPT ![f] = Settled(Updated(g, m, c))] ELSE graphs
       /\ IF e = Nil /\ m.type = "AwaitStageResult"
            THEN awaiting' = awaiting \union {c} /\ UNCHANGED calls
            ELSE /\ calls' = Respond(calls, c, IF e = Nil THEN Response(g, m) ELSE e)
                 /\ UNCHANGED awaiting
       /\ UNCHANGED << up, faults >>

AwaitContinues_Early(c) ==
    LET m == calls[c].request
        g == graphs[m.flow_id]
    IN /\ c \in awaiting
       /\ calls' = Respond(calls, c,
                     AwaitStageResultResponse(m.flow_id, m.stage_id, g.stages[Index(g, m.stage_id)].author))
       /\ awaiting' = awaiting \ {c}
       /\ UNCHANGED << up, mailbox, graphs, faults >>

\* The continuation of AwaitStageResult, once the stage has its result.
AwaitContinues(c) ==
    LET m == calls[c].request
        g == graphs[m.flow_id]
    IN /\ c \in awaiting /\ IsResolved(g, Index(g, m.stage_id))
       /\ calls' = Respond(calls, c,
                     AwaitStageResultResponse(m.flow_id, m.stage_id, g.stages[Index(g, m.stage_id)].author))
       /\ awaiting' = awaiting \ {c}
       /\ UNCHANGED << up, mailbox, graphs, faults >>

\* The flow's own work gives a stage its result: an invocation, a timer, a
\* dependency.
StageCompletes(f, i) ==
    /\ GetClient(f) \in up
    /\ i \in DOMAIN graphs[f].stages /\ ~ IsResolved(graphs[f], i)
    /\ graphs[f].stages[i].op # "externalCompletion"
    /\ graphs' = [graphs EXCEPT ![f] = Settled([@ EXCEPT !.stages[i].author = Runtime])]
    /\ UNCHANGED << up, calls, mailbox, awaiting, faults >>

RequestTimeout_Refused(c) ==
    /\ calls[c].handler = "waiting" /\ calls[c].future = Nil
    /\ calls' = Respond(calls, c, Error("InvalidArgument"))
    /\ UNCHANGED << up, mailbox, awaiting, graphs, faults >>

RequestTimeout_AwaitOnly(c) ==
    /\ calls[c].handler = "waiting" /\ calls[c].future = Nil
    /\ calls[c].request.type = "AwaitStageResult" /\ calls[c].request.timeout_ms > 0
    /\ calls' = Respond(calls, c, Error("DeadlineExceeded"))
    /\ UNCHANGED << up, mailbox, awaiting, graphs, faults >>

\* The future times out: the deadline of the call, or the timeout of
\* AwaitStageResult when that is earlier.
RequestTimeout(c) ==
    /\ calls[c].handler = "waiting" /\ calls[c].future = Nil
    /\ calls' = Respond(calls, c, Error("DeadlineExceeded"))
    /\ UNCHANGED << up, mailbox, awaiting, graphs, faults >>

\* What the calls see of the end of node n: the clients of its API server
\* and the proxies that called it lose their connections.
Disconnected(cs, n) ==
    [c \in DOMAIN cs |->
       LET call == IF n \in {cs[c].query.entry, cs[c].node} THEN Answered(cs[c], Error("Unavailable"))
                                                      ELSE cs[c]
       IN IF cs[c].node = n /\ cs[c].handler \in {"sent", "waiting"}
            THEN [call EXCEPT !.handler = "done"] ELSE call]

StopNode(n) ==
    /\ up' = up \ {n}
    /\ calls' = Disconnected(calls, n)
    /\ mailbox' = [mailbox EXCEPT ![n] = [f \in FlowIds |-> <<>>]]
    /\ awaiting' = {c \in awaiting : calls[c].node # n}
    /\ UNCHANGED graphs

\* The handler returns.  CompleteStageExternally asserts the type of the
\* answer before it looks at the error: an error panics, and ends the node.
Panics(c) ==
    calls[c].request.type = "CompleteStageExternally" /\ IsError(calls[c].future)

Return(c) ==
    /\ calls[c].handler = "waiting" /\ calls[c].future # Nil
    /\ ~ Panics(c)
    /\ calls' = [calls EXCEPT ![c] = [Answered(@, @.future) EXCEPT !.handler = "done"]]
    /\ UNCHANGED << up, mailbox, awaiting, graphs, faults >>

ReturnPanics(c) ==
    /\ calls[c].handler = "waiting" /\ calls[c].future # Nil
    /\ Panics(c)
    /\ StopNode(calls[c].node)
    /\ UNCHANGED faults

Crash(n) ==
    /\ n \in up /\ faults < MaxFaults /\ faults' = faults + 1
    /\ StopNode(n)

Restart(n) ==
    /\ n \notin up /\ up' = up \union {n}
    /\ UNCHANGED << calls, mailbox, awaiting, graphs, faults >>

CallStep(c) ==
    \/ Refuse(c) \/ NoClient(c) \/ Proxy(c)
    \/ forwardRequest(c) \/ AwaitContinues(c) \/ RequestTimeout(c)
    \/ Return(c) \/ ReturnPanics(c)

Next ==
    \/ \E q \in Queries : ClientCalls(q)
    \/ \E c \in DOMAIN calls : CallStep(c) \/ Deadline(c)
    \/ \E n \in Nodes, f \in FlowIds : receiveCommand(n, f)
    \/ \E f \in FlowIds : \E i \in DOMAIN graphs[f].stages : StageCompletes(f, i)
    \/ \E n \in Nodes : Crash(n) \/ Restart(n)

Spec == Init /\ [][Next]_vars

\* The goroutines of the calls run, and timers fire.  A call takes few steps,
\* so it is enough that some call goes on while one can.
FairSpec == Spec /\ WF_vars(\E c \in DOMAIN calls : CallStep(c))

-----------------------------------------------------------------------------
(***************************************************************************)
(* Properties.                                                             *)
(***************************************************************************)
Code == {"OK", "InvalidArgument", "Unknown", "Unavailable", "DeadlineExceeded",
         "NotFound", "AlreadyExists", "FailedPrecondition", "Unimplemented",
         "ResourceExhausted"}

\* Calls, handlers and graphs are what the code's types and limits allow:
\* every answer has a code the service uses, and no graph outgrows maxStages
\* or holds an operation that has no strategy.
TypeOK ==
    /\ up \subseteq Nodes
    /\ Len(calls) <= MaxCalls /\ faults \in 0..MaxFaults
    /\ awaiting \subseteq DOMAIN calls
    /\ \A c \in DOMAIN calls :
         /\ calls[c].node \in Nodes
         /\ calls[c].request # Nil => calls[c].request.flow_id \in FlowIds
         /\ calls[c].at \in {"api", "proxied", "over"}
         /\ calls[c].handler \in {"none", "sent", "waiting", "done"}
         /\ \A r \in {calls[c].answer, calls[c].future} : r # Nil => r.code \in Code
    /\ \A n \in Nodes, f \in FlowIds :
         \A i \in DOMAIN mailbox[n][f] : mailbox[n][f][i] \in DOMAIN calls
    /\ \A f \in FlowIds :
         /\ graphs[f].state \in {"none", "initial", "committed", "terminated"}
         /\ Len(graphs[f].stages) <= MaxStages
         /\ \A i \in DOMAIN graphs[f].stages : graphs[f].stages[i].op \in Strategies!Operation

InService(c) == calls[c].handler \in {"sent", "waiting"}

\* Whatever node a client talks to, a request for a flow is served by the one
\* node of the cluster that runs a supervisor for the flow's shard: the
\* proxy's resolveNode and every manager's LocalShards agree.
RoutedToOwner ==
    \A c \in DOMAIN calls : InService(c) =>
        \A n \in Nodes : ShardID(calls[c].request.flow_id) \in LocalShards(n) <=> n = calls[c].node

\* No command in a flow's mailbox lacks a value, a datum or an argument that
\* ValidateCommand and the executor dereference without a check: the internal
\* service does not validate, so the interceptor of the API server, on
\* another node perhaps, must have.
NoNilCommands ==
    \A n \in Nodes, f \in FlowIds : \A i \in DOMAIN mailbox[n][f] :
        LET m == calls[mailbox[n][f][i]].request
        IN /\ m.type \in {"AddValueStage", "CompleteStageExternally"} =>
                m.value # Nil /\ m.value.datum # Nil
           /\ m.type = "AddInvokeFunction" => m.arg # Nil

Over(c) == calls[c].at = "over"

Succeeded(c, type) ==
    /\ Over(c) /\ ~ IsError(calls[c].answer)
    /\ calls[c].request.type = type

\* Codes that leave the caller in doubt whether the command was executed.
InDoubt == {"Unavailable", "DeadlineExceeded"}

Added(c) ==
    UNION {{<< f, StageIDs[i] >> : i \in {j \in DOMAIN graphs[f].stages : graphs[f].stages[j].by = c}}
             : f \in FlowIds}

Gave(c) ==
    UNION {{<< f, StageIDs[i] >> : i \in {j \in DOMAIN graphs[f].stages : graphs[f].stages[j].author = c}}
             : f \in FlowIds}

\* The answer tells the caller what was done: after a definite error nothing
\* was; after a success the stage it names was added, once, to the flow that
\* was asked for; in doubt, at most one was.  A timeout must not be reported
\* as a refusal, since forwardRequest leaves the command in the mailbox.
AnswerMatchesEffect ==
    \A c \in DOMAIN calls :
        /\ Cardinality(Added(c)) <= 1
        /\ (Over(c) /\ IsError(calls[c].answer) /\ calls[c].answer.code \notin InDoubt) =>
             Added(c) = {} /\ Gave(c) = {}
        /\ \A type \in AddStageCommand : Succeeded(c, type) =>
             Added(c) = {<< calls[c].answer.flow_id, calls[c].answer.stage_id >>}
        /\ (calls[c].query.via = "rest" /\ calls[c].query.body # Nil
              /\ calls[c].query.body.type # "CreateGraph") =>
             Added(c) \union Gave(c) \subseteq {calls[c].query.flow} \X StageNames

\* Of the callers that complete a stage from outside, the one that is told
\* "successful" is the one whose value the stage has, now and later; the
\* others are told that somebody else was first.
OneCompleter ==
    \A c \in DOMAIN calls : Succeeded(c, "CompleteStageExternally") =>
        LET m == calls[c].request
            g == graphs[m.flow_id]
            a == g.stages[Index(g, m.stage_id)].author
        IN IF calls[c].answer.successful THEN a = c ELSE a \notin {c, NoAuthor}

\* AwaitStageResult answers with the result of the stage, which is its result
\* for good, across restarts of the node.
AwaitTellsResult ==
    \A c \in DOMAIN calls : Succeeded(c, "AwaitStageResult") =>
        LET g == graphs[calls[c].request.flow_id]
        IN /\ calls[c].answer.result # NoAuthor
           /\ calls[c].answer.result = g.stages[Index(g, calls[c].request.stage_id)].author

\* What one caller was told is visible to every later call, through any node
\* and after any restart: a flow that existed when the call was made is
\* found, and GetGraphState lists the stages whose addition was answered.
AnsweredIsVisible ==
    \A c \in DOMAIN calls : Over(c) /\ calls[c].request # Nil =>
        LET f == calls[c].request.flow_id
        IN /\ (f \in Existing \/ \E d \in calls[c].after :
                                   Succeeded(d, "CreateGraph") /\ calls[d].request.flow_id = f) =>
                calls[c].answer # NewGraphNotFoundError(f)
           /\ (Succeeded(c, "GetGraphState")) =>
                \A d \in calls[c].after : \A type \in AddStageCommand :
                    Succeeded(d, type) /\ calls[d].request.flow_id = f =>
                        calls[d].answer.stage_id \in calls[c].answer.stages

\* Every call ends, on both sides: the client has an answer, and the owner's
\* handler returned or its node stopped, even when the stage that a call
\* awaits never completes or the continuation was lost with the node.  (Calls
\* are bounded: each has ended when none is open.)
EveryCallEnds == []<>(\A c \in DOMAIN calls : Over(c) /\ ~ InService(c))

\* When the flow refuses a command, the caller is told why (unless it stopped
\* waiting): "NewStageNotFoundError : anywhere a stage on an existing graph
\* was not found" (model/errors.go).
ErrorsReachCallers ==
    \A c \in DOMAIN calls :
        LET e == calls[c].future
        IN (Over(c) /\ e # Nil /\ IsError(e) /\ e # Error("DeadlineExceeded")) =>
              calls[c].answer \in {e, Error("DeadlineExceeded")}

=============================================================================
