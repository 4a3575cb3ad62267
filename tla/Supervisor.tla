------------------------------ MODULE Supervisor ------------------------------
(***************************************************************************)
(* The supervisor of one shard (actor/supervisor.go, actor/strategy.go)    *)
(* with the graph actors it spawns, watches and retires, and the requests  *)
(* that the node-local API forwards to it (actor/api.go).  GraphActor has  *)
(* the detail of one graph; here a graph is its stages and whether it has  *)
(* completed, and the subject is which instance of the actor handles which *)
(* message, what the supervisor's own journal says, and what callers hear. *)
(*                                                                         *)
(* The actor library is modelled from how it is used: a mailbox is FIFO,   *)
(* system messages come first, a name is registered to at most one         *)
(* process, a stopped actor is unregistered before its watchers are told,  *)
(* and a stopped actor still drains the user messages queued behind the    *)
(* poison pill.                                                            *)
(***************************************************************************)
EXTENDS Integers, FiniteSets, Sequences, SequencesExt

CONSTANTS
    Flows,        \* flow ids of this shard
    None,         \* no process is registered under the flow's name
    MaxRequests,  \* bound on the requests sent
    MaxFaults     \* bound on failures, crashes and receive timeouts together

ASSUME SupervisorAssumption ==
    /\ MaxRequests \in Nat /\ MaxFaults \in Nat

VARIABLES
    up,            \* the process runs
    journal,       \* the supervisor's persisted events
    activeGraphs,  \* graphSupervisor.activeGraphs
    restarting,    \* the supervisor failed and waits for its children to stop
    mailbox,       \* the supervisor's user messages
    system,        \* its system messages: "terminated" and "failure"
    children,      \* context.Children(), by flow
    live,          \* the process registered under each flow's name
    draining,      \* stopped instances whose mailbox is not empty yet
    stored,        \* the graph actors' persisted events
    timers,        \* delayed restarts not yet due, by flow
    requests,      \* the requests and what their callers heard
    idle,          \* flows whose actor once asked to be passivated
    faults         \* failures so far

vars == << up, journal, activeGraphs, restarting, mailbox, system, children, live,
           draining, stored, timers, requests, idle, faults >>

supervisorVars == << up, journal, activeGraphs, restarting, children >>

-----------------------------------------------------------------------------
(***************************************************************************)
(* What a graph actor knows and does.                                      *)
(***************************************************************************)

NilGraph == [created |-> FALSE, stages |-> {}, completed |-> FALSE]

\* receiveEvent: GraphCreated makes a new graph, the others update it.
ReplayEvent(g, e) ==
    CASE e.type = "created"   -> [NilGraph EXCEPT !.created = TRUE]
      [] e.type = "stage"     -> [g EXCEPT !.stages = @ \union {e.stage}]
      [] e.type = "completed" -> [g EXCEPT !.completed = TRUE]

Replay(events) == FoldLeft(ReplayEvent, NilGraph, events)

\* validateCmd and ValidateCommand: the answer to a command.
validateCmd(g, m) ==
    CASE m.type = "create" /\ g.created                -> "AlreadyExists"
      [] m.type # "create" /\ ~ g.created              -> "NotFound"
      [] m.type = "add" /\ g.created /\ g.completed    -> "FailedPrecondition"
      [] OTHER                                         -> "ok"

\* The events a command persists.  A commit completes the graph at once: its
\* stages are not followed here.
Persisted(g, m) ==
    CASE validateCmd(g, m) # "ok" -> <<>>
      [] m.type = "create" -> << [type |-> "created", stage |-> 0, request |-> m.request] >>
      [] m.type = "add"    -> << [type |-> "stage", stage |-> Cardinality(g.stages),
                                  request |-> m.request] >>
      [] OTHER             -> IF g.completed THEN <<>>
                              ELSE << [type |-> "completed", stage |-> 0,
                                       request |-> m.request] >>

Commands == {"create", "add", "commit"}

Note(type, f) == [type |-> type, flow |-> f, request |-> 0]

-----------------------------------------------------------------------------
(***************************************************************************)
(* Processes and messages.                                                 *)
(***************************************************************************)

Spawned(box) ==
    [status |-> "starting", stop |-> FALSE, box |-> box, graph |-> NilGraph]

Running(f) == live[f] # None /\ live[f].status = "running" /\ ~ live[f].stop

\* PID.Tell and Request: a message to a name nobody has is a dead letter.
Tell(processes, f, m) ==
    IF processes[f] = None THEN processes
    ELSE [processes EXCEPT ![f].box = Append(@, m)]

\* A future takes the first of an answer and its timeout.
Respond(r, answer) ==
    IF r \in DOMAIN requests /\ requests[r].answer = "pending"
    THEN [requests EXCEPT ![r].answer = answer]
    ELSE requests

SendSystem(type, f, reason) ==
    Append(system, [type |-> type, flow |-> f, reason |-> reason])

Fault == faults < MaxFaults /\ faults' = faults + 1

\* receiveEvent over the events of the supervisor's journal, from a set of
\* active flows: the last event of a flow says whether it is active.
Recorded(flows, events) ==
    {f \in Flows :
        \/ \E i \in DOMAIN events :
              /\ events[i] = [type |-> "created", flow |-> f]
              /\ \A j \in DOMAIN events : j > i => events[j].flow # f
        \/ f \in flows /\ \A i \in DOMAIN events : events[i].flow # f}

Init ==
    /\ up = FALSE
    /\ journal = <<>>
    /\ activeGraphs = {}
    /\ restarting = FALSE
    /\ mailbox = <<>>
    /\ system = <<>>
    /\ children = {}
    /\ live = [f \in Flows |-> None]
    /\ draining = [f \in Flows |-> <<>>]
    /\ stored = [f \in Flows |-> <<>>]
    /\ timers = [f \in Flows |-> 0]
    /\ requests = <<>>
    /\ idle = {}
    /\ faults = 0

-----------------------------------------------------------------------------
(***************************************************************************)
(* The supervisor.                                                         *)
(***************************************************************************)

ReplayComplete_NoRespawn(flows) ==
    /\ activeGraphs' = Recorded(flows, journal)
    /\ children' = {}
    /\ restarting' = FALSE
    /\ UNCHANGED live

\* Replay of the supervisor's journal on top of what activeGraphs holds (a
\* restart keeps the same Go object), then ReplayComplete: every active graph
\* is spawned.
ReplayComplete(flows) ==
    LET active == Recorded(flows, journal)
    IN  /\ activeGraphs' = active
        /\ children' = active
        /\ live' = [f \in Flows |-> IF f \in active /\ live[f] = None
                                    THEN Spawned(<<>>) ELSE live[f]]
        /\ restarting' = FALSE

\* NewGraphManager spawns the supervisor when the process starts.
NewGraphSupervisor ==
    /\ ~ up
    /\ up' = TRUE
    /\ ReplayComplete({})
    /\ UNCHANGED << journal, mailbox, system, draining, stored, timers, requests, idle, faults >>

\* A panic in the supervisor: the root guardian restarts it, which stops all
\* children (the flows kids) first and replays once they have terminated.
SupervisorFails(processes, kids) ==
    /\ Fault
    /\ IF kids = {} THEN ReplayComplete(activeGraphs)
       ELSE /\ restarting' = TRUE
            /\ children' = kids
            /\ live' = [f \in Flows |->
                           IF f \in kids /\ processes[f] # None
                           THEN [processes[f] EXCEPT !.stop = TRUE] ELSE processes[f]]
            /\ UNCHANGED activeGraphs
    /\ UNCHANGED << up, journal >>

\* The next user message: system messages are handled first.
Receives(types) ==
    /\ up
    /\ system = <<>>
    /\ mailbox # <<>>
    /\ Head(mailbox).type \in types
    /\ mailbox' = Tail(mailbox)

handleActiveGraph(f) ==
    /\ journal' = Append(journal, [type |-> "created", flow |-> f])
    /\ activeGraphs' = activeGraphs \union {f}

handleInactiveGraph_Kept(f) ==
    /\ journal' = Append(journal, [type |-> "completed", flow |-> f])
    /\ UNCHANGED activeGraphs

handleInactiveGraph(f) ==
    /\ journal' = Append(journal, [type |-> "completed", flow |-> f])
    /\ activeGraphs' = activeGraphs \ {f}

CreateGraph_Unrecorded ==
    /\ Receives({"create"})
    /\ LET m == Head(mailbox)
       IN  /\ live[m.flow] = None
           /\ children' = children \union {m.flow}
           /\ live' = [live EXCEPT ![m.flow] = Spawned(<< m >>)]
    /\ UNCHANGED << up, journal, activeGraphs, restarting, requests, faults, system, draining,
                    stored, timers, idle >>

\* CreateGraphRequest: spawn, record, then forward to the child.
CreateGraph ==
    /\ Receives({"create"})
    /\ LET m == Head(mailbox)
           f == m.flow
       IN  \/ /\ live[f] # None
              /\ requests' = Respond(m.request, "Internal")
              /\ UNCHANGED << supervisorVars, live, faults >>
           \/ /\ live[f] = None
              /\ handleActiveGraph(f)
              /\ children' = children \union {f}
              /\ live' = [live EXCEPT ![f] = Spawned(<< m >>)]
              /\ UNCHANGED << up, restarting, requests, faults >>
           \/ /\ live[f] = None
              /\ SupervisorFails([live EXCEPT ![f] = Spawned(<<>>)], children \union {f})
              /\ UNCHANGED requests
    /\ UNCHANGED << system, draining, stored, timers, idle >>

\* DeactivateGraphRequest: record the flow as completed, stop its actor.
DeactivateGraph ==
    /\ Receives({"deactivate"})
    /\ LET f == Head(mailbox).flow
       IN  \/ /\ IF f \in activeGraphs THEN handleInactiveGraph(f)
                 ELSE UNCHANGED << journal, activeGraphs >>
              /\ live' = IF f \in children THEN Tell(live, f, Note("pill", f)) ELSE live
              /\ UNCHANGED << up, restarting, children, faults >>
           \/ /\ f \in activeGraphs
              /\ SupervisorFails(live, children)
    /\ UNCHANGED << system, draining, stored, timers, requests, idle >>

\* Any other GraphMessage: forwarded to the child, which is spawned, but not
\* recorded, when there is none.
ForwardGraphMessage ==
    /\ Receives({"add", "commit"})
    /\ LET m == Head(mailbox)
           f == m.flow
       IN  \/ /\ f \in children
              /\ live' = Tell(live, f, m)
              /\ UNCHANGED << children, requests >>
           \/ /\ f \notin children /\ live[f] = None
              /\ children' = children \union {f}
              /\ live' = [live EXCEPT ![f] = Spawned(<< m >>)]
              /\ UNCHANGED requests
           \/ /\ f \notin children /\ live[f] # None
              /\ requests' = Respond(m.request, "NotFound")
              /\ UNCHANGED << children, live >>
    /\ UNCHANGED << up, journal, activeGraphs, restarting, system, draining, stored,
                    timers, idle, faults >>

Terminated_Recorded ==
    /\ up
    /\ system # <<>> /\ Head(system).type = "terminated"
    /\ system' = Tail(system)
    /\ ~ restarting
    /\ handleInactiveGraph(Head(system).flow)
    /\ children' = children \ {Head(system).flow}
    /\ UNCHANGED << up, restarting, mailbox, live, draining, stored, timers, requests, idle, faults >>

\* Terminated: the child is forgotten; the handler itself only logs.
Terminated ==
    /\ up
    /\ system # <<>> /\ Head(system).type = "terminated"
    /\ system' = Tail(system)
    /\ LET kids == children \ {Head(system).flow}
       IN  IF restarting /\ kids = {} THEN ReplayComplete(activeGraphs)
           ELSE /\ children' = kids
                /\ UNCHANGED << activeGraphs, restarting, live >>
    /\ UNCHANGED << up, journal, mailbox, draining, stored, timers, requests, idle, faults >>

HandleFailure_NoRestart ==
    /\ up
    /\ system # <<>> /\ Head(system).type = "failure"
    /\ system' = Tail(system)
    /\ LET f == Head(system).flow
       IN  live' = IF live[f] = None \/ Head(system).reason = "persistence" THEN live
                   ELSE [live EXCEPT ![f].stop = TRUE]
    /\ UNCHANGED << supervisorVars, mailbox, draining, stored, timers, requests, idle, faults >>

\* graphDecider and HandleFailure: a failure to read or write the journal is
\* answered with a delayed restart, any other with a stop.
HandleFailure ==
    /\ up
    /\ system # <<>> /\ Head(system).type = "failure"
    /\ system' = Tail(system)
    /\ LET f == Head(system).flow
       IN  IF Head(system).reason = "persistence"
           THEN /\ timers' = [timers EXCEPT ![f] = @ + 1]
                /\ UNCHANGED live
           ELSE /\ live' = IF live[f] = None THEN live ELSE [live EXCEPT ![f].stop = TRUE]
                /\ UNCHANGED timers
    /\ UNCHANGED << supervisorVars, mailbox, draining, stored, requests, idle, faults >>

\* The timer of handleRestart: RestartChildren sends to whoever has the name.
RestartChild(f) ==
    /\ up /\ timers[f] > 0
    /\ timers' = [timers EXCEPT ![f] = @ - 1]
    /\ live' = IF live[f] = None \/ live[f].stop THEN live
               ELSE [live EXCEPT ![f].status = "starting"]
    /\ UNCHANGED << supervisorVars, mailbox, system, draining, stored, requests, idle, faults >>

-----------------------------------------------------------------------------
(***************************************************************************)
(* The graph actors.                                                       *)
(***************************************************************************)

\* Started, also after a Restart: the journal is read and replayed.
GraphStarted(f) ==
    /\ up /\ live[f] # None /\ live[f].status = "starting"
    /\ \/ /\ live' = [live EXCEPT ![f].status = "running", ![f].graph = Replay(stored[f])]
          /\ UNCHANGED << system, faults >>
       \/ /\ Fault
          /\ live' = [live EXCEPT ![f].status = "suspended"]
          /\ system' = SendSystem("failure", f, "persistence")
    /\ UNCHANGED << supervisorVars, mailbox, draining, stored, timers, requests, idle >>

\* receiveCommand in the registered instance.
ReceiveCommand(f) ==
    /\ up /\ Running(f)
    /\ live[f].box # <<>> /\ Head(live[f].box).type \in Commands
    /\ LET m      == Head(live[f].box)
           events == Persisted(live[f].graph, m)
           popped == [live EXCEPT ![f].box = Tail(@)]
       IN  \/ /\ stored' = [stored EXCEPT ![f] = @ \o events]
              /\ live' = LET done == [popped EXCEPT ![f].graph = FoldLeft(ReplayEvent, @, events)]
                         IN  IF \E i \in DOMAIN events : events[i].type = "completed"
                             THEN Tell(done, f, Note("deactivate", f)) ELSE done
              /\ requests' = Respond(m.request, validateCmd(live[f].graph, m))
              /\ UNCHANGED << system, faults >>
           \/ /\ Fault
              /\ \E reason \in {"persistence", "panic"} :
                    system' = SendSystem("failure", f, reason)
              /\ live' = [popped EXCEPT ![f].status = "suspended"]
              /\ UNCHANGED << stored, requests >>
    /\ UNCHANGED << supervisorVars, mailbox, draining, timers, idle >>

\* receiveMessage of a ReceiveTimeout, which is sent when nothing was received
\* for long enough, and receiveCommand of DeactivateGraphRequest.
ReceiveTimeout(f) ==
    /\ up /\ Running(f) /\ live[f].box = <<>>
    /\ Fault
    /\ live' = Tell(live, f, Note("timeout", f))
    /\ UNCHANGED << supervisorVars, mailbox, system, draining, stored, timers, requests, idle >>

ReceiveDeactivate(f) ==
    /\ up /\ Running(f)
    /\ live[f].box # <<>> /\ Head(live[f].box).type \in {"deactivate", "timeout"}
    /\ LET m == Head(live[f].box)
       IN  /\ mailbox' = IF live[f].graph.created
                         THEN Append(mailbox, Note("deactivate", f)) ELSE mailbox
           /\ live' = [live EXCEPT ![f].box = Tail(@),
                                   ![f].stop = m.type = "timeout" /\ ~ live[f].graph.created]
           /\ idle' = IF m.type = "timeout" /\ live[f].graph.created
                      THEN idle \union {f} ELSE idle
    /\ UNCHANGED << supervisorVars, system, draining, stored, timers, requests, faults >>

\* PoisonPill, or a Stop of the supervisor: the name is released.
StopGraphActor(f) ==
    /\ up /\ live[f] # None /\ live[f].status # "starting"
    /\ LET pill == Running(f) /\ live[f].box # <<>> /\ Head(live[f].box).type = "pill"
           rest == CASE live[f].status = "suspended" -> <<>>
                     [] pill                         -> Tail(live[f].box)
                     [] OTHER                        -> live[f].box
       IN  /\ pill \/ live[f].stop
           /\ draining' = [draining EXCEPT ![f] = Append(@,
                              [box |-> rest, graph |-> live[f].graph, told |-> FALSE])]
           /\ live' = [live EXCEPT ![f] = None]
    /\ UNCHANGED << supervisorVars, mailbox, system, stored, timers, requests, idle, faults >>

\* The instance k of f that has stopped; it is gone once told and drained.
Drained(f, k, rest, g) ==
    IF rest = <<>> THEN [draining EXCEPT ![f] = RemoveAt(@, k)]
    ELSE [draining EXCEPT ![f][k] = [box |-> rest, graph |-> g, told |-> TRUE]]

\* A stopped instance tells its watcher.
TellWatcher(f, k) ==
    /\ up /\ k \in DOMAIN draining[f] /\ ~ draining[f][k].told
    /\ system' = SendSystem("terminated", f, "")
    /\ draining' = Drained(f, k, draining[f][k].box, draining[f][k].graph)
    /\ UNCHANGED << supervisorVars, mailbox, live, stored, timers, requests, idle, faults >>

\* A stopped instance handles the commands that were queued behind the pill.
\* What it tells itself, and the suspension when it fails, goes to whoever has
\* its name by now.
DrainCommand(f, k) ==
    /\ up /\ k \in DOMAIN draining[f] /\ draining[f][k].told
    /\ Head(draining[f][k].box).type \in Commands
    /\ LET z      == draining[f][k]
           m      == Head(z.box)
           events == Persisted(z.graph, m)
       IN  \/ /\ stored' = [stored EXCEPT ![f] = @ \o events]
              /\ draining' = Drained(f, k, Tail(z.box), FoldLeft(ReplayEvent, z.graph, events))
              /\ live' = IF \E i \in DOMAIN events : events[i].type = "completed"
                         THEN Tell(live, f, Note("deactivate", f)) ELSE live
              /\ requests' = Respond(m.request, validateCmd(z.graph, m))
              /\ UNCHANGED << system, faults >>
           \/ /\ Fault
              /\ system' = SendSystem("failure", f, "persistence")
              /\ draining' = Drained(f, k, Tail(z.box), z.graph)
              /\ live' = IF live[f] = None THEN live
                         ELSE [live EXCEPT ![f].status = "suspended"]
              /\ UNCHANGED << stored, requests >>
    /\ UNCHANGED << supervisorVars, mailbox, timers, idle >>

\* Its other messages: Deactivate and ReceiveTimeout are passed on to the
\* supervisor; another pill, or the clean-up of an instance without a graph,
\* stops whoever has the name by now.
DrainOther(f, k) ==
    /\ up /\ k \in DOMAIN draining[f] /\ draining[f][k].told
    /\ Head(draining[f][k].box).type \notin Commands
    /\ LET z    == draining[f][k]
           type == Head(z.box).type
       IN  /\ mailbox' = IF z.graph.created /\ type # "pill"
                         THEN Append(mailbox, Note("deactivate", f)) ELSE mailbox
           /\ live' = IF live[f] # None /\ (type = "pill" \/ (type = "timeout" /\ ~ z.graph.created))
                      THEN [live EXCEPT ![f].stop = TRUE] ELSE live
           /\ idle' = IF z.graph.created /\ type = "timeout" THEN idle \union {f} ELSE idle
           /\ draining' = Drained(f, k, Tail(z.box), z.graph)
    /\ UNCHANGED << supervisorVars, system, stored, timers, requests, faults >>

-----------------------------------------------------------------------------
(***************************************************************************)
(* The callers, and the process.                                           *)
(***************************************************************************)

\* forwardRequest: a future and a message to the shard's supervisor.
ForwardRequest(f, type) ==
    /\ up
    /\ Len(requests) < MaxRequests
    /\ requests' = Append(requests, [flow |-> f, type |-> type, answer |-> "pending"])
    /\ mailbox' = Append(mailbox, [type |-> type, flow |-> f, request |-> Len(requests) + 1])
    /\ UNCHANGED << supervisorVars, system, live, draining, stored, timers, idle, faults >>

RequestTimeout_Retried(r) ==
    /\ up /\ r \in DOMAIN requests /\ requests[r].answer = "pending"
    /\ Len(mailbox) < 2
    /\ mailbox' = Append(mailbox, [type |-> requests[r].type, flow |-> requests[r].flow,
                                   request |-> r])
    /\ UNCHANGED << supervisorVars, requests, system, live, draining, stored, timers, idle, faults >>

\* ErrTimeout: the caller hears DeadlineExceeded, the message stays where it is.
RequestTimeout(r) ==
    /\ up /\ r \in DOMAIN requests /\ requests[r].answer = "pending"
    /\ requests' = Respond(r, "DeadlineExceeded")
    /\ UNCHANGED << supervisorVars, mailbox, system, live, draining, stored, timers, idle, faults >>

\* The process dies: the journals are what is left.
Crash ==
    /\ up
    /\ Fault
    /\ up' = FALSE
    /\ activeGraphs' = {}
    /\ restarting' = FALSE
    /\ mailbox' = <<>>
    /\ system' = <<>>
    /\ children' = {}
    /\ live' = [f \in Flows |-> None]
    /\ draining' = [f \in Flows |-> <<>>]
    /\ timers' = [f \in Flows |-> 0]
    /\ requests' = [r \in DOMAIN requests |->
                       IF requests[r].answer # "pending" THEN requests[r]
                       ELSE [requests[r] EXCEPT !.answer = "Unavailable"]]
    /\ UNCHANGED << journal, stored, idle >>

Supervise ==
    \/ NewGraphSupervisor
    \/ CreateGraph
    \/ DeactivateGraph
    \/ ForwardGraphMessage
    \/ Terminated
    \/ HandleFailure

RunGraph(f) ==
    \/ GraphStarted(f)
    \/ ReceiveCommand(f)
    \/ ReceiveDeactivate(f)
    \/ StopGraphActor(f)

Drain(f) ==
    \E k \in DOMAIN draining[f] : TellWatcher(f, k) \/ DrainCommand(f, k) \/ DrainOther(f, k)

Next ==
    \/ Supervise
    \/ \E f \in Flows : RunGraph(f) \/ Drain(f) \/ RestartChild(f) \/ ReceiveTimeout(f)
    \/ \E f \in Flows, type \in Commands : ForwardRequest(f, type)
    \/ \E r \in DOMAIN requests : RequestTimeout(r)
    \/ Crash

Spec == Init /\ [][Next]_vars

\* Mailboxes are scheduled until they are empty, timers fire, and the process
\* is started again after a crash.
Fairness ==
    /\ WF_vars(Supervise)
    /\ \A f \in Flows : WF_vars(RunGraph(f)) /\ WF_vars(Drain(f)) /\ WF_vars(RestartChild(f))
    /\ \A r \in 1..MaxRequests : WF_vars(RequestTimeout(r))

FairSpec == Spec /\ Fairness

-----------------------------------------------------------------------------
(***************************************************************************)
(* Properties.                                                             *)
(***************************************************************************)

Executions(f, r) == Cardinality({i \in DOMAIN stored[f] : stored[f][i].request = r})

Has(events, type) == \E i \in DOMAIN events : events[i].type = type

\* activeGraphs is what a replay of the supervisor's journal gives, at every
\* moment and after failures between PersistReceive and the update: a restart,
\* which replays onto the old map, changes nothing.
ActiveMatchesJournal == up => activeGraphs = Recorded({}, journal)

\* A caller that got its create answered holds a flow that the supervisor has
\* recorded, so that it is respawned after a crash: receiveCommand persists
\* GraphCreated after it spawned the actor, but before it forwards the request.
RecordedBeforeAnswered ==
    \A r \in DOMAIN requests : requests[r].type = "create" /\ requests[r].answer = "ok" =>
        \E i \in DOMAIN journal : journal[i] = [type |-> "created", flow |-> requests[r].flow]

\* DeactivateGraphRequest is the only way out of the supervisor's journal: a
\* flow recorded as completed has completed, or its actor was idle once.  A
\* failed or terminated actor alone never retires its flow.
OnlyDoneOrIdleRetired ==
    \A i \in DOMAIN journal : journal[i].type = "completed" =>
        journal[i].flow \in idle \/ Has(stored[journal[i].flow], "completed")

\* forwardRequest: a request is executed at most once, by whichever instance; a
\* caller that hears ok had its create or add persisted, and one that hears an
\* error had nothing persisted, except after DeadlineExceeded or a lost
\* connection, which tell nothing.
AnswersTellTheTruth ==
    \A r \in DOMAIN requests :
        LET n == Executions(requests[r].flow, r)
            a == requests[r].answer
        IN  /\ n <= 1
            /\ a = "ok" /\ requests[r].type \in {"create", "add"} => n = 1
            /\ a \notin {"ok", "pending", "DeadlineExceeded", "Unavailable"} => n = 0

\* docs/API.md:17, a StageID "is unique within the respective graph".
StageIdsUnique ==
    \A f \in Flows : \A i, j \in DOMAIN stored[f] :
        stored[f][i].type = "stage" /\ stored[f][j].type = "stage" /\ i # j
            => stored[f][i].stage # stored[f][j].stage

\* When the process comes back after a crash, the actor of every flow recorded
\* as active is spawned and replays, ReplayComplete of the supervisor.
ActiveRespawned ==
    \A f \in Flows : (~ up /\ f \in Recorded({}, journal))
                        ~> (live[f] # None /\ live[f].status = "running")

\* An actor suspended by a failure is restarted or stopped: the delayed restart
\* of handleRestart is not lost, and no name stays taken by a suspended actor.
FailedActorRecovers ==
    \A f \in Flows : (live[f] # None /\ live[f].status = "suspended")
                        ~> (live[f] = None \/ live[f].status = "running")

=============================================================================
