---------------------------- MODULE CascadeProofs ---------------------------
(***************************************************************************)
(* Every call an actor makes while it works off its call stack keeps Inv,  *)
(* also the ones it makes while it replays.                                *)
(***************************************************************************)
EXTENDS CommandProofs

\* A persist frame at the top of the stack holds an event that fits.
LEMMA PersistFrame ==
  ASSUME Inv, Calling("persist")
  PROVE  LET e == Head(stack).event
         IN  /\ e \in Event /\ Fits(graph, e) /\ Follows(e)
             /\ e.type \in {"StageCompleted", "StageComposed", "DelayScheduled", "InvocationStarted"}
             /\ e.stage \in StageIds(graph)
<1> DEFINE e == Head(stack).event
<1>1. stack # <<>> /\ Head(stack) \in FramesOf(graph) /\ Head(stack).call = "persist"
  BY LiveActor DEF Calling
<1>2. e \in Event
  BY <1>1 DEF FramesOf, Frame
<1>3. /\ e.type \in {"StageCompleted", "StageComposed", "DelayScheduled", "InvocationStarted"}
      /\ e.stage \in StageIds(graph)
      /\ e.type = "StageComposed" => e.inner \in StageIds(graph)
  BY <1>1 DEF FramesOf, FrameOK
<1> HIDE DEF e
<1>4. Fits(graph, e)
  BY <1>3 DEF Fits
<1>5. e.type \notin LifecycleType /\ e.type # "StageAdded"
  BY <1>3 DEF LifecycleType
<1>6. Follows(e)
  BY <1>1, <1>2, <1>4, <1>5, LiveActor, FitsFollows
<1> QED
  BY <1>2, <1>3, <1>4, <1>6 DEF e

\* Persisting during a replay inserts the row where the replay is.
LEMMA ReplayingKeepsInv ==
  ASSUME Inv, PersistReplaying
  PROVE  Inv'
<1> DEFINE e == Head(stack).event
           h == UpdateWithEvent(graph, e)
<1>0. PICK n \in Nat, c \in Nat : n = Len(journal) /\ c = cursor
  BY LenProperties DEF Inv, TypeOK
<1>1. /\ e \in Event /\ Fits(graph, e)
      /\ e.type \in {"StageCompleted", "StageComposed", "DelayScheduled", "InvocationStarted"}
      /\ e.stage \in StageIds(graph)
  BY PersistFrame DEF PersistReplaying
<1>2. /\ journal' = InsertAt(c, e) /\ graph' = h /\ stack' = CallsAfter(h, e, FALSE) \o Tail(stack)
      /\ cursor' = c + 1 /\ replayEnd' = replayEnd + 1
      /\ actor = "replaying" /\ actor' = actor /\ spawns' = spawns
      /\ inflight' = inflight /\ timers' = timers /\ deactivate' = deactivate /\ stack # <<>>
  BY <1>0 DEF PersistReplaying, envVars, Recovering, Calling
<1> HIDE DEF e
<1>3. /\ journal \in Seq(Event) /\ graph \in Graph /\ GraphOK(graph) /\ Len(graph.stages) \in Nat
      /\ replayEnd \in Nat /\ spawns \in Nat /\ c # 0 /\ Tail(stack) \in Seq(FramesOf(graph))
  BY <1>0, <1>2, LiveActor, GraphFields DEF Inv, TypeOK, GraphMatchesJournal
<1>4. e.type \notin LifecycleType \union {"StageAdded"}
  BY <1>1 DEF LifecycleType
<1>5. /\ h \in Graph /\ GraphOK(h) /\ h.state = NextState(graph, e)
      /\ Len(h.stages) = Len(graph.stages) + (IF e.type = "StageAdded" THEN 1 ELSE 0)
  BY <1>1, <1>3, UpdateOK, Zenon
<1> HIDE DEF h
<1>6. h.state = graph.state /\ StageIds(h) = StageIds(graph)
  <2>1. NextState(graph, e) = graph.state
    BY <1>4 DEF NextState, LifecycleType
  <2>2. Len(h.stages) = Len(graph.stages)
    <3>1. Len(h.stages) = Len(graph.stages) + 0
      BY <1>4, <1>5, Zenon
    <3> QED
      BY ONLY <1>3, <3>1
  <2> QED
    BY <1>5, <2>1, <2>2, Zenon DEF StageIds
<1>7. /\ graph.state = StateAfter(c - 1) /\ StageIds(graph) = AddedBefore(c)
      /\ graph.state # "nil" /\ c <= replayEnd + 1 /\ replayEnd <= n
      /\ \A i \in replayEnd + 1 .. n : journal[i].type \notin LifecycleType \union {"StageAdded"}
  <2>1. Applied = c - 1 /\ Applied + 1 = c
    BY <1>0, <1>2 DEF Applied, Recovering
  <2> QED
    BY <1>0, <1>2, <2>1 DEF Inv, GraphMatchesJournal, Recovering, HasGraph
<1>8. c \in 1 .. n + 1 /\ c > 1
  <2>1. StateAfter(c - 1) # "nil"
    BY <1>7
  <2>2. PICK i \in DOMAIN journal : i <= c - 1
    BY <2>1 DEF StateAfter, Seen
  <2>3. i \in 1 .. n
    BY <1>0, <1>3, <2>2, LenProperties
  <2> QED
    BY <1>3, <1>7, <2>2, <2>3
<1>9. /\ journal' \in Seq(Event) /\ Len(journal') = n + 1
      /\ \A i \in 1 .. n + 1 : i > c => i - 1 \in 1 .. n /\ journal'[i] = journal[i - 1]
  BY <1>0, <1>1, <1>2, <1>3, <1>8, JournalInsert
<1>10. /\ AddedBefore(c + 1)' = AddedBefore(c) /\ AddedBefore(n + 2)' = AddedBefore(n + 1)
       /\ StateAfter(c)' = StateAfter(c - 1)
  <2>1. /\ \A k \in c .. n + 1 : AddedBefore(k + 1)' = AddedBefore(k)
        /\ \A k \in c - 1 .. n : StateAfter(k + 1)' = StateAfter(k)
    BY <1>0, <1>1, <1>2, <1>3, <1>4, <1>8, AlongInsert, Zenon
  <2>2. /\ c \in c .. n + 1 /\ n + 1 \in c .. n + 1 /\ n + 1 + 1 = n + 2
        /\ c - 1 \in c - 1 .. n /\ c - 1 + 1 = c
    BY <1>8
  <2> QED
    BY <2>1, <2>2
<1>11. stack' \in Seq(FramesOf(h))
  <2>1. /\ e.type \in {"StageCompleted", "StageComposed", "InvocationCompleted"} => e.stage \in StageIds(h)
        /\ e.type = "StageComposed" => e.inner \in StageIds(h)
    BY <1>1, <1>6 DEF Fits
  <2>2. CallsAfter(h, e, FALSE) \in Seq(FramesOf(h))
    BY <1>1, <1>5, <2>1, CallsOK, Zenon
  <2>3. Tail(stack) \in Seq(FramesOf(h))
    <3>1. FramesOf(graph) \subseteq FramesOf(h)
      BY <1>6, FramesMonotone
    <3> QED
      BY <1>3, <3>1, SeqMonotonic
  <2> HIDE DEF FramesOf
  <2> QED
    BY <1>2, <2>2, <2>3, ConcatProperties, Zenon
<1>12. TypeOK'
  <2>1. stack' \in Seq(Frame)
    BY <1>11, StackFrames
  <2>2. cursor' \in Nat \ {0} /\ replayEnd' \in Nat /\ spawns' \in Nat
    BY <1>2, <1>3
  <2>3. inflight' \subseteq Call /\ timers' \subseteq Nat /\ deactivate' \in BOOLEAN
    BY <1>2 DEF Inv, TypeOK
  <2>4. graph' \in Graph /\ actor' = "replaying" /\ journal' \in Seq(Event)
    BY <1>2, <1>5, <1>9
  <2> QED
    BY <2>1, <2>2, <2>3, <2>4 DEF TypeOK
<1>13. OneLife'
  BY <1>0, <1>1, <1>2, <1>3, <1>4, <1>8, InsertKeepsOneLife DEF Inv
<1>14. (\A i \in DOMAIN journal : EventOK(i))'
  <2>1. e.stage \in AddedBefore(c) /\ (e.type = "StageComposed" => e.inner \in AddedBefore(c))
    BY <1>1, <1>7 DEF Fits
  <2>2. \A i \in DOMAIN journal : EventOK(i)
    BY DEF Inv, GraphMatchesJournal
  <2> QED
    BY <1>0, <1>1, <1>2, <1>3, <1>4, <1>8, <2>1, <2>2, InsertKeepsEvents, SMTT(30)
<1>15. (\A k \in DOMAIN stack : FrameOK(graph, stack[k]))'
  BY <1>2, <1>11, StackFrames, Zenon
<1>16. /\ (\A i \in inflight : i.stage \in AddedBefore(Len(journal) + 1))'
       /\ (timers \subseteq AddedBefore(Len(journal) + 1))'
  <2>1. AddedBefore(Len(journal) + 1)' = AddedBefore(n + 2)'
    BY <1>9
  <2>2. AddedBefore(Len(journal) + 1)' = AddedBefore(Len(journal) + 1)
    BY <1>0, <1>10, <2>1
  <2> QED
    BY <1>2, <2>2 DEF Inv, GraphMatchesJournal
<1>17. graph'.state = StateAfter(Applied)' /\ StageIds(graph') = AddedBefore(Applied + 1)'
  <2>1. Applied' = c /\ Applied' + 1 = c + 1
    BY <1>2 DEF Applied, Recovering
  <2>2. StateAfter(Applied)' = StateAfter(c)' /\ AddedBefore(Applied + 1)' = AddedBefore(c + 1)'
    BY <2>1
  <2> QED
    BY <1>2, <1>6, <1>7, <1>10, <2>2
<1>18. (Recovering => /\ cursor <= replayEnd + 1 /\ replayEnd <= Len(journal)
                      /\ \A i \in replayEnd + 1 .. Len(journal) :
                           journal[i].type \notin LifecycleType \union {"StageAdded"})'
  <2>1. ASSUME NEW i \in replayEnd' + 1 .. n + 1
        PROVE  journal'[i].type \notin LifecycleType \union {"StageAdded"}
    <3>1. i \in 1 .. n + 1 /\ i > c /\ i - 1 \in replayEnd + 1 .. n
      BY <1>2, <1>3, <1>7, <2>1
    <3> QED
      BY <1>7, <1>9, <3>1
  <2>2. cursor' <= replayEnd' + 1 /\ replayEnd' <= n + 1
    BY <1>2, <1>3, <1>7
  <2> QED
    BY <1>9, <2>1, <2>2
<1> QED
  BY <1>2, <1>5, <1>6, <1>7, <1>12, <1>13, <1>14, <1>15, <1>16, <1>17, <1>18, Zenon
  DEF Inv, GraphMatchesJournal, HasGraph

\* Marking a stage as triggered keeps the graph well formed.
LEMMA MarkTriggeredOK ==
  ASSUME NEW g \in Graph, GraphOK(g), NEW s \in StageIds(g)
  PROVE  LET h == MarkTriggered(g, s)
         IN  h \in Graph /\ GraphOK(h) /\ h.state = g.state /\ Len(h.stages) = Len(g.stages)
<1> DEFINE st == [g.stages[s] EXCEPT !.triggered = TRUE]
<1>1. /\ st \in Stage /\ st.op = g.stages[s].op /\ st.deps = g.stages[s].deps
      /\ st.composeReference = g.stages[s].composeReference
  BY GraphFields, Zenon DEF Stage
<1>2. st.composeReference \in 0 .. Len(g.stages)
  BY <1>1 DEF GraphOK
<1>3. MarkTriggered(g, s) = [g EXCEPT !.stages = [g.stages EXCEPT ![s] = st]]
  BY DEF MarkTriggered
<1> HIDE DEF st
<1> QED
  BY <1>1, <1>2, <1>3, ReplaceStage

\* The inputs with which a ready stage triggers are results.
LEMMA ReadyInputs ==
  ASSUME NEW g \in Graph, GraphOK(g), NEW s \in ReadyStages(g)
  PROVE  LET t == requestTrigger(g, s)
             x == ExecutionStrategy(g.stages[s].op, t.status)
         IN  /\ s \in StageIds(g)
             /\ t.inputs \in Seq(Result)
             /\ x = "propagateResult" => t.inputs[1] \in Result
             /\ x \in {"invokeWithoutArgs", "invokeWithResult", "invokeWithResultOrError"} =>
                  InvocationArgs(x, t.inputs) \in Seq(Result)
<1> DEFINE op == g.stages[s].op
           rs == DependencyResults(g, s)
           t == requestTrigger(g, s)
           x == ExecutionStrategy(op, t.status)
<1>1. s \in StageIds(g) /\ t.satisfied
  BY DEF ReadyStages
<1>2. op \in Operation /\ g.stages[s].deps \in Seq(Nat)
  BY <1>1, GraphFields
<1>3. rs \in Seq(Result)
  <2> DEFINE deps == g.stages[s].deps
  <2>1. Len(deps) \in Nat /\ DOMAIN deps = 1 .. Len(deps)
    BY <1>2, LenProperties
  <2>2. \A i \in 1 .. Len(deps) : deps[i] \in 0 .. Len(g.stages)
    BY <1>1, <2>1 DEF GraphOK
  <2>3. \A i \in 1 .. Len(deps) : DependencyResult(g, deps[i]) \in Result
    BY <2>2, DependencyResultOK
  <2> QED
    BY <2>1, <2>3 DEF DependencyResults
<1>4. t = TriggerStrategy(op, rs)
  <2>1. NotTriggered.satisfied = FALSE
    BY DEF NotTriggered
  <2> QED
    BY <1>1, <2>1 DEF requestTrigger
<1> HIDE DEF op, rs
<1>5. /\ t.inputs \in Seq(Result)
      /\ x \in {"propagateResult", "invokeWithResultOrError"} => t.inputs[1] \in Result
  BY <1>1, <1>2, <1>3, <1>4, TriggerInputs
<1> HIDE DEF t, x
<1>6. x \in {"invokeWithoutArgs", "invokeWithResult", "invokeWithResultOrError"} =>
        InvocationArgs(x, t.inputs) \in Seq(Result)
  <2>1. NewSuccessfulResult("empty") \in Result
    BY ResultConstructors DEF Datum
  <2> QED
    BY <1>5, <2>1 DEF InvocationArgs
<1> QED
  BY <1>1, <1>5, <1>6 DEF op, t, x

\* Every step of a cascade keeps Inv.
LEMMA StepKeepsInv ==
  ASSUME Inv, Step
  PROVE  Inv'
<1>1. /\ stack # <<>> /\ actor # "down" /\ HasGraph /\ deactivate \in BOOLEAN
      /\ graph \in Graph /\ GraphOK(graph)
      /\ stack \in Seq(FramesOf(graph)) /\ Tail(stack) \in Seq(FramesOf(graph))
  <2>1. stack # <<>>
    BY Zenon DEF Step, PersistCall, PersistReplaying, PersistInvocation, PersistDelay, triggerReadyStages,
           RecoverStage, LoopDone, OnGraphExecutionFinished, OnGraphComplete, CheckDone, Calling
  <2> QED
    BY <2>1, LiveActor
<1>2. Len(graph.stages) \in Nat
  BY <1>1, GraphFields
<1>3. ASSUME NEW e \in Event, Fits(graph, e), NEW st \in Seq(FramesOf(graph))
      PROVE  st \in Seq(FramesOf(UpdateWithEvent(graph, e)))
  <2> DEFINE h == UpdateWithEvent(graph, e)
  <2>1. StageIds(graph) \subseteq StageIds(h)
    BY <1>1, <1>3, StagesKept
  <2>2. FramesOf(graph) \subseteq FramesOf(h)
    BY <2>1, FramesMonotone
  <2> QED
    BY <1>3, <2>2, SeqMonotonic
<1>4. CASE PersistCall
  <2> DEFINE e == Head(stack).event
  <2>1. /\ e \in Event /\ Fits(graph, e) /\ Follows(e)
        /\ e.type \in {"StageCompleted", "StageComposed", "DelayScheduled", "InvocationStarted"}
    BY <1>4, PersistFrame DEF PersistCall
  <2>2. persistAndUpdateGraph(e, Tail(stack)) /\ UNCHANGED << replayVars, envVars >>
    BY <1>4 DEF PersistCall
  <2> HIDE DEF e
  <2>3. e.type \notin LifecycleType \union {"StageAdded"}
    BY <2>1 DEF LifecycleType
  <2>4. Tail(stack) \in Seq(FramesOf(UpdateWithEvent(graph, e)))
    BY <1>1, <1>3, <2>1
  <2>5. replayVars' = replayVars /\ inflight' = inflight /\ timers' = timers /\ deactivate' = deactivate
    BY <2>2 DEF envVars
  <2> QED
    BY <1>1, <2>1, <2>2, <2>3, <2>4, <2>5, PersistStep, Zenon
<1>5. CASE PersistInvocation
  <2> DEFINE s == Head(stack).event.stage
  <2>1. s \in StageIds(graph)
    BY <1>5, PersistFrame DEF PersistInvocation
  <2>2. Invoke(s, <<>>) /\ stack' = Tail(stack) /\ UNCHANGED << graph, replayVars, timers, deactivate >>
    BY <1>5 DEF PersistInvocation
  <2> HIDE DEF s
  <2>3. <<>> \in Seq(Result)
    OBVIOUS
  <2> QED
    BY <1>1, <2>1, <2>2, <2>3, InvokeStep, Zenon
<1>6. CASE PersistDelay
  <2> DEFINE e == Head(stack).event
  <2>1. /\ e \in Event /\ Fits(graph, e) /\ Follows(e) /\ e.stage \in StageIds(graph)
        /\ e.type = "DelayScheduled"
    BY <1>6, PersistFrame DEF PersistDelay
  <2>2. /\ journal' = Append(journal, e) /\ timers' = timers \union {e.stage} /\ stack' = Tail(stack)
        /\ UNCHANGED << graph, replayVars, inflight, deactivate >>
    BY <1>6 DEF PersistDelay, scheduleDelay
  <2> HIDE DEF e
  <2>3. e.stage \in AddedBefore(Len(journal) + 1) /\ e.type \notin LifecycleType \union {"StageAdded"}
    BY <2>1 DEF Follows, LifecycleType
  <2>4. /\ timers' \subseteq AddedBefore(Len(journal) + 1) /\ inflight' \subseteq Call
        /\ \A i \in inflight' : i.stage \in AddedBefore(Len(journal) + 1)
    BY <2>2, <2>3, Zenon DEF Inv, TypeOK, GraphMatchesJournal
  <2>5. /\ graph'.state = NextState(graph, e) /\ graph'.state # "nil"
        /\ Len(graph'.stages) = Len(graph.stages) + (IF e.type = "StageAdded" THEN 1 ELSE 0)
    BY <1>1, <1>2, <2>1, <2>2 DEF NextState, HasGraph
  <2>6. e.type # "GraphCreated" /\ stack' \in Seq(FramesOf(graph')) /\ graph' = graph
    BY <1>1, <2>1, <2>2
  <2> QED
    BY <1>1, <2>1, <2>2, <2>3, <2>4, <2>5, <2>6, RecordStep, Zenon
<1>7. CASE triggerReadyStages
  <2>1. PICK s \in ReadyStages(graph) : TriggerInvoke(s) \/ TriggerComplete(s) \/ TriggerExternal(s)
    BY <1>7 DEF triggerReadyStages
  <2> DEFINE t == requestTrigger(graph, s)
             x == ExecutionStrategy(graph.stages[s].op, t.status)
             h == MarkTriggered(graph, s)
  <2>2. /\ s \in StageIds(graph)
        /\ x = "propagateResult" => t.inputs[1] \in Result
        /\ x \in {"invokeWithoutArgs", "invokeWithResult", "invokeWithResultOrError"} =>
             InvocationArgs(x, t.inputs) \in Seq(Result)
    BY <1>1, ReadyInputs
  <2>3. h \in Graph /\ GraphOK(h) /\ h.state = graph.state /\ Len(h.stages) = Len(graph.stages)
    BY <1>1, <2>2, MarkTriggeredOK
  <2>4. stack \in Seq(FramesOf(h))
    <3>1. FramesOf(graph) \subseteq FramesOf(h)
      BY <2>3, FramesMonotone DEF StageIds
    <3> QED
      BY <1>1, <3>1, SeqMonotonic
  <2>5. CASE TriggerInvoke(s)
    <3>1. /\ x \in {"invokeWithoutArgs", "invokeWithResult", "invokeWithResultOrError"}
          /\ Invoke(s, InvocationArgs(x, t.inputs)) /\ graph' = h
          /\ UNCHANGED << stack, replayVars, timers, deactivate >>
      BY <2>5 DEF TriggerInvoke
    <3> HIDE DEF t, x, h
    <3> QED
      BY <1>1, <2>2, <2>3, <2>4, <3>1, InvokeStep, SMTT(30)
  <2>6. CASE TriggerComplete(s)
    <3> DEFINE r == IF x = "succeedWithEmpty" THEN NewSuccessfulResult("empty") ELSE t.inputs[1]
               e == StageCompleted(s, r)
    <3>1. /\ x \in {"succeedWithEmpty", "propagateResult"}
          /\ persistAndUpdateGraph(e, stack) /\ UNCHANGED << replayVars, envVars >>
      BY <2>6 DEF TriggerComplete
    <3>2. r \in Result
      BY <2>2, <3>1, ResultConstructors DEF Datum
    <3> HIDE DEF r, t, x, h
    <3>3. s \in Nat
      BY <1>1, <2>2, GraphFields
    <3>4. e \in Event /\ e.type = "StageCompleted" /\ e.stage = s
      BY <3>2, <3>3, EventConstructors DEF StageCompleted
    <3> HIDE DEF e
    <3>5. Fits(graph, e) /\ e.type \notin LifecycleType \union {"StageAdded"}
      BY <2>2, <3>4 DEF Fits, LifecycleType
    <3>6. Follows(e)
      BY <1>1, <3>4, <3>5, FitsFollows
    <3>7. stack \in Seq(FramesOf(UpdateWithEvent(graph, e)))
      BY <1>1, <1>3, <3>4, <3>5
    <3>8. replayVars' = replayVars /\ inflight' = inflight /\ timers' = timers /\ deactivate' = deactivate
      BY <3>1 DEF envVars
    <3> QED
      BY <1>1, <3>1, <3>4, <3>5, <3>6, <3>7, <3>8, PersistStep
  <2>7. CASE TriggerExternal(s)
    <3>1. graph' = h /\ UNCHANGED << journal, stack, replayVars, envVars >>
      BY <2>7 DEF TriggerExternal
    <3> HIDE DEF h
    <3>2. inflight' = inflight /\ timers' = timers /\ deactivate' = deactivate
      BY <3>1 DEF envVars
    <3> QED
      BY <1>1, <2>3, <2>4, <3>1, <3>2, QuietStep
  <2> QED
    BY <2>1, <2>5, <2>6, <2>7
<1>8. CASE RecoverStage
  <2>1. PICK s \in ReadyStages(graph) :
          persistAndUpdateGraph(StageCompleted(s, NewFailedResult("stage_lost")), stack)
    BY <1>8 DEF RecoverStage
  <2> DEFINE e == StageCompleted(s, NewFailedResult("stage_lost"))
  <2>2. s \in StageIds(graph) /\ s \in Nat /\ NewFailedResult("stage_lost") \in Result
    BY <1>1, GraphFields, ResultConstructors DEF ReadyStages, Datum
  <2>3. e \in Event /\ e.type = "StageCompleted" /\ e.stage = s
    BY <2>2, EventConstructors, Zenon DEF StageCompleted
  <2>4. persistAndUpdateGraph(e, stack)
    BY <2>1
  <2> HIDE DEF e
  <2>5. Fits(graph, e) /\ e.type \notin LifecycleType \union {"StageAdded"}
    BY <2>2, <2>3 DEF Fits, LifecycleType
  <2>6. Follows(e)
    BY <1>1, <2>3, <2>5, FitsFollows
  <2>7. stack \in Seq(FramesOf(UpdateWithEvent(graph, e)))
    BY <1>1, <1>3, <2>3, <2>5
  <2>8. replayVars' = replayVars /\ inflight' = inflight /\ timers' = timers /\ deactivate' = deactivate
    BY <1>8 DEF RecoverStage, envVars
  <2> QED
    BY <1>1, <2>3, <2>4, <2>5, <2>6, <2>7, <2>8, PersistStep
<1>9. CASE LoopDone \/ CheckDone
  <2>1. stack' = Tail(stack) /\ UNCHANGED << journal, graph, replayVars, envVars >>
    BY <1>9 DEF LoopDone, CheckDone
  <2>2. inflight' = inflight /\ timers' = timers /\ deactivate' = deactivate
    BY <2>1 DEF envVars
  <2> QED
    BY <1>1, <2>1, <2>2, QuietStep
<1>10. CASE OnGraphExecutionFinished \/ OnGraphComplete
  <2>1. PICK e \in {GraphTerminating, GraphCompleted} :
          /\ persistAndUpdateGraph(e, Tail(stack)) /\ ~ Recovering
          /\ e = GraphTerminating => graph.state = "committed"
          /\ e = GraphCompleted => graph.state = "terminating"
          /\ replayVars' = replayVars /\ inflight' = inflight /\ timers' = timers
          /\ deactivate' \in BOOLEAN
    <3>1. CASE OnGraphExecutionFinished
      BY <1>1, <3>1 DEF OnGraphExecutionFinished, ExecutionFinished, envVars, GraphTerminating,
                        GraphCompleted
    <3>2. CASE OnGraphComplete
      BY <3>2 DEF OnGraphComplete, HooksFinished, GraphTerminating, GraphCompleted
    <3> QED
      BY <1>10, <3>1, <3>2
  <2>2. /\ e \in Event /\ e.type \in {"GraphTerminating", "GraphCompleted"}
        /\ e.type = "GraphTerminating" => graph.state = "committed"
        /\ e.type = "GraphCompleted" => graph.state = "terminating"
    BY <2>1, EventConstructors DEF GraphTerminating, GraphCompleted
  <2>3. Fits(graph, e)
    BY <2>2 DEF Fits, LifecycleType
  <2>4. graph.state = StateAfter(Len(journal))
    BY <1>1, <2>1 DEF Inv, GraphMatchesJournal, Applied
  <2>5. Follows(e)
    <3>1. journal # <<>>
      BY <1>1, <2>4 DEF HasGraph, StateAfter, Seen
    <3> QED
      BY <2>2, <2>4, <3>1 DEF Follows, LifecycleType
  <2>6. Tail(stack) \in Seq(FramesOf(UpdateWithEvent(graph, e)))
    BY <1>1, <1>3, <2>2, <2>3
  <2> QED
    BY <1>1, <2>1, <2>2, <2>3, <2>5, <2>6, PersistStep, Zenon
<1>11. CASE PersistReplaying
  BY <1>11, ReplayingKeepsInv
<1> QED
  BY <1>4, <1>5, <1>6, <1>7, <1>8, <1>9, <1>10, <1>11 DEF Step
=============================================================================
