----------------------------- MODULE GraphLemmas -----------------------------
(***************************************************************************)
(* Facts about the operators of StageStrategy and CompletionGraph: a       *)
(* trigger decision carries results, an event keeps a graph well formed,   *)
(* and the calls that follow it are well formed.                           *)
(***************************************************************************)
EXTENDS FlowProperties, SequenceTheorems, WellFoundedInduction, TLAPS

\* A non-empty set of naturals has a least member.
LEMMA LeastNatural ==
  ASSUME NEW I \in SUBSET Nat, I # {}
  PROVE  \E x \in I : \A y \in I : x <= y
<1> DEFINE R == OpToRel(<, Nat)
<1>1. IsWellFoundedOn(R, Nat)
  BY NatLessThanWellFounded
<1>2. \A x, y \in Nat : x < y => << x, y >> \in R
  BY DEF OpToRel
<1> HIDE DEF R
<1>3. PICK x \in I : \A y \in I : ~ (<< y, x >> \in R)
  BY <1>1, WFMin
<1>4. \A y \in I : ~ (y < x)
  BY <1>2, <1>3, Zenon
<1>5. \A y \in I : x <= y
  BY ONLY <1>4, I \in SUBSET Nat, x \in I, SMT
<1> QED
  BY <1>5

\* First yields a member.
LEMMA FirstIsMember ==
  ASSUME NEW I \in SUBSET Nat, I # {}
  PROVE  First(I) \in I
  BY LeastNatural DEF First

\* Last yields a member: a non-empty set of positions of a sequence has a
\* greatest one.
LEMMA LastIsMember ==
  ASSUME NEW n \in Nat, NEW I \in SUBSET (1 .. n), I # {}
  PROVE  Last(I) \in I
<1> DEFINE J == {j \in Nat : n - j \in I}
<1>1. J \in SUBSET Nat /\ J # {}
  <2>1. PICK i \in I : TRUE
    OBVIOUS
  <2>2. n - i \in Nat /\ n - (n - i) = i
    OBVIOUS
  <2> QED
    BY <2>1, <2>2
<1>2. PICK x \in J : \A y \in J : x <= y
  BY <1>1, LeastNatural
<1>3. \A j \in I : n - j \in Nat /\ n - (n - j) \in I
  OBVIOUS
<1>4. n - x \in I /\ \A j \in I : j <= n - x
  BY <1>2, <1>3
<1> QED
  BY <1>4 DEF Last

\* The decision of a trigger strategy carries results of dependencies, and
\* exactly one where an error, or the success of any dependency, is passed on.
LEMMA TriggerInputs ==
  ASSUME NEW op \in Operation, NEW rs \in Seq(Result)
  PROVE  LET t == TriggerStrategy(op, rs)
         IN  /\ t.inputs \in Seq(Result)
             /\ t.satisfied => t.status \in BOOLEAN
             /\ t.satisfied /\ ExecutionStrategy(op, t.status) \in {"propagateResult", "invokeWithResultOrError"}
                  => t.inputs # <<>> /\ t.inputs[1] \in Result
<1>1. /\ Len(rs) \in Nat /\ DOMAIN rs = 1 .. Len(rs)
      /\ \A i \in DOMAIN rs : rs[i] \in Result
  BY LenProperties, ElementOfSeq
<1>2. \A r \in Result : << r >> \in Seq(Result) /\ << r >>[1] = r /\ << r >> # <<>>
  OBVIOUS
<1>3. Failures(rs) # {} => rs[First(Failures(rs))] \in Result /\ rs[Last(Failures(rs))] \in Result
  <2> SUFFICES ASSUME Failures(rs) # {}
               PROVE  First(Failures(rs)) \in DOMAIN rs /\ Last(Failures(rs)) \in DOMAIN rs
    BY <1>1
  <2>1. Failures(rs) \in SUBSET (1 .. Len(rs)) /\ Failures(rs) \in SUBSET Nat
    BY <1>1 DEF Failures
  <2>2. First(Failures(rs)) \in Failures(rs)
    BY <2>1, FirstIsMember
  <2>3. Last(Failures(rs)) \in Failures(rs)
    BY <1>1, <2>1, LastIsMember
  <2> QED
    BY <2>2, <2>3 DEF Failures
<1>4. Successes(rs) # {} => rs[First(Successes(rs))] \in Result
  <2>1. Successes(rs) \subseteq 1 .. Len(rs)
    BY <1>1 DEF Successes
  <2> QED
    BY <1>1, <2>1, FirstIsMember
<1>5. rs # <<>> /\ AllResolved(rs) /\ Successes(rs) = {} => Failures(rs) # {}
  <2> SUFFICES ASSUME rs # <<>>, AllResolved(rs), Successes(rs) = {}
               PROVE  1 \in Failures(rs)
    OBVIOUS
  <2>1. 1 \in DOMAIN rs
    BY <1>1, EmptySeq
  <2> QED
    BY <2>1 DEF AllResolved, Successes, Failures, IsSuccessful, IsFailed
<1>6. /\ waitForAll(rs).inputs \in Seq(Result)
      /\ waitForAll(rs).status \in BOOLEAN
      /\ waitForAll(rs).satisfied /\ ~ waitForAll(rs).status =>
           waitForAll(rs).inputs # <<>> /\ waitForAll(rs).inputs[1] \in Result
  BY <1>2, <1>3 DEF waitForAll, Triggered, NotTriggered
<1>7. /\ triggerAny(rs).inputs \in Seq(Result)
      /\ triggerAny(rs).status \in BOOLEAN
      /\ triggerAny(rs).satisfied => triggerAny(rs).inputs # <<>> /\ triggerAny(rs).inputs[1] \in Result
  BY <1>2, <1>3, <1>4, <1>5 DEF triggerAny, Triggered, NotTriggered
<1>8. getStrategyFromOperation(op).trigger = "all" =>
        /\ getStrategyFromOperation(op).success \notin {"propagateResult", "invokeWithResultOrError"}
        /\ getStrategyFromOperation(op).failure # "invokeWithResultOrError"
  BY DEF getStrategyFromOperation, Strategy
<1>9. NotTriggered.inputs \in Seq(Result) /\ NotTriggered.satisfied = FALSE
  BY DEF NotTriggered
<1> QED
  BY <1>6, <1>7, <1>8, <1>9 DEF TriggerStrategy, ExecutionStrategy

-----------------------------------------------------------------------------
(***************************************************************************)
(* Events applied to a graph.                                              *)
(***************************************************************************)

\* The fields an event has by its type.
LEMMA EventFields ==
  ASSUME NEW e \in Event
  PROVE  /\ e.type \in LifecycleType \union {"StageAdded", "StageCompleted", "InvocationCompleted",
                                             "StageComposed", "DelayScheduled", "InvocationStarted"}
         /\ e.type \notin LifecycleType => e.stage \in Nat
         /\ e.type = "StageAdded" => e.op \in Operation /\ e.deps \in Seq(Nat)
         /\ e.type \in {"StageCompleted", "InvocationCompleted"} => e.result \in Result
         /\ e.type = "StageComposed" => e.inner \in Nat
  BY DEF Event, LifecycleType

\* The constructors yield events.
LEMMA EventConstructors ==
  /\ {GraphCreated, GraphCommitted, GraphTerminating, GraphCompleted} \subseteq Event
  /\ \A s \in Nat, op \in Operation, deps \in Seq(Nat) : StageAdded(s, op, deps) \in Event
  /\ \A s \in Nat, r \in Result : StageCompleted(s, r) \in Event /\ InvocationCompleted(s, r) \in Event
  /\ \A s, t \in Nat : StageComposed(s, t) \in Event
  /\ \A s \in Nat : DelayScheduled(s) \in Event /\ InvocationStarted(s) \in Event
  BY DEF Event, LifecycleType, GraphCreated, GraphCommitted, GraphTerminating, GraphCompleted,
         StageAdded, StageCompleted, InvocationCompleted, StageComposed, DelayScheduled,
         InvocationStarted

\* The results the model builds.
LEMMA ResultConstructors ==
  /\ \A d \in Datum : NewSuccessfulResult(d) \in Result /\ NewFailedResult(d) \in Result
  /\ \A s \in Nat : NewStageRefResult(s) \in Result
  /\ NoResult \in Result
  BY DEF Result, Datum, NewSuccessfulResult, NewFailedResult, NewStageRefResult, NoResult

\* The graph before and after initGraph is well formed.
LEMMA EmptyGraphs ==
  /\ NilGraph \in Graph /\ GraphOK(NilGraph) /\ NilGraph.state = "nil"
  /\ New \in Graph /\ GraphOK(New) /\ New.state = "initial"
  /\ StageIds(NilGraph) = {} /\ StageIds(New) = {} /\ Len(New.stages) = 0
<1>1. /\ NilGraph \in Graph /\ NilGraph.state = "nil" /\ NilGraph.stages = <<>>
      /\ NilGraph.terminationChainHead = 0
  BY ResultConstructors DEF NilGraph, Graph, GraphState, NoStage
<1>2. /\ New \in Graph /\ New.state = "initial" /\ New.stages = <<>>
      /\ New.terminationChainHead = 0
  BY <1>1 DEF New, Graph, GraphState
<1>3. StageIds(NilGraph) = {} /\ StageIds(New) = {} /\ Len(New.stages) = 0 /\ Len(NilGraph.stages) = 0
  BY <1>1, <1>2 DEF StageIds
<1> QED
  BY <1>1, <1>2, <1>3 DEF GraphOK

\* Event e may be applied to graph g: it names stages of g, or the next one.
Fits(g, e) ==
    /\ e.type = "StageAdded" =>
         /\ e.stage = NextStageID(g)
         /\ \A d \in DOMAIN e.deps : e.deps[d] \in StageIds(g)
         /\ e.op = "whenComplete" => e.deps # <<>>
    /\ e.type \notin LifecycleType \union {"StageAdded"} => e.stage \in StageIds(g)
    /\ e.type = "StageComposed" => e.inner \in StageIds(g)

\* The fields of a graph and of its stages.
LEMMA GraphFields ==
  ASSUME NEW g \in Graph
  PROVE  /\ g.stages \in Seq(Stage) /\ g.state \in GraphState /\ g.terminationRoot \in Result
         /\ g.terminationChainHead \in Nat
         /\ Len(g.stages) \in Nat /\ StageIds(g) \subseteq Nat
         /\ \A s \in StageIds(g) :
              /\ g.stages[s] \in Stage
              /\ g.stages[s].op \in Operation /\ g.stages[s].deps \in Seq(Nat)
              /\ g.stages[s].result \in Result /\ g.stages[s].composeReference \in Nat
<1>1. g.stages \in Seq(Stage) /\ g.state \in GraphState /\ g.terminationRoot \in Result
      /\ g.terminationChainHead \in Nat
  BY DEF Graph
<1>2. Len(g.stages) \in Nat /\ \A s \in 1 .. Len(g.stages) : g.stages[s] \in Stage
  BY <1>1, LenProperties, ElementOfSeq
<1> QED
  BY <1>1, <1>2 DEF StageIds, Stage

\* Replacing one stage of a graph by a well-formed one.
LEMMA ReplaceStage ==
  ASSUME NEW g \in Graph, GraphOK(g), NEW s \in StageIds(g), NEW st \in Stage,
         st.op = g.stages[s].op, st.deps = g.stages[s].deps,
         st.composeReference \in 0 .. Len(g.stages)
  PROVE  LET h == [g EXCEPT !.stages = [g.stages EXCEPT ![s] = st]]
         IN  /\ h \in Graph /\ GraphOK(h)
             /\ h.state = g.state /\ Len(h.stages) = Len(g.stages)
             /\ h.stages[s] = st
<1> DEFINE h == [g EXCEPT !.stages = [g.stages EXCEPT ![s] = st]]
<1>1. /\ g.stages \in Seq(Stage) /\ s \in 1 .. Len(g.stages)
  BY GraphFields DEF StageIds
<1>2. /\ [g.stages EXCEPT ![s] = st] \in Seq(Stage)
      /\ Len([g.stages EXCEPT ![s] = st]) = Len(g.stages)
      /\ \A j \in 1 .. Len(g.stages) :
           [g.stages EXCEPT ![s] = st][j] = IF j = s THEN st ELSE g.stages[j]
  BY <1>1, ExceptSeq
<1>3. /\ h \in Graph /\ h.stages = [g.stages EXCEPT ![s] = st]
      /\ h.state = g.state /\ h.terminationChainHead = g.terminationChainHead
  BY <1>2 DEF Graph
<1>4. GraphOK(h)
  BY <1>1, <1>2, <1>3 DEF GraphOK, StageIds
<1> QED
  BY <1>1, <1>2, <1>3, <1>4

\* Appending a stage whose dependencies are within the new graph.
LEMMA AppendStage ==
  ASSUME NEW g \in Graph, GraphOK(g), NEW op \in Operation, NEW deps \in Seq(Nat),
         \A d \in DOMAIN deps : deps[d] \in 0 .. Len(g.stages),
         op \in {"whenComplete", "terminationHook"} => deps # <<>>
  PROVE  LET h == [g EXCEPT !.stages = Append(g.stages, NewStage(op, deps))]
         IN  /\ h \in Graph /\ GraphOK(h)
             /\ h.state = g.state /\ Len(h.stages) = Len(g.stages) + 1
<1> DEFINE st == NewStage(op, deps)
           h == [g EXCEPT !.stages = Append(g.stages, st)]
<1>1. g.stages \in Seq(Stage) /\ Len(g.stages) \in Nat
  BY GraphFields
<1>2. st \in Stage /\ st.op = op /\ st.deps = deps /\ st.composeReference = 0
  BY ResultConstructors DEF NewStage, Stage, NoStage
<1>3. /\ Append(g.stages, st) \in Seq(Stage)
      /\ Len(Append(g.stages, st)) = Len(g.stages) + 1
      /\ \A i \in 1 .. Len(g.stages) : Append(g.stages, st)[i] = g.stages[i]
      /\ Append(g.stages, st)[Len(g.stages) + 1] = st
  BY <1>1, <1>2, AppendProperties
<1>4. /\ h \in Graph /\ h.stages = Append(g.stages, st)
      /\ h.state = g.state /\ h.terminationChainHead = g.terminationChainHead
  BY <1>3 DEF Graph
<1>5. getStrategyFromOperation(op).result = "parentStageResult" =>
        op \in {"whenComplete", "terminationHook"}
  BY DEF getStrategyFromOperation, Strategy, Operation
<1>6. GraphOK(h)
  <2>1. h.terminationChainHead \in 0 .. Len(h.stages)
    BY <1>1, <1>3, <1>4 DEF GraphOK
  <2>2. ASSUME NEW s \in StageIds(h)
        PROVE  /\ h.stages[s].composeReference \in 0 .. Len(h.stages)
               /\ \A d \in DOMAIN h.stages[s].deps : h.stages[s].deps[d] \in 0 .. Len(h.stages)
               /\ getStrategyFromOperation(h.stages[s].op).result = "parentStageResult" =>
                    h.stages[s].deps # <<>>
    <3>1. CASE s = Len(g.stages) + 1
      <4>1. h.stages[s] = st
        BY <3>1, <1>3, <1>4
      <4> HIDE DEF st, h
      <4> QED
        BY <4>1, <1>1, <1>2, <1>3, <1>4, <1>5
    <3>2. CASE s # Len(g.stages) + 1
      <4>1. s \in StageIds(g) /\ h.stages[s] = g.stages[s]
        BY <3>2, <1>1, <1>3, <1>4 DEF StageIds
      <4> HIDE DEF st, h
      <4> QED
        BY <4>1, <1>1, <1>3, <1>4 DEF GraphOK
    <3> QED
      BY <3>1, <3>2
  <2> QED
    BY <2>1, <2>2 DEF GraphOK
<1> QED
  BY <1>3, <1>4, <1>6

\* The state a graph is in after event e.
NextState(g, e) ==
    CASE e.type = "GraphCommitted"   -> "committed"
      [] e.type = "GraphTerminating" -> "terminating"
      [] e.type = "GraphCompleted"   -> "completed"
      [] OTHER                       -> g.state

\* Registering a termination hook keeps a graph well formed.
LEMMA AddHook ==
  ASSUME NEW g \in Graph, GraphOK(g), NEW e \in Event, Fits(g, e),
         e.type = "StageAdded", e.op = "terminationHook"
  PROVE  LET h == handleAddTerminationHook(g, e)
         IN  /\ h \in Graph /\ GraphOK(h)
             /\ h.state = g.state /\ Len(h.stages) = Len(g.stages) + 1
<1> DEFINE head == g.terminationChainHead
           relinked == IF head = NoStage THEN g.stages
                       ELSE [g.stages EXCEPT ![head].deps = << e.stage >>]
           st == NewStage(e.op, << TerminationRoot >>)
           h == [g EXCEPT !.stages = Append(relinked, st), !.terminationChainHead = e.stage]
<1>1. /\ g.stages \in Seq(Stage) /\ Len(g.stages) \in Nat
      /\ e.stage = Len(g.stages) + 1 /\ e.op \in Operation
      /\ head \in 0 .. Len(g.stages)
  BY GraphFields, EventFields DEF Fits, NextStageID, GraphOK
<1>2. /\ relinked \in Seq(Stage) /\ Len(relinked) = Len(g.stages)
      /\ \A j \in 1 .. Len(g.stages) :
           /\ relinked[j].composeReference = g.stages[j].composeReference
           /\ relinked[j].op = g.stages[j].op
           /\ relinked[j].deps \in {g.stages[j].deps, << e.stage >>}
  <2>1. CASE head = NoStage
    BY <2>1, <1>1
  <2>2. CASE head # NoStage
    <3> DEFINE new == [g.stages[head] EXCEPT !.deps = << e.stage >>]
    <3>1. head \in 1 .. Len(g.stages) /\ g.stages[head] \in Stage
      BY <2>2, <1>1, GraphFields DEF NoStage, StageIds
    <3>2. << e.stage >> \in Seq(Nat)
      BY <1>1
    <3>3. /\ new \in Stage /\ new.deps = << e.stage >> /\ new.op = g.stages[head].op
          /\ new.composeReference = g.stages[head].composeReference
      BY <3>1, <3>2 DEF Stage
    <3>4. relinked = [g.stages EXCEPT ![head] = new]
      BY <2>2
    <3> HIDE DEF new, relinked, head
    <3>5. /\ relinked \in Seq(Stage) /\ Len(relinked) = Len(g.stages)
          /\ \A j \in 1 .. Len(g.stages) : relinked[j] = IF j = head THEN new ELSE g.stages[j]
      BY <1>1, <3>1, <3>3, <3>4, ExceptSeq
    <3> QED
      BY <3>3, <3>5
  <2> QED
    BY <2>1, <2>2
<1>3. st \in Stage /\ st.op = "terminationHook" /\ st.deps = << 0 >> /\ st.composeReference = 0
  BY <1>1, ResultConstructors DEF NewStage, Stage, NoStage, TerminationRoot
<1> HIDE DEF relinked, st
<1>4. /\ Append(relinked, st) \in Seq(Stage)
      /\ Len(Append(relinked, st)) = Len(g.stages) + 1
      /\ \A i \in 1 .. Len(g.stages) : Append(relinked, st)[i] = relinked[i]
      /\ Append(relinked, st)[Len(g.stages) + 1] = st
  BY <1>2, <1>3, AppendProperties
<1>5. /\ h \in Graph /\ h.stages = Append(relinked, st)
      /\ h.state = g.state /\ h.terminationChainHead = e.stage
  <2> DEFINE stages == Append(relinked, st)
  <2>1. stages \in Seq(Stage) /\ e.stage \in Nat
    BY <1>1, <1>4
  <2> HIDE DEF stages
  <2>2. /\ [g EXCEPT !.stages = stages, !.terminationChainHead = e.stage] \in Graph
        /\ [g EXCEPT !.stages = stages, !.terminationChainHead = e.stage].stages = stages
        /\ [g EXCEPT !.stages = stages, !.terminationChainHead = e.stage].state = g.state
        /\ [g EXCEPT !.stages = stages, !.terminationChainHead = e.stage].terminationChainHead = e.stage
    BY <2>1 DEF Graph
  <2> QED
    BY <2>2 DEF stages
<1>6. h = handleAddTerminationHook(g, e)
  BY DEF handleAddTerminationHook, relinked, st
<1>7. GraphOK(h)
  <2>1. h.terminationChainHead \in 0 .. Len(h.stages)
    BY <1>1, <1>4, <1>5
  <2>2. ASSUME NEW s \in StageIds(h)
        PROVE  /\ h.stages[s].composeReference \in 0 .. Len(h.stages)
               /\ \A d \in DOMAIN h.stages[s].deps : h.stages[s].deps[d] \in 0 .. Len(h.stages)
               /\ getStrategyFromOperation(h.stages[s].op).result = "parentStageResult" =>
                    h.stages[s].deps # <<>>
    <3>1. CASE s = Len(g.stages) + 1
      <4>1. h.stages[s] = st
        BY <3>1, <1>4, <1>5
      <4> HIDE DEF h
      <4> QED
        BY <4>1, <1>1, <1>3, <1>4, <1>5
    <3>2. CASE s # Len(g.stages) + 1
      <4>1. s \in StageIds(g) /\ h.stages[s] = relinked[s]
        BY <3>2, <1>1, <1>4, <1>5 DEF StageIds
      <4> HIDE DEF h
      <4>2. CASE h.stages[s].deps = g.stages[s].deps
        BY <4>1, <4>2, <1>1, <1>2, <1>4, <1>5 DEF GraphOK, StageIds
      <4>3. CASE h.stages[s].deps = << e.stage >>
        BY <4>1, <4>3, <1>1, <1>2, <1>4, <1>5 DEF GraphOK, StageIds
      <4> QED
        BY <4>1, <4>2, <4>3, <1>2 DEF StageIds
    <3> QED
      BY <3>1, <3>2
  <2> QED
    BY <2>1, <2>2 DEF GraphOK
<1> QED
  BY <1>4, <1>5, <1>6, <1>7

\* Applying an event that fits keeps a graph well formed, adds a stage exactly
\* for StageAdded, and moves the state as NextState says.
LEMMA UpdateOK ==
  ASSUME NEW g \in Graph, GraphOK(g), NEW e \in Event, Fits(g, e)
  PROVE  LET h == UpdateWithEvent(g, e)
         IN  /\ h \in Graph /\ GraphOK(h)
             /\ h.state = NextState(g, e)
             /\ Len(h.stages) = Len(g.stages) + (IF e.type = "StageAdded" THEN 1 ELSE 0)
<1> DEFINE h == UpdateWithEvent(g, e)
           added == IF e.type = "StageAdded" THEN 1 ELSE 0
<1> SUFFICES /\ h \in Graph /\ GraphOK(h)
             /\ h.state = NextState(g, e)
             /\ Len(h.stages) = Len(g.stages) + added
  OBVIOUS
<1>a. /\ Len(g.stages) \in Nat /\ Len(g.stages) + 0 = Len(g.stages)
      /\ e.type # "StageAdded" => added = 0
      /\ e.type = "StageAdded" => added = 1
  BY GraphFields
<1> HIDE DEF added, h
<1>1. CASE e.type \in {"GraphCommitted", "GraphCompleted"}
  <2>1. ASSUME NEW state \in GraphState
        PROVE  LET k == [g EXCEPT !.state = state]
               IN  k \in Graph /\ GraphOK(k) /\ k.state = state /\ k.stages = g.stages
    BY DEF Graph, GraphOK, StageIds
  <2>2. NextState(g, e) \in GraphState /\ h = [g EXCEPT !.state = NextState(g, e)]
    BY <1>1 DEF h, UpdateWithEvent, NextState, GraphState
  <2>3. h \in Graph /\ GraphOK(h) /\ h.state = NextState(g, e) /\ h.stages = g.stages
    BY <2>1, <2>2
  <2> QED
    BY <1>1, <1>a, <2>3
<1>2. CASE e.type = "GraphTerminating"
  <2>1. NewSuccessfulResult("status") \in Result
    BY ResultConstructors DEF Datum
  <2>2. LET k == handleTerminating(g)
        IN  k \in Graph /\ GraphOK(k) /\ k.state = "terminating" /\ k.stages = g.stages
    BY <2>1 DEF handleTerminating, Graph, GraphOK, StageIds, GraphState
  <2>3. h = handleTerminating(g) /\ NextState(g, e) = "terminating"
    BY <1>2 DEF h, UpdateWithEvent, NextState
  <2> QED
    BY <1>2, <1>a, <2>2, <2>3
<1>3. CASE e.type = "StageAdded" /\ e.op = "terminationHook"
  <2>1. h = handleAddTerminationHook(g, e) /\ NextState(g, e) = g.state
    BY <1>3 DEF h, UpdateWithEvent, NextState
  <2> QED
    BY <1>3, <1>a, <2>1, AddHook
<1>4. CASE e.type = "StageAdded" /\ e.op # "terminationHook"
  <2>1. \A d \in DOMAIN e.deps : e.deps[d] \in 0 .. Len(g.stages)
    BY <1>4 DEF Fits, StageIds
  <2>2. h = [g EXCEPT !.stages = Append(g.stages, NewStage(e.op, e.deps))]
    BY <1>4 DEF h, UpdateWithEvent, handleStageAdded
  <2>3. e.op \in {"whenComplete", "terminationHook"} => e.deps # <<>>
    BY <1>4 DEF Fits
  <2>4. NextState(g, e) = g.state
    BY <1>4 DEF NextState
  <2>5. e.op \in Operation /\ e.deps \in Seq(Nat)
    BY <1>4, EventFields
  <2> QED
    BY <1>4, <1>a, <2>1, <2>2, <2>3, <2>4, <2>5, AppendStage, ZenonT(30)
<1>5. CASE e.type = "StageCompleted"
  <2> DEFINE st == complete(g.stages[e.stage], e.result)
  <2>1. e.stage \in StageIds(g) /\ e.result \in Result
    BY <1>5, EventFields DEF Fits, LifecycleType
  <2>2. /\ st \in Stage /\ st.op = g.stages[e.stage].op /\ st.deps = g.stages[e.stage].deps
        /\ st.composeReference = g.stages[e.stage].composeReference
    BY <2>1, GraphFields DEF complete, Stage
  <2>3. st.composeReference \in 0 .. Len(g.stages)
    BY <2>1, <2>2 DEF GraphOK
  <2>4. h = [g EXCEPT !.stages = [g.stages EXCEPT ![e.stage] = st]]
    BY <1>5 DEF h, UpdateWithEvent, handleStageCompleted
  <2>5. NextState(g, e) = g.state
    BY <1>5 DEF NextState
  <2> HIDE DEF st
  <2> QED
    BY <1>5, <1>a, <2>1, <2>2, <2>3, <2>4, <2>5, ReplaceStage
<1>6. CASE e.type = "StageComposed"
  <2> DEFINE st == [g.stages[e.inner] EXCEPT !.composeReference = e.stage]
  <2>1. e.stage \in StageIds(g) /\ e.inner \in StageIds(g)
    BY <1>6 DEF Fits, LifecycleType
  <2>2. /\ st \in Stage /\ st.op = g.stages[e.inner].op /\ st.deps = g.stages[e.inner].deps
        /\ st.composeReference = e.stage
    BY <2>1, GraphFields DEF Stage
  <2>3. st.composeReference \in 0 .. Len(g.stages)
    BY <2>1, <2>2 DEF StageIds
  <2>4. h = [g EXCEPT !.stages = [g.stages EXCEPT ![e.inner] = st]]
    BY <1>6 DEF h, UpdateWithEvent, handleStageComposed
  <2>5. NextState(g, e) = g.state
    BY <1>6 DEF NextState
  <2> HIDE DEF st
  <2> QED
    BY <1>6, <1>a, <2>1, <2>2, <2>3, <2>4, <2>5, ReplaceStage
<1>7. CASE e.type \in {"GraphCreated", "InvocationCompleted", "DelayScheduled", "InvocationStarted"}
  <2>1. h = g /\ NextState(g, e) = g.state
    BY <1>7 DEF h, UpdateWithEvent, NextState
  <2> QED
    BY <1>7, <1>a, <2>1
<1> QED
  BY <1>1, <1>2, <1>3, <1>4, <1>5, <1>6, <1>7, EventFields DEF LifecycleType

\* No event removes a stage.
LEMMA StagesKept ==
  ASSUME NEW g \in Graph, GraphOK(g), NEW e \in Event, Fits(g, e)
  PROVE  StageIds(g) \subseteq StageIds(UpdateWithEvent(g, e))
<1> DEFINE h == UpdateWithEvent(g, e)
<1>1. Len(h.stages) = Len(g.stages) + (IF e.type = "StageAdded" THEN 1 ELSE 0)
  BY UpdateOK
<1>2. Len(g.stages) \in Nat
  BY GraphFields
<1> HIDE DEF h
<1>3. \E k \in {0, 1} : Len(h.stages) = Len(g.stages) + k
  BY <1>1
<1>4. 1 .. Len(g.stages) \subseteq 1 .. Len(h.stages)
  BY ONLY <1>2, <1>3
<1> QED
  BY <1>4 DEF StageIds, h

-----------------------------------------------------------------------------
(***************************************************************************)
(* The calls that follow an event.                                         *)
(***************************************************************************)
FramesOf(g) == {f \in Frame : FrameOK(g, f)}

\* Frames that persist a completion or a composition of known stages.
LEMMA FrameConstructors ==
  ASSUME NEW g \in Graph
  PROVE  /\ {Trigger, Check, RecoverLost} \subseteq FramesOf(g)
         /\ \A s \in StageIds(g), r \in Result : Persist(StageCompleted(s, r)) \in FramesOf(g)
         /\ \A s, t \in StageIds(g) : Persist(StageComposed(s, t)) \in FramesOf(g)
         /\ \A s \in StageIds(g) : /\ Persist(DelayScheduled(s)) \in FramesOf(g)
                                   /\ Persist(InvocationStarted(s)) \in FramesOf(g)
<1>1. {Trigger, Check, RecoverLost} \subseteq FramesOf(g)
  BY DEF FramesOf, Frame, FrameOK, Trigger, Check, RecoverLost
<1>2. ASSUME NEW s \in StageIds(g), NEW r \in Result
      PROVE  Persist(StageCompleted(s, r)) \in FramesOf(g)
  <2>1. StageCompleted(s, r) \in Event
    BY GraphFields, EventConstructors
  <2> QED
    BY <2>1 DEF FramesOf, Frame, FrameOK, Persist, StageCompleted
<1>3. ASSUME NEW s \in StageIds(g), NEW t \in StageIds(g)
      PROVE  Persist(StageComposed(s, t)) \in FramesOf(g)
  <2>1. StageComposed(s, t) \in Event
    BY GraphFields, EventConstructors
  <2> QED
    BY <2>1 DEF FramesOf, Frame, FrameOK, Persist, StageComposed
<1>4. ASSUME NEW s \in StageIds(g)
      PROVE  Persist(DelayScheduled(s)) \in FramesOf(g) /\ Persist(InvocationStarted(s)) \in FramesOf(g)
  <2>1. DelayScheduled(s) \in Event /\ InvocationStarted(s) \in Event
    BY GraphFields, EventConstructors
  <2> QED
    BY <2>1 DEF FramesOf, Frame, FrameOK, Persist, DelayScheduled, InvocationStarted
<1> QED
  BY <1>1, <1>2, <1>3, <1>4

\* The result of a dependency is a result.
LEMMA DependencyResultOK ==
  ASSUME NEW g \in Graph, NEW d \in 0 .. Len(g.stages)
  PROVE  DependencyResult(g, d) \in Result
  BY GraphFields DEF DependencyResult, TerminationRoot, StageIds

\* The calls made for a stage of the graph are calls about stages of the graph.
LEMMA CallsOK ==
  ASSUME NEW g \in Graph, GraphOK(g), NEW e \in Event, NEW mayTrigger \in BOOLEAN,
         e.type \in {"StageCompleted", "StageComposed", "InvocationCompleted"} => e.stage \in StageIds(g),
         e.type = "StageComposed" => e.inner \in StageIds(g)
  PROVE  CallsAfter(g, e, mayTrigger) \in Seq(FramesOf(g))
<1> DEFINE S == FramesOf(g)
           trigger == IF mayTrigger THEN << Trigger >> ELSE <<>>
<1>1. trigger \in Seq(S) /\ << Check >> \in Seq(S) /\ <<>> \in Seq(S)
  BY FrameConstructors
<1>2. ASSUME NEW outer \in StageIds(g), NEW inner \in StageIds(g)
      PROVE  tryCompleteComposedStage(g, outer, inner) \in Seq(S)
  BY GraphFields, FrameConstructors DEF tryCompleteComposedStage
<1>3. CASE e.type \in {"GraphCommitted", "StageAdded"}
  BY <1>1, <1>3 DEF CallsAfter
<1>4. CASE e.type = "GraphTerminating"
  <2> HIDE DEF S
  <2>1. trigger \o << Check >> \in Seq(S)
    BY <1>1, ConcatProperties
  <2> QED
    BY <2>1, <1>4 DEF CallsAfter, S
<1>5. CASE e.type = "StageCompleted"
  <2>1. CompleteComposing(g, e.stage) \in Seq(S)
    <3>1. g.stages[e.stage].composeReference \in 0 .. Len(g.stages)
      BY <1>5 DEF GraphOK
    <3>2. g.stages[e.stage].composeReference # NoStage => g.stages[e.stage].composeReference \in StageIds(g)
      BY <3>1, GraphFields DEF NoStage, StageIds
    <3> QED
      BY <1>1, <1>2, <1>5, <3>2 DEF CompleteComposing
  <2> HIDE DEF S
  <2>2. CompleteComposing(g, e.stage) \o trigger \o << Check >> \in Seq(S)
    BY <1>1, <2>1, ConcatProperties
  <2> QED
    BY <2>2, <1>5 DEF CallsAfter, S
<1>6. CASE e.type = "StageComposed"
  BY <1>2, <1>6 DEF CallsAfter
<1>7. CASE e.type = "InvocationCompleted"
  <2> DEFINE r == e.result
             s == e.stage
  <2>1. r \in Result /\ s \in StageIds(g)
    BY <1>7, EventFields
  <2>2. Persist(StageCompleted(s, r)) \in S
    BY <2>1, FrameConstructors
  <2>3. Persist(referencedStageResult(g, s, r)) \in S
    <3>1. NewFailedResult("invalid_stage_response") \in Result
      BY ResultConstructors DEF Datum
    <3> QED
      BY <2>1, <3>1, FrameConstructors DEF referencedStageResult
  <2>4. getStrategyFromOperation(g.stages[s].op).result = "parentStageResult" =>
          Persist(StageCompleted(s, DependencyResult(g, g.stages[s].deps[1]))) \in S
    <3> SUFFICES ASSUME getStrategyFromOperation(g.stages[s].op).result = "parentStageResult"
                 PROVE  DependencyResult(g, g.stages[s].deps[1]) \in Result
      BY <2>1, FrameConstructors
    <3>1. g.stages[s].deps # <<>> /\ g.stages[s].deps \in Seq(Nat)
      BY <2>1, GraphFields DEF GraphOK
    <3>2. 1 \in DOMAIN g.stages[s].deps
      BY <3>1, EmptySeq, LenProperties
    <3>3. g.stages[s].deps[1] \in 0 .. Len(g.stages)
      BY <2>1, <3>2 DEF GraphOK
    <3> QED
      BY <3>3, DependencyResultOK
  <2> HIDE DEF S, r, s
  <2>5. handleResult(g, s, r) \in Seq(S)
    BY <1>1, <2>2, <2>3, <2>4 DEF handleResult
  <2> QED
    BY <1>1, <1>7, <2>5 DEF CallsAfter, S, r, s
<1>8. CASE e.type \in {"GraphCreated", "GraphCompleted", "DelayScheduled", "InvocationStarted"}
  BY <1>1, <1>8 DEF CallsAfter
<1> QED
  BY <1>3, <1>4, <1>5, <1>6, <1>7, <1>8, EventFields DEF LifecycleType
=============================================================================
