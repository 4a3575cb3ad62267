---------------------------- MODULE CommandProofs ---------------------------
(***************************************************************************)
(* The shapes of step that keep Inv (an event recorded at the end of the   *)
(* journal, nothing recorded), and the commands, answers and timers of an  *)
(* actor that is up, which have these shapes.                              *)
(***************************************************************************)
EXTENDS JournalLemmas

-----------------------------------------------------------------------------
(***************************************************************************)
(* The call stack.                                                         *)
(***************************************************************************)

\* Frames about stages of a graph are about stages of a larger graph.
LEMMA FramesMonotone ==
  ASSUME NEW g, NEW h, StageIds(g) \subseteq StageIds(h)
  PROVE  FramesOf(g) \subseteq FramesOf(h)
  BY DEF FramesOf, FrameOK

\* The two ways to say that a stack is well formed.
LEMMA StackFrames ==
  ASSUME NEW g, NEW st
  PROVE  st \in Seq(FramesOf(g)) <=> st \in Seq(Frame) /\ \A k \in DOMAIN st : FrameOK(g, st[k])
<1>1. ASSUME st \in Seq(FramesOf(g))
      PROVE  st \in Seq(Frame) /\ \A k \in DOMAIN st : FrameOK(g, st[k])
  <2>1. FramesOf(g) \subseteq Frame
    BY DEF FramesOf
  <2>2. st \in Seq(Frame)
    BY <1>1, <2>1, SeqMonotonic
  <2>3. \A k \in DOMAIN st : st[k] \in FramesOf(g)
    BY <1>1, ElementOfSeq, LenProperties
  <2> QED
    BY <2>2, <2>3 DEF FramesOf
<1>2. ASSUME st \in Seq(Frame), \A k \in DOMAIN st : FrameOK(g, st[k])
      PROVE  st \in Seq(FramesOf(g))
  <2>1. DOMAIN st = 1 .. Len(st) /\ Len(st) \in Nat /\ \A k \in DOMAIN st : st[k] \in Frame
    BY <1>2, LenProperties, ElementOfSeq
  <2>2. \A k \in 1 .. Len(st) : st[k] \in FramesOf(g)
    BY <1>2, <2>1 DEF FramesOf
  <2> HIDE DEF FramesOf
  <2>3. st \in Seq(FramesOf(g))
    BY <1>2, <2>1, <2>2
  <2> QED
    BY <2>3
<1> QED
  BY <1>1, <1>2

-----------------------------------------------------------------------------
(***************************************************************************)
(* Two kinds of steps keep Inv: those that append an event that fits, and  *)
(* those that leave the journal alone.                                     *)
(***************************************************************************)

\* Stage identifiers in the journal are naturals.
LEMMA AddedNat ==
  ASSUME journal \in Seq(Event), NEW i
  PROVE  AddedBefore(i) \subseteq Nat
<1>1. \A k \in Positions("StageAdded") : journal[k] \in Event /\ journal[k].type = "StageAdded"
  BY LenProperties, ElementOfSeq DEF Positions
<1>2. \A k \in Positions("StageAdded") : journal[k].stage \in Nat
  BY <1>1, EventFields DEF LifecycleType
<1> QED
  BY <1>2 DEF AddedBefore

\* The events that fit the graph of an actor may follow its journal.
LEMMA FitsFollows ==
  ASSUME Inv, actor # "down", HasGraph, NEW e \in Event, Fits(graph, e),
         e.type \notin LifecycleType,
         e.type = "StageAdded" => ~ Recovering /\ canModifyGraph(graph)
  PROVE  Follows(e)
<1>1. /\ journal \in Seq(Event) /\ Len(journal) \in Nat /\ DOMAIN journal = 1 .. Len(journal)
      /\ graph \in Graph /\ cursor \in Nat /\ replayEnd \in Nat
  BY LenProperties DEF Inv, TypeOK
<1>2. Applied \in Int /\ Applied <= Len(journal)
  BY <1>1 DEF Inv, GraphMatchesJournal, Applied
<1>3. StageIds(graph) \subseteq AddedBefore(Len(journal) + 1)
  <2>1. AddedBefore(Applied + 1) \subseteq AddedBefore(Len(journal) + 1)
    BY <1>1, <1>2, AddedMonotone
  <2> QED
    BY <2>1 DEF Inv, GraphMatchesJournal
<1>4. journal # <<>>
  <2>1. StateAfter(Applied) # "nil"
    BY DEF Inv, GraphMatchesJournal, HasGraph
  <2>2. DOMAIN journal # {}
    BY <2>1 DEF StateAfter, Seen
  <2> QED
    BY <2>2
<1>5. CASE e.type = "StageAdded"
  <2>1. Applied = Len(journal) /\ StageIds(graph) = AddedBefore(Len(journal) + 1)
    BY <1>5 DEF Inv, GraphMatchesJournal, Applied
  <2>2. StateAfter(Len(journal)) \in {"initial", "committed"}
    BY <1>5, <2>1 DEF Inv, GraphMatchesJournal, canModifyGraph
  <2>3. e.stage = Len(graph.stages) + 1 /\ Len(graph.stages) \in Nat
    BY <1>1, <1>5, GraphFields DEF Fits, NextStageID
  <2>4. AddedBefore(Len(journal) + 1) = 1 .. e.stage - 1 /\ e.stage > 0
    BY <2>1, <2>3 DEF StageIds
  <2> QED
    BY <1>4, <1>5, <2>1, <2>2, <2>4 DEF Follows, Fits
<1>6. CASE e.type # "StageAdded"
  BY <1>3, <1>4, <1>6 DEF Follows, Fits, LifecycleType
<1> QED
  BY <1>5, <1>6

\* A step of a live actor that appends an event and updates the graph with it.
LEMMA RecordStep ==
  ASSUME Inv, actor # "down", NEW e \in Event, Follows(e),
         Recovering => e.type \notin LifecycleType \union {"StageAdded"},
         journal' = Append(journal, e),
         graph' \in Graph, GraphOK(graph'), graph'.state # "nil",
         graph'.state = IF e.type = "GraphCreated" THEN "initial" ELSE NextState(graph, e),
         Len(graph'.stages) = Len(graph.stages) + (IF e.type = "StageAdded" THEN 1 ELSE 0),
         stack' \in Seq(FramesOf(graph')),
         replayVars' = replayVars,
         inflight' \subseteq Call,
         \A i \in inflight' : i.stage \in AddedBefore(Len(journal) + 1),
         timers' \subseteq AddedBefore(Len(journal) + 1),
         deactivate' \in BOOLEAN
  PROVE  Inv'
<1>0. PICK n \in Nat : n = Len(journal)
  BY LenProperties DEF Inv, TypeOK
<1>1. /\ journal \in Seq(Event) /\ graph \in Graph /\ actor \in {"replaying", "up"}
      /\ cursor \in Nat \ {0} /\ replayEnd \in Nat /\ spawns \in Nat
  BY DEF Inv, TypeOK
<1>2. /\ actor' = actor /\ cursor' = cursor /\ replayEnd' = replayEnd /\ spawns' = spawns
  BY DEF replayVars
<1>3. /\ journal' \in Seq(Event) /\ Len(journal') = n + 1 /\ DOMAIN journal' = 1 .. n + 1
      /\ \A i \in 1 .. n : journal'[i] = journal[i]
      /\ journal'[n + 1] = e
  BY <1>0, <1>1, JournalAppend
<1>4. /\ \A i \in 0 .. n + 1 : AddedBefore(i)' = AddedBefore(i)
      /\ AddedBefore(n + 2)' = AddedBefore(n + 1) \union (IF e.type = "StageAdded" THEN {e.stage} ELSE {})
  BY <1>0, <1>1, AddedAfterAppend, Zenon
<1>5. /\ \A i \in 0 .. n : StateAfter(i)' = StateAfter(i)
      /\ StateAfter(n + 1)' = EventState(e)
  BY <1>0, <1>1, StateAfterAppend
<1>6. TypeOK'
  <2>1. timers' \subseteq Nat
    BY <1>1, AddedNat
  <2>2. stack' \in Seq(Frame)
    BY StackFrames
  <2> QED
    BY <1>1, <1>2, <1>3, <2>1, <2>2 DEF TypeOK
<1>7. OneLife'
  BY <1>1, AppendKeepsOneLife DEF Inv
<1>8. (\A i \in DOMAIN journal : EventOK(i))'
  BY <1>1, AppendKeepsEvents DEF Inv, GraphMatchesJournal
<1>9. (\A k \in DOMAIN stack : FrameOK(graph, stack[k]))'
  BY StackFrames
<1>10. AddedBefore(n + 1) \subseteq AddedBefore(Len(journal) + 1)'
  <2>1. AddedBefore(Len(journal) + 1)' = AddedBefore(n + 2)'
    BY <1>3
  <2> QED
    BY <1>4, <2>1
<1>11. (\A i \in inflight : i.stage \in AddedBefore(Len(journal) + 1))'
       /\ (timers \subseteq AddedBefore(Len(journal) + 1))'
  BY <1>0, <1>10
<1>12. CASE actor = "up"
  <2>1. Applied = n /\ Applied' = n + 1
    BY <1>0, <1>2, <1>3, <1>12 DEF Applied, Recovering
  <2>2. graph'.state = StateAfter(n + 1)'
    <3>1. graph.state = StateAfter(Len(journal))
      BY <1>0, <1>12, <2>1 DEF Inv, GraphMatchesJournal
    <3> QED
      BY <1>5, <3>1, EventFields DEF EventState, NextState
  <2>3. StageIds(graph') = AddedBefore(n + 2)'
    <3>1. StageIds(graph) = AddedBefore(n + 1)
      BY <1>12, <2>1 DEF Inv, GraphMatchesJournal
    <3>2. Len(graph.stages) \in Nat
      BY <1>1, GraphFields
    <3>3. CASE e.type = "StageAdded"
      <4>1. AddedBefore(n + 1) = 1 .. e.stage - 1 /\ e.stage > 0 /\ e.stage \in Nat
        BY <1>0, <3>3, EventFields, Zenon DEF Follows, LifecycleType
      <4>2. e.stage - 1 = Len(graph.stages)
        BY <3>1, <3>2, <4>1 DEF StageIds
      <4>3. StageIds(graph') = 1 .. e.stage
        <5>1. Len(graph'.stages) = Len(graph.stages) + 1
          BY <3>3
        <5>2. Len(graph'.stages) = e.stage
          <6>1. e.stage \in Nat /\ Len(graph.stages) + 1 = e.stage
            BY ONLY <3>2, <4>1, <4>2
          <6> QED
            BY ONLY <5>1, <6>1
        <5> QED
          BY <5>2, Zenon DEF StageIds
      <4>4. AddedBefore(n + 2)' = AddedBefore(n + 1) \union {e.stage}
        BY <1>4, <3>3
      <4>5. \A k \in Nat : k > 0 => 1 .. k = (1 .. k - 1) \union {k}
        OBVIOUS
      <4> QED
        BY <4>1, <4>3, <4>4, <4>5, Zenon
    <3>4. CASE e.type # "StageAdded"
      <4>1. Len(graph'.stages) = Len(graph.stages)
        BY <3>2, <3>4
      <4>2. AddedBefore(n + 2)' = AddedBefore(n + 1)
        BY <1>4, <3>4, Zenon
      <4> QED
        BY <3>1, <4>1, <4>2, Zenon DEF StageIds
    <3> QED
      BY <3>3, <3>4
  <2>4. StateAfter(Applied)' = StateAfter(n + 1)' /\ AddedBefore(Applied + 1)' = AddedBefore(n + 2)'
    BY <2>1
  <2> QED
    BY <1>2, <1>6, <1>7, <1>8, <1>9, <1>11, <1>12, <2>2, <2>3, <2>4
    DEF Inv, GraphMatchesJournal, Recovering, HasGraph
<1>13. CASE actor = "replaying"
  <2>1. /\ cursor <= replayEnd + 1 /\ replayEnd <= n
        /\ \A i \in replayEnd + 1 .. n : journal[i].type \notin LifecycleType \union {"StageAdded"}
        /\ e.type \notin LifecycleType \union {"StageAdded"}
    BY <1>0, <1>13 DEF Inv, GraphMatchesJournal, Recovering
  <2>2. Applied = cursor - 1 /\ Applied' = cursor - 1
    BY <1>2, <1>13 DEF Applied, Recovering
  <2>3. graph'.state = graph.state /\ StageIds(graph') = StageIds(graph)
    <3>1. NextState(graph, e) = graph.state /\ e.type # "GraphCreated" /\ e.type # "StageAdded"
      BY <2>1 DEF NextState, LifecycleType
    <3>2. Len(graph.stages) \in Nat
      BY <1>1, GraphFields
    <3>3. Len(graph'.stages) = Len(graph.stages)
      BY <3>1, <3>2
    <3> QED
      BY <3>1, <3>3 DEF StageIds
  <2>4. PICK c \in Nat : c = cursor
    BY <1>1
  <2>5. StateAfter(c - 1)' = StateAfter(c - 1) /\ AddedBefore(c)' = AddedBefore(c)
    <3>1. c - 1 \in 0 .. n /\ c \in 0 .. n + 1
      BY <1>1, <2>1, <2>4
    <3> QED
      BY <1>4, <1>5, <3>1
  <2>6. /\ StateAfter(Applied)' = StateAfter(c - 1)' /\ StateAfter(Applied) = StateAfter(c - 1)
        /\ AddedBefore(Applied + 1)' = AddedBefore(c)' /\ AddedBefore(Applied + 1) = AddedBefore(c)
    BY <2>2, <2>4
  <2>7. graph'.state = StateAfter(Applied)' /\ StageIds(graph') = AddedBefore(Applied + 1)'
    BY <1>13, <2>3, <2>5, <2>6 DEF Inv, GraphMatchesJournal
  <2>8. \A i \in replayEnd + 1 .. n + 1 : journal'[i].type \notin LifecycleType \union {"StageAdded"}
    BY <1>1, <1>3, <2>1
  <2>9. (Recovering => /\ cursor <= replayEnd + 1 /\ replayEnd <= Len(journal)
                       /\ \A i \in replayEnd + 1 .. Len(journal) :
                            journal[i].type \notin LifecycleType \union {"StageAdded"})'
    BY <1>1, <1>2, <1>3, <2>1, <2>8
  <2> QED
    BY <1>2, <1>6, <1>7, <1>8, <1>9, <1>11, <1>13, <2>7, <2>9, Zenon
    DEF Inv, GraphMatchesJournal, HasGraph
<1> QED
  BY <1>1, <1>12, <1>13

\* What is said of the journal alone stays true while it does not change.
LEMMA JournalSame ==
  ASSUME journal' = journal
  PROVE  /\ \A i : AddedBefore(i)' = AddedBefore(i)
         /\ \A n : StateAfter(n)' = StateAfter(n)
         /\ OneLife => OneLife'
         /\ (\A i \in DOMAIN journal : EventOK(i)) => (\A i \in DOMAIN journal : EventOK(i))'
<1>1. \A i : AddedBefore(i)' = AddedBefore(i)
  BY DEF AddedBefore, Positions
<1>2. \A n : StateAfter(n)' = StateAfter(n)
  BY DEF StateAfter, Seen
<1>3. OneLife => OneLife'
  BY DEF OneLife, Before, Positions
<1>4. ASSUME \A i \in DOMAIN journal : EventOK(i)
      PROVE  (\A i \in DOMAIN journal : EventOK(i))'
  BY <1>1, <1>4 DEF EventOK
<1> QED
  BY <1>1, <1>2, <1>3, <1>4

\* A step of a live actor that leaves the journal alone.
LEMMA QuietStep ==
  ASSUME Inv, actor # "down",
         journal' = journal, replayVars' = replayVars,
         graph' \in Graph, GraphOK(graph'), graph'.state = graph.state,
         Len(graph'.stages) = Len(graph.stages),
         stack' \in Seq(FramesOf(graph')), HasGraph,
         inflight' \subseteq inflight, timers' \subseteq timers, deactivate' \in BOOLEAN
  PROVE  Inv'
<1>1. /\ actor' = actor /\ cursor' = cursor /\ replayEnd' = replayEnd /\ spawns' = spawns
  BY DEF replayVars
<1>2. TypeOK'
  <2>1. stack' \in Seq(Frame)
    BY StackFrames
  <2> QED
    BY <1>1, <2>1 DEF Inv, TypeOK
<1>3. OneLife' /\ (\A i \in DOMAIN journal : EventOK(i))'
  BY JournalSame DEF Inv, GraphMatchesJournal
<1>4. (\A k \in DOMAIN stack : FrameOK(graph, stack[k]))'
  BY StackFrames
<1>5. /\ (\A i \in inflight : i.stage \in AddedBefore(Len(journal) + 1))'
      /\ (timers \subseteq AddedBefore(Len(journal) + 1))'
  BY JournalSame DEF Inv, GraphMatchesJournal
<1>6. Applied' = Applied
  BY <1>1 DEF Applied, Recovering
<1>7. graph'.state = StateAfter(Applied)' /\ StageIds(graph') = AddedBefore(Applied + 1)'
  <2>1. graph.state = StateAfter(Applied) /\ StageIds(graph) = AddedBefore(Applied + 1)
    BY DEF Inv, GraphMatchesJournal
  <2>2. StateAfter(Applied)' = StateAfter(Applied) /\ AddedBefore(Applied + 1)' = AddedBefore(Applied + 1)
    BY <1>6 DEF StateAfter, Seen, AddedBefore, Positions
  <2> QED
    BY <2>1, <2>2 DEF StageIds
<1>8. (Recovering => /\ cursor <= replayEnd + 1 /\ replayEnd <= Len(journal)
                     /\ \A i \in replayEnd + 1 .. Len(journal) :
                          journal[i].type \notin LifecycleType \union {"StageAdded"})'
  BY <1>1 DEF Inv, GraphMatchesJournal, Recovering
<1> QED
  BY <1>1, <1>2, <1>3, <1>4, <1>5, <1>7, <1>8, SMTT(30) DEF Inv, GraphMatchesJournal, HasGraph

\* persistAndUpdateGraph with an event that fits.
LEMMA PersistStep ==
  ASSUME Inv, actor # "down", HasGraph, NEW e \in Event, Fits(graph, e), Follows(e),
         Recovering => e.type \notin LifecycleType \union {"StageAdded"},
         NEW rest \in Seq(FramesOf(UpdateWithEvent(graph, e))),
         persistAndUpdateGraph(e, rest),
         replayVars' = replayVars,
         inflight' \subseteq inflight, timers' \subseteq timers, deactivate' \in BOOLEAN
  PROVE  Inv'
<1> DEFINE h == UpdateWithEvent(graph, e)
<1>1. graph \in Graph /\ GraphOK(graph) /\ Len(graph.stages) \in Nat
  BY GraphFields DEF Inv, TypeOK, GraphMatchesJournal
<1>2. /\ h \in Graph /\ GraphOK(h) /\ h.state = NextState(graph, e)
      /\ Len(h.stages) = Len(graph.stages) + (IF e.type = "StageAdded" THEN 1 ELSE 0)
  BY <1>1, UpdateOK, Zenon
<1> HIDE DEF h
<1>3. StageIds(graph) \subseteq StageIds(h)
  BY <1>1, StagesKept DEF h
<1>4. CallsAfter(h, e, ~ Recovering) \in Seq(FramesOf(h))
  <2>1. e.type \in {"StageCompleted", "StageComposed", "InvocationCompleted"} => e.stage \in StageIds(h)
    BY <1>3 DEF Fits, LifecycleType
  <2>2. e.type = "StageComposed" => e.inner \in StageIds(h)
    BY <1>3 DEF Fits
  <2>3. (~ Recovering) \in BOOLEAN
    OBVIOUS
  <2> QED
    BY <1>2, <2>1, <2>2, <2>3, CallsOK, Zenon
<1>5. journal' = Append(journal, e) /\ graph' = h /\ stack' = CallsAfter(h, e, ~ Recovering) \o rest
  BY DEF persistAndUpdateGraph, h
<1>6. stack' \in Seq(FramesOf(graph'))
  <2>1. rest \in Seq(FramesOf(h))
    BY DEF h
  <2> HIDE DEF FramesOf
  <2> QED
    BY <1>4, <1>5, <2>1, ConcatProperties
<1>7. e.type # "GraphCreated"
  <2>1. StateAfter(Applied) # "nil"
    BY DEF Inv, GraphMatchesJournal, HasGraph
  <2>2. DOMAIN journal # {}
    BY <2>1 DEF StateAfter, Seen
  <2> QED
    BY <2>2 DEF Follows
<1>8. graph'.state # "nil"
  BY <1>2, <1>5 DEF NextState, HasGraph
<1>9. /\ inflight' \subseteq Call
      /\ \A i \in inflight' : i.stage \in AddedBefore(Len(journal) + 1)
      /\ timers' \subseteq AddedBefore(Len(journal) + 1)
  BY Zenon DEF Inv, TypeOK, GraphMatchesJournal
<1> QED
  BY <1>2, <1>5, <1>6, <1>7, <1>8, <1>9, RecordStep, Zenon

\* Recording and requesting the invocation of a stage of the graph.
LEMMA InvokeStep ==
  ASSUME Inv, actor # "down", HasGraph, NEW s \in StageIds(graph), NEW args \in Seq(Result),
         Invoke(s, args),
         graph' \in Graph, GraphOK(graph'), graph'.state = graph.state,
         Len(graph'.stages) = Len(graph.stages),
         stack' \in Seq(FramesOf(graph')),
         replayVars' = replayVars, timers' = timers, deactivate' = deactivate
  PROVE  Inv'
<1> DEFINE e == InvocationStarted(s)
<1>1. graph \in Graph /\ Len(graph.stages) \in Nat /\ s \in Nat /\ Len(journal) \in Nat
  BY GraphFields, LenProperties DEF Inv, TypeOK
<1>2. e \in Event /\ e.type = "InvocationStarted" /\ e.stage = s
  BY <1>1, EventConstructors DEF InvocationStarted
<1>3. journal' = Append(journal, e)
  BY DEF Invoke
<1>4. inflight' = inflight \union {[stage |-> s, call |-> Len(journal) + 1, args |-> args]}
  BY DEF Invoke
<1> HIDE DEF e
<1>5. Fits(graph, e)
  BY <1>2 DEF Fits, LifecycleType
<1>6. Follows(e) /\ e.type \notin LifecycleType \union {"StageAdded"}
  BY <1>2, <1>5, FitsFollows DEF LifecycleType
<1>7. s \in AddedBefore(Len(journal) + 1)
  BY <1>2, <1>6 DEF Follows
<1>8. /\ inflight' \subseteq Call
      /\ \A i \in inflight' : i.stage \in AddedBefore(Len(journal) + 1)
  BY <1>1, <1>4, <1>7 DEF Inv, TypeOK, GraphMatchesJournal, Call
<1>9. timers' \subseteq AddedBefore(Len(journal) + 1) /\ deactivate' \in BOOLEAN
  BY DEF Inv, TypeOK, GraphMatchesJournal
<1>10. /\ graph'.state = NextState(graph, e) /\ graph'.state # "nil"
       /\ Len(graph'.stages) = Len(graph.stages) + (IF e.type = "StageAdded" THEN 1 ELSE 0)
  BY <1>1, <1>2 DEF NextState, HasGraph
<1> QED
  BY <1>2, <1>3, <1>6, <1>8, <1>9, <1>10, RecordStep, Zenon

\* An actor with pending calls is live and so is its graph; an idle one is live.
LEMMA LiveActor ==
  ASSUME Inv
  PROVE  /\ graph \in Graph /\ GraphOK(graph) /\ deactivate \in BOOLEAN
         /\ stack \in Seq(FramesOf(graph))
         /\ stack # <<>> => /\ actor # "down" /\ HasGraph
                            /\ Head(stack) \in FramesOf(graph)
                            /\ Tail(stack) \in Seq(FramesOf(graph))
         /\ Idle => actor # "down" /\ ~ Recovering
<1>1. graph \in Graph /\ GraphOK(graph) /\ deactivate \in BOOLEAN
  BY DEF Inv, TypeOK, GraphMatchesJournal
<1>2. stack \in Seq(FramesOf(graph))
  BY StackFrames DEF Inv, TypeOK, GraphMatchesJournal
<1>3. stack # <<>> => Head(stack) \in FramesOf(graph) /\ Tail(stack) \in Seq(FramesOf(graph))
  BY <1>2, HeadTailProperties
<1>4. stack # <<>> => actor # "down" /\ HasGraph
  BY DEF Inv, GraphMatchesJournal
<1>5. Idle => actor # "down" /\ ~ Recovering
  BY DEF Idle, Recovering
<1> QED
  BY <1>1, <1>2, <1>3, <1>4, <1>5

-----------------------------------------------------------------------------
(***************************************************************************)
(* Commands, answers and timers.                                           *)
(***************************************************************************)

\* A command of an idle actor that records one event about known stages, other
\* than the addition of a stage.
LEMMA CommandStep ==
  ASSUME Inv, Idle, HasGraph, NEW e \in Event, Fits(graph, e),
         e.type \notin LifecycleType \union {"StageAdded"},
         persistAndUpdateGraph(e, <<>>), replayVars' = replayVars,
         inflight' \subseteq inflight, timers' \subseteq timers, deactivate' = deactivate
  PROVE  Inv'
<1>1. actor # "down" /\ deactivate \in BOOLEAN
  BY LiveActor
<1>2. Follows(e)
  BY <1>1, FitsFollows
<1>3. <<>> \in Seq(FramesOf(UpdateWithEvent(graph, e)))
  OBVIOUS
<1> QED
  BY <1>1, <1>2, <1>3, PersistStep, Zenon

\* Creating the graph keeps Inv.
LEMMA CreateKeepsInv ==
  ASSUME Inv, CreateGraph
  PROVE  Inv'
<1>1. /\ actor = "up" /\ ~ Recovering /\ graph.state = "nil" /\ stack = <<>>
      /\ journal \in Seq(Event) /\ graph \in Graph /\ Applied = Len(journal)
  BY DEF CreateGraph, Idle, HasGraph, Inv, TypeOK, Recovering, Applied
<1>2. journal = <<>>
  <2> SUFFICES ASSUME journal # <<>> PROVE FALSE
    OBVIOUS
  <2>1. 1 \in DOMAIN journal /\ 1 <= Len(journal)
    BY <1>1, EmptySeq, LenProperties
  <2>2. Seen("GraphCreated", Len(journal))
    BY <2>1 DEF Inv, OneLife, Seen
  <2> QED
    BY <1>1, <2>2 DEF Inv, GraphMatchesJournal, StateAfter
<1>3. Len(graph.stages) = 0
  <2>1. StageIds(graph) = AddedBefore(Len(journal) + 1)
    BY <1>1 DEF Inv, GraphMatchesJournal
  <2>2. AddedBefore(Len(journal) + 1) = {}
    BY <1>2 DEF AddedBefore, Positions
  <2> QED
    BY <1>1, <2>1, <2>2, GraphFields DEF StageIds
<1>4. New \in Graph /\ GraphOK(New) /\ New.state = "initial" /\ Len(New.stages) = 0
  BY EmptyGraphs
<1>5. GraphCreated \in Event /\ GraphCreated.type = "GraphCreated"
  BY EventConstructors DEF GraphCreated
<1>6. Follows(GraphCreated)
  BY <1>2, <1>5 DEF Follows, LifecycleType
<1>7. /\ journal' = Append(journal, GraphCreated) /\ graph' = New /\ stack' = <<>>
      /\ replayVars' = replayVars /\ inflight' = inflight /\ timers' = timers
      /\ deactivate' = deactivate
  BY <1>1 DEF CreateGraph, envVars
<1>8. /\ inflight' \subseteq Call /\ timers' \subseteq AddedBefore(Len(journal) + 1)
      /\ \A i \in inflight' : i.stage \in AddedBefore(Len(journal) + 1)
      /\ deactivate' \in BOOLEAN
  BY <1>7 DEF Inv, TypeOK, GraphMatchesJournal
<1>9. Len(graph'.stages) = Len(graph.stages) + (IF GraphCreated.type = "StageAdded" THEN 1 ELSE 0)
  BY <1>3, <1>4, <1>5, <1>7
<1>10. stack' \in Seq(FramesOf(graph'))
  BY <1>7
<1> QED
  BY <1>1, <1>4, <1>5, <1>6, <1>7, <1>8, <1>9, <1>10, RecordStep, Zenon

\* Adding a stage, with the rest of the command about that stage, keeps Inv.
LEMMA AddKeepsInv ==
  ASSUME Inv, NEW op \in Operation, NEW deps \in Seq(Nat), NEW c, NEW rest,
         \A g \in Graph : NextStageID(graph) \in StageIds(g) => rest \in Seq(FramesOf(g)),
         AddStageThen(op, deps, c, rest)
  PROVE  Inv'
<1> DEFINE e == StageAdded(NextStageID(graph), op, deps)
           h == UpdateWithEvent(graph, e)
<1>1. /\ Idle /\ HasGraph /\ ValidateAdd(graph, op, deps, c)
      /\ persistAndUpdateGraph(e, rest) /\ UNCHANGED << replayVars, envVars >>
  BY DEF AddStageThen
<1>2. /\ graph \in Graph /\ GraphOK(graph) /\ actor # "down" /\ ~ Recovering
      /\ deactivate \in BOOLEAN /\ Len(graph.stages) \in Nat
  BY <1>1, LiveActor, GraphFields
<1>3. NextStageID(graph) \in Nat
  BY <1>2 DEF NextStageID
<1>4. /\ e \in Event /\ e.type = "StageAdded" /\ e.stage = NextStageID(graph)
      /\ e.op = op /\ e.deps = deps
  BY <1>3, EventConstructors DEF StageAdded
<1> HIDE DEF e
<1>5. Fits(graph, e)
  <2>1. op = "whenComplete" => Len(deps) >= 1
    BY <1>1 DEF ValidateAdd, getStrategyFromOperation, Strategy
  <2>2. op = "whenComplete" => deps # <<>>
    BY <2>1, EmptySeq
  <2>3. \A d \in DOMAIN deps : deps[d] \in StageIds(graph)
    BY <1>1 DEF ValidateAdd
  <2> QED
    BY <1>4, <2>2, <2>3 DEF Fits
<1>6. canModifyGraph(graph)
  BY <1>1 DEF ValidateAdd
<1>7. Follows(e)
  BY <1>1, <1>2, <1>4, <1>5, <1>6, FitsFollows DEF LifecycleType
<1>8. h \in Graph /\ Len(h.stages) = Len(graph.stages) + 1
  BY <1>2, <1>4, <1>5, UpdateOK, Zenon
<1> HIDE DEF h
<1>9. NextStageID(graph) \in StageIds(h)
  BY <1>2, <1>8 DEF NextStageID, StageIds
<1>10. rest \in Seq(FramesOf(UpdateWithEvent(graph, e)))
  BY <1>8, <1>9 DEF h
<1>11. replayVars' = replayVars /\ inflight' = inflight /\ timers' = timers /\ deactivate' = deactivate
  BY <1>1 DEF envVars
<1> QED
  BY <1>1, <1>2, <1>4, <1>5, <1>7, <1>10, <1>11, PersistStep

\* Every command keeps Inv.
LEMMA CommandKeepsInv ==
  ASSUME Inv, Command
  PROVE  Inv'
<1>1. /\ graph \in Graph /\ GraphOK(graph) /\ actor # "down" /\ ~ Recovering /\ Idle
      /\ deactivate \in BOOLEAN /\ Len(graph.stages) \in Nat /\ StageIds(graph) \subseteq Nat
  BY LiveActor, GraphFields DEF Command
<1>2. Values \subseteq Result
  BY ResultConstructors DEF Values, Datum
<1>3. <<>> \in Seq(Nat) /\ \A g : <<>> \in Seq(FramesOf(g))
  OBVIOUS
<1>4. ASSUME NEW op \in ClientOperations, NEW deps \in DependencyLists(MaxDeps), NEW c \in BOOLEAN,
             AddStage(op, deps, c)
      PROVE  Inv'
  <2>1. op \in Operation
    BY BoundsAssumption DEF ClientOperations
  <2>2. deps \in Seq(Nat)
    <3>1. PICK k \in 0 .. MaxDeps : deps \in [1 .. k -> StageIds(graph)]
      BY DEF DependencyLists
    <3>2. k \in Nat
      BY BoundsAssumption
    <3>3. deps \in [1 .. k -> Nat]
      BY <1>1, <3>1
    <3> QED
      BY <3>2, <3>3
  <2> QED
    BY <1>3, <1>4, <2>1, <2>2, AddKeepsInv, Zenon DEF AddStage
<1>5. ASSUME NEW r \in Values, AddCompletedValue(r)
      PROVE  Inv'
  <2> DEFINE rest == << Persist(StageCompleted(NextStageID(graph), r)) >>
  <2>1. \A g \in Graph : NextStageID(graph) \in StageIds(g) => rest \in Seq(FramesOf(g))
    BY <1>2, FrameConstructors
  <2>2. AddStageThen("completedValue", <<>>, FALSE, rest) /\ "completedValue" \in Operation
    BY <1>5, Zenon DEF AddCompletedValue, Operation
  <2> HIDE DEF rest
  <2> QED
    BY <1>3, <2>1, <2>2, AddKeepsInv, Zenon
<1>6. ASSUME AddDelay
      PROVE  Inv'
  <2> DEFINE rest == << Persist(DelayScheduled(NextStageID(graph))) >>
  <2>1. \A g \in Graph : NextStageID(graph) \in StageIds(g) => rest \in Seq(FramesOf(g))
    BY FrameConstructors
  <2>2. AddStageThen("delay", <<>>, FALSE, rest) /\ "delay" \in Operation
    BY <1>6, Zenon DEF AddDelay, Operation
  <2> HIDE DEF rest
  <2> QED
    BY <1>3, <2>1, <2>2, AddKeepsInv, Zenon
<1>7. ASSUME AddInvokeFunction
      PROVE  Inv'
  <2> DEFINE rest == << Persist(InvocationStarted(NextStageID(graph))) >>
  <2>1. \A g \in Graph : NextStageID(graph) \in StageIds(g) => rest \in Seq(FramesOf(g))
    BY FrameConstructors
  <2>2. AddStageThen("invokeFunction", <<>>, FALSE, rest) /\ "invokeFunction" \in Operation
    BY <1>7, Zenon DEF AddInvokeFunction, Operation
  <2> HIDE DEF rest
  <2> QED
    BY <1>3, <2>1, <2>2, AddKeepsInv, Zenon
<1>8. ASSUME NEW s \in StageIds(graph), NEW r \in Values, CompleteStageExternally(s, r)
      PROVE  Inv'
  <2> DEFINE e == StageCompleted(s, r)
  <2>1. e \in Event /\ e.type = "StageCompleted" /\ e.stage = s
    BY <1>1, <1>2, EventConstructors DEF StageCompleted
  <2>2. persistAndUpdateGraph(e, <<>>) /\ HasGraph /\ UNCHANGED << replayVars, envVars >>
    BY <1>8 DEF CompleteStageExternally
  <2> HIDE DEF e
  <2>3. Fits(graph, e) /\ e.type \notin LifecycleType \union {"StageAdded"}
    BY <2>1 DEF Fits, LifecycleType
  <2>4. replayVars' = replayVars /\ inflight' = inflight /\ timers' = timers /\ deactivate' = deactivate
    BY <2>2 DEF envVars
  <2> QED
    BY <1>1, <2>1, <2>2, <2>3, <2>4, CommandStep, SMTT(30)
<1>9. ASSUME Commit
      PROVE  Inv'
  <2>1. GraphCommitted \in Event /\ GraphCommitted.type = "GraphCommitted"
    BY EventConstructors DEF GraphCommitted
  <2>2. /\ persistAndUpdateGraph(GraphCommitted, <<>>) /\ HasGraph /\ graph.state = "initial"
        /\ replayVars' = replayVars /\ inflight' = inflight /\ timers' = timers
        /\ deactivate' = deactivate
    BY <1>9 DEF Commit, IsCommitted, envVars
  <2>3. Fits(graph, GraphCommitted)
    BY <2>1 DEF Fits, LifecycleType
  <2>4. graph.state = StateAfter(Len(journal))
    BY <1>1 DEF Inv, GraphMatchesJournal, Applied
  <2>5. Follows(GraphCommitted)
    <3>1. journal # <<>>
      BY <2>2, <2>4 DEF StateAfter, Seen
    <3> QED
      BY <2>1, <2>2, <2>4, <3>1 DEF Follows, LifecycleType
  <2> QED
    BY <1>1, <1>3, <2>1, <2>2, <2>3, <2>5, PersistStep, Zenon
<1> QED
  BY <1>4, <1>5, <1>6, <1>7, <1>8, <1>9, CreateKeepsInv DEF Command

\* A firing timer keeps Inv.
LEMMA CompleteDelayKeepsInv ==
  ASSUME Inv, NEW s \in timers, CompleteDelay(s)
  PROVE  Inv'
<1>1. /\ graph \in Graph /\ GraphOK(graph) /\ actor # "down" /\ ~ Recovering /\ Idle /\ HasGraph
      /\ deactivate \in BOOLEAN /\ stack \in Seq(FramesOf(graph)) /\ StageIds(graph) \subseteq Nat
  BY LiveActor, GraphFields DEF CompleteDelay
<1>2. s \in StageIds(graph)
  BY <1>1 DEF Inv, GraphMatchesJournal, Applied
<1>3. /\ replayVars' = replayVars /\ inflight' = inflight /\ timers' \subseteq timers
      /\ deactivate' = deactivate
  BY DEF CompleteDelay
<1>4. CASE StageResolved(graph, s)
  <2>1. journal' = journal /\ graph' = graph /\ stack' = stack
    BY <1>4 DEF CompleteDelay
  <2> QED
    BY <1>1, <1>3, <2>1, QuietStep
<1>5. CASE ~ StageResolved(graph, s)
  <2> DEFINE r == NewSuccessfulResult("empty")
             e == StageCompleted(s, r)
  <2>1. r \in Result
    BY ResultConstructors DEF Datum
  <2>2. persistAndUpdateGraph(e, <<>>)
    BY <1>5 DEF CompleteDelay
  <2> HIDE DEF r
  <2>3. e \in Event /\ e.type = "StageCompleted" /\ e.stage = s
    BY <1>1, <1>2, <2>1, EventConstructors DEF StageCompleted
  <2> HIDE DEF e
  <2>4. Fits(graph, e) /\ e.type \notin LifecycleType \union {"StageAdded"}
    BY <1>2, <2>3 DEF Fits, LifecycleType
  <2> QED
    BY <1>1, <1>3, <2>2, <2>3, <2>4, CommandStep
<1> QED
  BY <1>4, <1>5

\* An answer of the executor keeps Inv.
LEMMA AnswerKeepsInv ==
  ASSUME Inv, NEW i \in inflight, Answer(i)
  PROVE  Inv'
<1>1. /\ graph \in Graph /\ actor # "down" /\ ~ Recovering /\ Idle /\ HasGraph
      /\ StageIds(graph) \subseteq Nat /\ Len(graph.stages) \in Nat
  BY LiveActor, GraphFields DEF Answer
<1>2. i.stage \in StageIds(graph)
  BY <1>1 DEF Inv, GraphMatchesJournal, Applied
<1>3. PICK r \in Responses(i.stage) : FaasInvocationResponse(i, r)
  BY DEF Answer
<1>4. r \in Result
  <2>1. \A k \in 1 .. NextStageID(graph) : NewStageRefResult(k) \in Result
    BY <1>1, ResultConstructors DEF NextStageID
  <2>2. NewSuccessfulResult("blob") \in Result /\ NewFailedResult("stage_failed") \in Result
    BY ResultConstructors DEF Datum
  <2> QED
    BY <2>1, <2>2 DEF Responses, HandleInvokeStage, HandleInvokeFunction
<1> DEFINE e == InvocationCompleted(i.stage, r)
<1>5. e \in Event /\ e.type = "InvocationCompleted" /\ e.stage = i.stage
  BY <1>1, <1>2, <1>4, EventConstructors DEF InvocationCompleted
<1>6. /\ persistAndUpdateGraph(e, <<>>) /\ replayVars' = replayVars /\ inflight' \subseteq inflight
      /\ timers' = timers /\ deactivate' = deactivate
  BY <1>3 DEF FaasInvocationResponse
<1> HIDE DEF e
<1>7. Fits(graph, e) /\ e.type \notin LifecycleType \union {"StageAdded"}
  BY <1>2, <1>5 DEF Fits, LifecycleType
<1> QED
  BY <1>1, <1>5, <1>6, <1>7, CommandStep, SMTT(30)
=============================================================================
