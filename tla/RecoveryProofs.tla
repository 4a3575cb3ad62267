---------------------------- MODULE RecoveryProofs --------------------------
(***************************************************************************)
(* Spawning an actor, replaying its journal, the end of the replay and     *)
(* every way to lose the actor keep Inv.                                   *)
(***************************************************************************)
EXTENDS CommandProofs

\* A step of the replay machinery: the journal stays, and the graph afterwards
\* reflects its first n events.
LEMMA ReplayStep ==
  ASSUME Inv, journal' = journal, actor' \in {"replaying", "up"},
         cursor' \in Nat \ {0}, replayEnd' \in Nat, spawns' \in Nat,
         graph' \in Graph, GraphOK(graph'), stack' \in Seq(FramesOf(graph')),
         stack' # <<>> => graph'.state # "nil",
         NEW n \in Nat, n = Applied',
         graph'.state = StateAfter(n), StageIds(graph') = AddedBefore(n + 1),
         inflight' = inflight, timers' \subseteq AddedBefore(Len(journal) + 1),
         deactivate' = deactivate,
         Recovering' => /\ cursor' <= replayEnd' + 1 /\ replayEnd' <= Len(journal)
                        /\ \A i \in replayEnd' + 1 .. Len(journal) :
                             journal[i].type \notin LifecycleType \union {"StageAdded"}
  PROVE  Inv'
<1>1. journal \in Seq(Event) /\ AddedBefore(Len(journal) + 1) \subseteq Nat
  BY AddedNat DEF Inv, TypeOK
<1>2. TypeOK'
  <2>1. stack' \in Seq(Frame)
    BY StackFrames
  <2> QED
    BY <1>1, <2>1 DEF Inv, TypeOK
<1>3. OneLife' /\ (\A i \in DOMAIN journal : EventOK(i))'
  BY JournalSame DEF Inv, GraphMatchesJournal
<1>4. (\A k \in DOMAIN stack : FrameOK(graph, stack[k]))'
  BY StackFrames
<1>5. AddedBefore(Len(journal) + 1)' = AddedBefore(Len(journal) + 1)
  BY DEF AddedBefore, Positions
<1>6. /\ (\A i \in inflight : i.stage \in AddedBefore(Len(journal) + 1))'
      /\ (timers \subseteq AddedBefore(Len(journal) + 1))'
  BY <1>5 DEF Inv, GraphMatchesJournal
<1>7. StateAfter(Applied)' = StateAfter(n) /\ AddedBefore(Applied + 1)' = AddedBefore(n + 1)
  BY DEF StateAfter, Seen, AddedBefore, Positions
<1>8. graph'.state = StateAfter(Applied)' /\ StageIds(graph') = AddedBefore(Applied + 1)'
  BY <1>7
<1> QED
  BY <1>2, <1>3, <1>4, <1>6, <1>8, Zenon DEF Inv, GraphMatchesJournal, HasGraph, Recovering

\* Before the first event there is no graph.
LEMMA NothingAtStart ==
  ASSUME journal \in Seq(Event)
  PROVE  StateAfter(0) = "nil" /\ AddedBefore(1) = {}
<1>1. DOMAIN journal = 1 .. Len(journal) /\ Len(journal) \in Nat
  BY LenProperties
<1>2. \A t : ~ Seen(t, 0)
  BY <1>1 DEF Seen
<1>3. AddedBefore(1) = {}
  BY <1>1 DEF AddedBefore, Positions
<1> QED
  BY <1>2, <1>3 DEF StateAfter

\* Spawning the actor keeps Inv.
LEMMA SpawnKeepsInv ==
  ASSUME Inv, Spawn
  PROVE  Inv'
<1>1. /\ journal \in Seq(Event) /\ Len(journal) \in Nat /\ spawns \in Nat
      /\ graph = NilGraph /\ stack = <<>> /\ timers \subseteq AddedBefore(Len(journal) + 1)
  BY LenProperties DEF Inv, TypeOK, GraphMatchesJournal, Spawn
<1>2. /\ journal' = journal /\ graph' = graph /\ stack' = stack /\ actor' = "replaying" /\ cursor' = 1
      /\ replayEnd' = Len(journal) /\ spawns' = spawns + 1 /\ inflight' = inflight
      /\ timers' = timers /\ deactivate' = deactivate
  BY DEF Spawn, envVars
<1>3. Applied' = 0
  BY <1>2 DEF Applied, Recovering
<1>4. graph' \in Graph /\ GraphOK(graph') /\ graph'.state = StateAfter(0) /\ StageIds(graph') = AddedBefore(0 + 1)
  BY <1>1, <1>2, EmptyGraphs, NothingAtStart
<1>5. stack' \in Seq(FramesOf(graph')) /\ stack' = <<>>
  BY <1>1, <1>2
<1>6. /\ actor' \in {"replaying", "up"} /\ cursor' \in Nat \ {0} /\ replayEnd' \in Nat
      /\ spawns' \in Nat /\ timers' \subseteq AddedBefore(Len(journal) + 1)
  BY ONLY <1>1, <1>2
<1>7. /\ cursor' <= replayEnd' + 1 /\ replayEnd' <= Len(journal)
      /\ \A i \in replayEnd' + 1 .. Len(journal) : FALSE
  BY ONLY <1>1, <1>2
<1>8. 0 \in Nat /\ 0 = Applied'
  BY <1>3
<1> QED
  BY <1>2, <1>4, <1>5, <1>6, <1>7, <1>8, ReplayStep, Zenon

\* Two initial segments of the naturals are equal only if they end alike.
LEMMA SameSegment ==
  ASSUME NEW a \in Nat, NEW b \in Nat, 1 .. a = 1 .. b
  PROVE  a = b
<1>1. a > 0 => a \in 1 .. b
  OBVIOUS
<1>2. b > 0 => b \in 1 .. a
  OBVIOUS
<1> QED
  BY <1>1, <1>2

\* The event under the cursor fits the graph replayed so far.
LEMMA ReplayedFits ==
  ASSUME Inv, Recovering, NEW p \in DOMAIN journal, p = cursor
  PROVE  /\ Fits(graph, journal[p])
         /\ graph.state = StateAfter(p - 1) /\ StageIds(graph) = AddedBefore(p)
<1> DEFINE e == journal[p]
<1>1. /\ journal \in Seq(Event) /\ DOMAIN journal = 1 .. Len(journal) /\ Len(journal) \in Nat
      /\ graph \in Graph /\ Len(graph.stages) \in Nat /\ e \in Event /\ p \in Nat
  BY LenProperties, ElementOfSeq, GraphFields DEF Inv, TypeOK
<1>2. Applied = p - 1 /\ Applied + 1 = p
  BY <1>1 DEF Applied
<1>3. graph.state = StateAfter(p - 1) /\ StageIds(graph) = AddedBefore(p)
  BY <1>2 DEF Inv, GraphMatchesJournal, Recovering
<1>4. EventOK(p)
  BY DEF Inv, GraphMatchesJournal
<1> HIDE DEF e
<1>5. e.type = "StageAdded" => e.stage = NextStageID(graph)
  <2> SUFFICES ASSUME e.type = "StageAdded" PROVE e.stage = NextStageID(graph)
    OBVIOUS
  <2>1. e.stage \in Nat
    BY <1>1, EventFields DEF LifecycleType
  <2>2. 1 .. Len(graph.stages) = 1 .. e.stage - 1 /\ e.stage > 0
    BY <1>3, <1>4 DEF EventOK, StageIds, e
  <2>3. Len(graph.stages) = e.stage - 1
    BY <1>1, <2>1, <2>2, SameSegment
  <2> QED
    BY <1>1, <2>1, <2>3 DEF NextStageID
<1>6. Fits(graph, e)
  BY <1>3, <1>4, <1>5 DEF Fits, EventOK, e
<1> QED
  BY <1>3, <1>6 DEF e

\* Replaying an event keeps Inv.
LEMMA ReplayKeepsInv ==
  ASSUME Inv, Replay
  PROVE  Inv'
<1>1. /\ journal \in Seq(Event) /\ DOMAIN journal = 1 .. Len(journal) /\ Len(journal) \in Nat
      /\ graph \in Graph /\ GraphOK(graph) /\ cursor \in Nat \ {0} /\ replayEnd \in Nat
      /\ timers \subseteq AddedBefore(Len(journal) + 1) /\ spawns \in Nat
      /\ Recovering /\ cursor <= replayEnd /\ replayEnd <= Len(journal)
      /\ \A i \in replayEnd + 1 .. Len(journal) :
           journal[i].type \notin LifecycleType \union {"StageAdded"}
  BY LenProperties DEF Inv, TypeOK, GraphMatchesJournal, Replay
<1>2. PICK p \in DOMAIN journal : p = cursor
  BY <1>1
<1>3. p \in Nat /\ p >= 1 /\ p <= Len(journal)
  BY <1>1
<1> DEFINE e == journal[p]
           h == UpdateWithEvent(graph, e)
<1>4. /\ journal' = journal /\ actor' = actor /\ cursor' = p + 1 /\ replayEnd' = replayEnd
      /\ spawns' = spawns /\ inflight' = inflight /\ deactivate' = deactivate
      /\ graph' = (IF e.type = "GraphCreated" THEN New ELSE h)
      /\ stack' = CallsAfter(h, e, FALSE)
      /\ timers' = (IF e.type = "DelayScheduled" THEN timers \union {e.stage} ELSE timers)
  BY <1>2 DEF Replay, scheduleDelay
<1>5. /\ e \in Event /\ Fits(graph, e) /\ EventOK(p)
      /\ graph.state = StateAfter(p - 1) /\ StageIds(graph) = AddedBefore(p)
  BY <1>1, <1>2, ReplayedFits, ElementOfSeq DEF Inv, GraphMatchesJournal
<1>6. Applied' = p
  <2> HIDE DEF e, h
  <2>1. actor' = "replaying" /\ cursor' = p + 1
    BY <1>1, <1>4, Zenon DEF Recovering
  <2> QED
    BY ONLY <1>3, <2>1 DEF Applied, Recovering
<1>7. timers' \subseteq AddedBefore(Len(journal) + 1)
  <2>1. AddedBefore(p) \subseteq AddedBefore(Len(journal) + 1)
    BY <1>1, <1>3, AddedMonotone
  <2>2. e.type = "DelayScheduled" => e.stage \in AddedBefore(p)
    BY <1>5 DEF EventOK, LifecycleType
  <2> QED
    BY <1>1, <1>4, <2>1, <2>2
<1>8. Recovering' => /\ cursor' <= replayEnd' + 1 /\ replayEnd' <= Len(journal)
                     /\ \A i \in replayEnd' + 1 .. Len(journal) :
                          journal[i].type \notin LifecycleType \union {"StageAdded"}
  <2> HIDE DEF e, h
  <2>1. cursor' = p + 1 /\ replayEnd' = replayEnd
    BY <1>4
  <2>2. cursor' <= replayEnd' + 1 /\ replayEnd' <= Len(journal)
    BY ONLY <1>1, <1>2, <1>3, <2>1
  <2> QED
    BY <1>1, <2>1, <2>2, Zenon
<1>9. /\ graph' \in Graph /\ GraphOK(graph') /\ stack' \in Seq(FramesOf(graph'))
      /\ graph'.state = StateAfter(p) /\ StageIds(graph') = AddedBefore(p + 1)
      /\ graph'.state # "nil"
  <2>1. CASE e.type = "GraphCreated"
    <3>1. p = 1
      BY <2>1, <1>3 DEF Inv, OneLife
    <3>2. StateAfter(p) = "initial"
      BY <1>1, <2>1, StateAlongJournal DEF Inv
    <3>3. AddedBefore(p + 1) = {}
      BY <1>1, <2>1, <3>1, NothingAtStart, AddedAlongJournal, Zenon
    <3>4. stack' = <<>>
      BY <1>4, <2>1 DEF CallsAfter
    <3>5. graph' = New /\ <<>> \in Seq(FramesOf(graph'))
      BY <1>4, <2>1
    <3> HIDE DEF e, h
    <3> QED
      BY <3>2, <3>3, <3>4, <3>5, EmptyGraphs
  <2>2. CASE e.type # "GraphCreated"
    <3>1. /\ h \in Graph /\ GraphOK(h) /\ h.state = NextState(graph, e)
          /\ Len(h.stages) = Len(graph.stages) + (IF e.type = "StageAdded" THEN 1 ELSE 0)
          /\ graph' = h
      BY <1>1, <1>4, <1>5, <2>2, UpdateOK, Zenon
    <3>2. StageIds(graph) \subseteq StageIds(h)
      BY <1>1, <1>5, StagesKept
    <3>3. CallsAfter(h, e, FALSE) \in Seq(FramesOf(h))
      <4> HIDE DEF h, e
      <4>1. e.type \in {"StageCompleted", "StageComposed", "InvocationCompleted"} => e.stage \in StageIds(h)
        BY <1>5, <3>2 DEF Fits, LifecycleType
      <4>2. e.type = "StageComposed" => e.inner \in StageIds(h)
        BY <1>5, <3>2 DEF Fits
      <4> QED
        BY <1>5, <3>1, <4>1, <4>2, CallsOK, Zenon
    <3>4. NextState(graph, e) = StateAfter(p)
      <4>1. e.type \in LifecycleType => e.type \in {"GraphCommitted", "GraphTerminating", "GraphCompleted"}
        BY <2>2 DEF LifecycleType
      <4>2. e.type \notin LifecycleType => NextState(graph, e) = graph.state
        BY DEF NextState, LifecycleType
      <4> QED
        BY <1>1, <1>5, <4>1, <4>2, StateAlongJournal DEF Inv, NextState
    <3>5. StageIds(h) = AddedBefore(p + 1)
      <4>0. Len(graph.stages) \in Nat
        BY <1>1, GraphFields
      <4>1. AddedBefore(p + 1) = AddedBefore(p) \union (IF e.type = "StageAdded" THEN {e.stage} ELSE {})
        BY <1>1, AddedAlongJournal
      <4>2. CASE e.type = "StageAdded"
        <5>1. e.stage = Len(graph.stages) + 1
          BY <1>5, <4>2 DEF Fits, NextStageID
        <5>2. Len(h.stages) = Len(graph.stages) + 1
          BY <3>1, <4>2
        <5>3. AddedBefore(p + 1) = (1 .. Len(graph.stages)) \union {Len(graph.stages) + 1}
          BY <1>5, <4>1, <4>2, <5>1 DEF StageIds
        <5>4. StageIds(h) = 1 .. Len(graph.stages) + 1
          BY <5>2 DEF StageIds
        <5>5. 1 .. Len(graph.stages) + 1 = (1 .. Len(graph.stages)) \union {Len(graph.stages) + 1}
          BY <4>0
        <5> QED
          BY <5>3, <5>4, <5>5, Zenon
      <4>3. CASE e.type # "StageAdded"
        <5>1. Len(h.stages) = Len(graph.stages)
          BY <3>1, <4>0, <4>3
        <5> QED
          BY <1>5, <4>1, <4>3, <5>1, Zenon DEF StageIds
      <4> QED
        BY <4>2, <4>3
    <3>6. StateAfter(p) # "nil"
      <4>1. 1 \in DOMAIN journal /\ 1 <= p
        BY <1>1, <1>3
      <4>2. Seen("GraphCreated", p)
        BY <4>1 DEF Seen, Inv, OneLife
      <4> QED
        BY <4>2 DEF StateAfter
    <3> QED
      BY <1>4, <3>1, <3>3, <3>4, <3>5, <3>6, Zenon
  <2> QED
    BY <2>1, <2>2
<1> HIDE DEF e, h
<1>10. actor' \in {"replaying", "up"} /\ cursor' \in Nat \ {0} /\ replayEnd' \in Nat /\ spawns' \in Nat
  BY <1>1, <1>3, <1>4 DEF Recovering
<1> QED
  BY <1>3, <1>4, <1>6, <1>7, <1>8, <1>9, <1>10, ReplayStep, Zenon

\* The end of the replay keeps Inv.
LEMMA ReplayCompleteKeepsInv ==
  ASSUME Inv, ReplayComplete
  PROVE  Inv'
<1>1. /\ journal \in Seq(Event) /\ DOMAIN journal = 1 .. Len(journal)
      /\ graph \in Graph /\ GraphOK(graph) /\ cursor \in Nat \ {0} /\ replayEnd \in Nat
      /\ timers \subseteq AddedBefore(Len(journal) + 1) /\ spawns \in Nat
      /\ Recovering /\ cursor > replayEnd /\ cursor <= replayEnd + 1 /\ replayEnd <= Len(journal)
      /\ \A i \in replayEnd + 1 .. Len(journal) :
           journal[i].type \notin LifecycleType \union {"StageAdded"}
  BY LenProperties DEF Inv, TypeOK, GraphMatchesJournal, ReplayComplete
<1>2. PICK n \in Nat : n = Len(journal)
  BY <1>1, LenProperties, Zenon
<1>3. /\ journal' = journal /\ actor' = "up" /\ cursor' = cursor /\ replayEnd' = replayEnd
      /\ spawns' = spawns /\ inflight' = inflight /\ deactivate' = deactivate
      /\ graph' = graph /\ timers' = timers
      /\ stack' = IF HasGraph THEN << RecoverLost, Trigger, Check >> ELSE <<>>
  BY DEF ReplayComplete, envVars
<1>4. Applied = replayEnd /\ Applied' = n
  BY <1>1, <1>2, <1>3 DEF Applied, Recovering
<1>5. graph.state = StateAfter(replayEnd) /\ StageIds(graph) = AddedBefore(replayEnd + 1)
  BY <1>1, <1>4 DEF Inv, GraphMatchesJournal, Recovering
<1>6. StateAfter(n) = StateAfter(replayEnd)
  <2>1. \A t \in LifecycleType : Seen(t, n) <=> Seen(t, replayEnd)
    BY <1>1, <1>2 DEF Seen
  <2> QED
    BY <2>1 DEF StateAfter, LifecycleType
<1>7. AddedBefore(n + 1) = AddedBefore(replayEnd + 1)
  <2>1. \A k \in Positions("StageAdded") : k < n + 1 <=> k < replayEnd + 1
    BY <1>1, <1>2 DEF Positions
  <2> QED
    BY <2>1 DEF AddedBefore
<1>8. stack' \in Seq(FramesOf(graph')) /\ (stack' # <<>> => graph'.state # "nil")
  <2>1. RecoverLost \in FramesOf(graph) /\ Trigger \in FramesOf(graph) /\ Check \in FramesOf(graph)
    BY <1>1, FrameConstructors, Zenon
  <2>2. CASE HasGraph
    <3>1. stack' = << RecoverLost, Trigger, Check >> /\ graph' = graph /\ graph.state # "nil"
      BY <1>3, <2>2 DEF HasGraph
    <3> QED
      BY ONLY <2>1, <3>1
  <2>3. CASE ~ HasGraph
    <3>1. stack' = <<>>
      BY <1>3, <2>3, Zenon
    <3> QED
      BY ONLY <3>1
  <2> QED
    BY ONLY <2>2, <2>3
<1> QED
  BY <1>1, <1>2, <1>3, <1>4, <1>5, <1>6, <1>7, <1>8, ReplayStep, Zenon DEF Recovering

\* Losing the actor keeps Inv: nothing is in memory, the journal is as it was.
LEMMA FailureKeepsInv ==
  ASSUME Inv, Failure \/ Deactivate
  PROVE  Inv'
<1>1. /\ Stop /\ inflight' \subseteq inflight /\ timers' \subseteq timers
      /\ deactivate' \in BOOLEAN
  BY Zenon DEF Failure, RestartActor, CrashProcess, Deactivate, ReceiveTimeout, Passivate, envVars, Inv, TypeOK
<1>2. /\ journal' = journal /\ graph' = NilGraph /\ stack' = <<>> /\ actor' = "down"
      /\ cursor' = cursor /\ replayEnd' = replayEnd /\ spawns' = spawns
  BY <1>1 DEF Stop
<1>3. TypeOK'
  BY <1>1, <1>2, EmptyGraphs DEF Inv, TypeOK
<1>4. OneLife' /\ (\A i \in DOMAIN journal : EventOK(i))'
  BY <1>2, JournalSame DEF Inv, GraphMatchesJournal
<1>5. AddedBefore(Len(journal) + 1)' = AddedBefore(Len(journal) + 1)
  BY <1>2 DEF AddedBefore, Positions
<1>6. /\ (\A i \in inflight : i.stage \in AddedBefore(Len(journal) + 1))'
      /\ (timers \subseteq AddedBefore(Len(journal) + 1))'
  BY <1>1, <1>5 DEF Inv, GraphMatchesJournal
<1>7. GraphOK(graph)'
  BY <1>2, EmptyGraphs
<1> QED
  BY <1>2, <1>3, <1>4, <1>6, <1>7 DEF Inv, GraphMatchesJournal, Recovering
=============================================================================
