------------------------------ MODULE FlowProofs ----------------------------
(***************************************************************************)
(* Proofs, for any limits, operations and failures, that a graph actor     *)
(* keeps its types, that its journal tells one life and that its graph is  *)
(* the one its journal describes.  All follow from Inv, which is           *)
(* inductive.                                                              *)
(***************************************************************************)
EXTENDS CascadeProofs, RecoveryProofs

\* Inv is an invariant of the actor, for every set of operations and failures
\* and every bound on stages, hooks, dependencies and incarnations.
THEOREM Invariance == Spec => []Inv
<1>1. Init => Inv
  <2> SUFFICES ASSUME Init PROVE Inv
    OBVIOUS
  <2>1. TypeOK
    <3>1. <<>> \in Seq(Event) /\ <<>> \in Seq(Frame) /\ NilGraph \in Graph
      BY EmptyGraphs
    <3>2. inflight \subseteq Call /\ timers \subseteq Nat /\ deactivate \in BOOLEAN
      BY Zenon DEF Init
    <3>3. cursor \in Nat \ {0} /\ replayEnd \in Nat /\ spawns \in Nat
      BY DEF Init
    <3> QED
      BY <3>1, <3>2, <3>3 DEF Init, TypeOK
  <2>2. OneLife
    BY DEF Init, OneLife
  <2>3. GraphMatchesJournal
    BY EmptyGraphs DEF Init, GraphMatchesJournal, Recovering
  <2> QED
    BY <2>1, <2>2, <2>3 DEF Inv
<1>2. Inv /\ [Next]_vars => Inv'
  <2> SUFFICES ASSUME Inv, [Next]_vars PROVE Inv'
    OBVIOUS
  <2>1. CASE Step
    BY <2>1, StepKeepsInv
  <2>2. CASE Command
    BY <2>2, CommandKeepsInv
  <2>3. ASSUME NEW s \in timers, CompleteDelay(s) PROVE Inv'
    BY <2>3, CompleteDelayKeepsInv
  <2>4. ASSUME NEW i \in inflight, Answer(i) PROVE Inv'
    BY <2>4, AnswerKeepsInv
  <2>5. CASE Incarnation
    BY <2>5, SpawnKeepsInv, ReplayKeepsInv, ReplayCompleteKeepsInv DEF Incarnation
  <2>6. CASE Failure \/ Deactivate
    BY <2>6, FailureKeepsInv
  <2>7. CASE UNCHANGED vars
    <3>1. /\ journal' = journal /\ graph' = graph /\ actor' = actor /\ cursor' = cursor
          /\ replayEnd' = replayEnd /\ stack' = stack /\ inflight' = inflight
          /\ timers' = timers /\ deactivate' = deactivate /\ spawns' = spawns
      BY <2>7 DEF vars
    <3>2. TypeOK'
      BY <3>1 DEF Inv, TypeOK
    <3>3. OneLife' /\ (\A i \in DOMAIN journal : EventOK(i))'
      BY <3>1, JournalSame DEF Inv, GraphMatchesJournal
    <3>4. /\ AddedBefore(Len(journal) + 1)' = AddedBefore(Len(journal) + 1)
          /\ AddedBefore(Applied + 1)' = AddedBefore(Applied + 1)
          /\ StateAfter(Applied)' = StateAfter(Applied)
      BY <3>1 DEF AddedBefore, Positions, StateAfter, Seen, Applied, Recovering
    <3> QED
      BY <3>1, <3>2, <3>3, <3>4 DEF Inv, GraphMatchesJournal, HasGraph, Recovering
  <2> QED
    BY <2>1, <2>2, <2>3, <2>4, <2>5, <2>6, <2>7 DEF Next
<1> QED
  BY <1>1, <1>2, PTL DEF Spec

\* Type correctness: every variable of the actor keeps its type; in particular
\* only well-formed events reach the journal and only well-formed calls the
\* cascade of a handler.
THEOREM TypeCorrectness == Spec => []TypeOK
<1>1. Inv => TypeOK
  BY DEF Inv
<1> QED
  BY <1>1, Invariance, PTL

\* The journal of a flow tells one life, through any number of failures and
\* replays: its lifecycle events are never repeated, reordered or skipped, and
\* no stage is added once termination has begun.
THEOREM JournalTellsOneLife == Spec => []OneLife
<1>1. Inv => OneLife
  BY DEF Inv
<1> QED
  BY <1>1, Invariance, PTL

\* The graph in memory, the pending calls and the outstanding work agree with
\* the journal on the lifecycle state and on the stages that exist: no handler,
\* answer, timer or replayed event ever refers to a stage that is unknown.
THEOREM MemoryMatchesJournal == Spec => []GraphMatchesJournal
<1>1. Inv => GraphMatchesJournal
  BY DEF Inv
<1> QED
  BY <1>1, Invariance, PTL
=============================================================================
