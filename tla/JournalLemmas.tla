---------------------------- MODULE JournalLemmas ---------------------------
(***************************************************************************)
(* What the journal of a graph actor says about the graph, and how that    *)
(* changes when an event is appended to it or, during a replay, inserted   *)
(* next to the event being replayed.                                       *)
(***************************************************************************)
EXTENDS GraphLemmas

Inv == TypeOK /\ OneLife /\ GraphMatchesJournal

-----------------------------------------------------------------------------
(***************************************************************************)
(* The journal grows at its end.                                           *)
(***************************************************************************)

\* What an append leaves and what it adds.
LEMMA JournalAppend ==
  ASSUME journal \in Seq(Event), NEW e \in Event, journal' = Append(journal, e)
  PROVE  /\ Len(journal) \in Nat /\ DOMAIN journal = 1 .. Len(journal)
         /\ journal' \in Seq(Event) /\ Len(journal') = Len(journal) + 1
         /\ DOMAIN journal' = 1 .. Len(journal) + 1
         /\ \A i \in 1 .. Len(journal) : journal'[i] = journal[i]
         /\ journal'[Len(journal) + 1] = e
  BY AppendProperties, LenProperties

\* The stages added so far, after an append.
LEMMA AddedAfterAppend ==
  ASSUME journal \in Seq(Event), NEW e \in Event, journal' = Append(journal, e),
         NEW n \in Nat, n = Len(journal)
  PROVE  /\ \A i \in 0 .. n + 1 : AddedBefore(i)' = AddedBefore(i)
         /\ AddedBefore(n + 2)' =
              AddedBefore(n + 1) \union (IF e.type = "StageAdded" THEN {e.stage} ELSE {})
<1> USE JournalAppend
<1>1. ASSUME NEW i \in 0 .. n + 1
      PROVE  AddedBefore(i)' = AddedBefore(i)
  <2>1. {k \in Positions("StageAdded")' : k < i} = {k \in Positions("StageAdded") : k < i}
    BY DEF Positions
  <2>2. \A k \in {j \in Positions("StageAdded") : j < i} : journal'[k] = journal[k]
    BY DEF Positions
  <2> QED
    BY <2>1, <2>2, Zenon DEF AddedBefore
<1>2. ASSUME NEW s
      PROVE  s \in AddedBefore(n + 2)' <=>
               s \in AddedBefore(n + 1) \/ (e.type = "StageAdded" /\ s = e.stage)
  BY DEF AddedBefore, Positions
<1> QED
  BY <1>1, <1>2

\* The lifecycle events seen so far, after an append.
LEMMA SeenAfterAppend ==
  ASSUME journal \in Seq(Event), NEW e \in Event, journal' = Append(journal, e),
         NEW n \in Nat, n = Len(journal)
  PROVE  /\ \A t : \A i \in 0 .. n : Seen(t, i)' <=> Seen(t, i)
         /\ \A t : Seen(t, n + 1)' <=> Seen(t, n) \/ e.type = t
  BY JournalAppend DEF Seen

\* Monotonicity of AddedBefore.
LEMMA AddedMonotone ==
  ASSUME NEW m \in Int, NEW n \in Int, m <= n, journal \in Seq(Event)
  PROVE  AddedBefore(m) \subseteq AddedBefore(n)
  BY LenProperties DEF AddedBefore, Positions

\* An event may follow the journal as it is.
Follows(e) ==
    /\ e.type = "GraphCreated" <=> journal = <<>>
    /\ e.type = "GraphCommitted" => StateAfter(Len(journal)) = "initial"
    /\ e.type = "GraphTerminating" => StateAfter(Len(journal)) = "committed"
    /\ e.type = "GraphCompleted" => StateAfter(Len(journal)) = "terminating"
    /\ e.type = "StageAdded" =>
         /\ StateAfter(Len(journal)) \in {"initial", "committed"}
         /\ AddedBefore(Len(journal) + 1) = 1 .. e.stage - 1 /\ e.stage > 0
         /\ \A d \in DOMAIN e.deps : e.deps[d] \in AddedBefore(Len(journal) + 1)
         /\ e.op = "whenComplete" => e.deps # <<>>
    /\ e.type \notin LifecycleType \union {"StageAdded"} => e.stage \in AddedBefore(Len(journal) + 1)
    /\ e.type = "StageComposed" => e.inner \in AddedBefore(Len(journal) + 1)

\* The state after an event that may follow.
EventState(e) ==
    CASE e.type = "GraphCreated"     -> "initial"
      [] e.type = "GraphCommitted"   -> "committed"
      [] e.type = "GraphTerminating" -> "terminating"
      [] e.type = "GraphCompleted"   -> "completed"
      [] OTHER                       -> StateAfter(Len(journal))

\* Appending such an event keeps the journal telling one life.
LEMMA AppendKeepsOneLife ==
  ASSUME journal \in Seq(Event), OneLife, NEW e \in Event, Follows(e),
         journal' = Append(journal, e)
  PROVE  OneLife'
<1>0. PICK n \in Nat : n = Len(journal)
  BY LenProperties
<1>1. /\ DOMAIN journal = 1 .. n /\ DOMAIN journal' = 1 .. n + 1
      /\ \A i \in 1 .. n : journal'[i] = journal[i]
      /\ journal'[n + 1] = e
  BY <1>0, JournalAppend
<1>2. \A t : Seen(t, n) <=> \E i \in 1 .. n : journal[i].type = t
  BY <1>1 DEF Seen
<1>3. journal = <<>> <=> n = 0
  BY <1>0, EmptySeq
<1>4. ASSUME NEW i \in DOMAIN journal', NEW j \in DOMAIN journal', i < j,
             journal'[i].type \in LifecycleType, journal'[j].type \in LifecycleType
      PROVE  LifecycleOrder[journal'[i].type] < LifecycleOrder[journal'[j].type]
  <2>1. CASE j <= n
    <3>1. i \in 1 .. n /\ j \in 1 .. n
      BY <1>1, <1>4, <2>1
    <3> QED
      BY <1>1, <1>4, <3>1 DEF OneLife
  <2>2. CASE j = n + 1
    <3>1. i \in 1 .. n /\ journal'[i] = journal[i] /\ journal'[j] = e
      BY <1>1, <1>4, <2>2
    <3>2. Seen(journal[i].type, n)
      BY <1>2, <3>1
    <3>3. e.type # "GraphCreated"
      BY <1>1, <1>3, <3>1 DEF Follows
    <3>4. e.type \in {"GraphCommitted", "GraphTerminating", "GraphCompleted"}
      BY <1>4, <3>1, <3>3 DEF LifecycleType
    <3>5. journal[i].type \in LifecycleType
      BY <1>4, <3>1
    <3>6. CASE e.type = "GraphCommitted"
      BY <1>0, <3>1, <3>2, <3>5, <3>6 DEF Follows, StateAfter, LifecycleType, LifecycleOrder
    <3>7. CASE e.type = "GraphTerminating"
      BY <1>0, <3>1, <3>2, <3>5, <3>7 DEF Follows, StateAfter, LifecycleType, LifecycleOrder
    <3>8. CASE e.type = "GraphCompleted"
      BY <1>0, <3>1, <3>2, <3>5, <3>8 DEF Follows, StateAfter, LifecycleType, LifecycleOrder
    <3> QED
      BY <3>4, <3>6, <3>7, <3>8
  <2> QED
    BY <1>1, <1>4, <2>1, <2>2
<1>5. ASSUME NEW t
      PROVE  /\ \A i \in 1 .. n : Before(t, i)' <=> Before(t, i)
             /\ Before(t, n + 1)' <=> Seen(t, n)
  <2>1. \A i \in 1 .. n : Before(t, i) <=> \E j \in 1 .. n : journal[j].type = t /\ j < i
    BY <1>1 DEF Before, Positions
  <2>2. \A i \in 1 .. n + 1 : Before(t, i)' <=> \E j \in 1 .. n + 1 : journal'[j].type = t /\ j < i
    BY <1>1 DEF Before, Positions
  <2> QED
    BY <1>1, <1>2, <2>1, <2>2
<1>6. ASSUME NEW i \in DOMAIN journal'
      PROVE  /\ i = 1 <=> journal'[i].type = "GraphCreated"
             /\ journal'[i].type = "GraphTerminating" => Before("GraphCommitted", i)'
             /\ journal'[i].type = "GraphCompleted" => Before("GraphTerminating", i)'
             /\ journal'[i].type = "StageAdded" => ~ Before("GraphTerminating", i)'
  <2>1. CASE i \in 1 .. n
    BY <1>1, <1>5, <2>1, SMTT(30) DEF OneLife
  <2>2. CASE i = n + 1
    <3>1. i = 1 <=> e.type = "GraphCreated"
      BY <1>1, <1>3, <2>2 DEF Follows
    <3>2. /\ e.type = "GraphTerminating" => Seen("GraphCommitted", n)
          /\ e.type = "GraphCompleted" => Seen("GraphTerminating", n)
          /\ e.type = "StageAdded" => ~ Seen("GraphTerminating", n)
      BY <1>0 DEF Follows, StateAfter
    <3> QED
      BY <1>1, <1>5, <2>2, <3>1, <3>2
  <2> QED
    BY <1>1, <2>1, <2>2
<1> QED
  BY <1>4, <1>6 DEF OneLife

\* Appending such an event keeps every event about known stages.
LEMMA AppendKeepsEvents ==
  ASSUME journal \in Seq(Event), \A i \in DOMAIN journal : EventOK(i),
         NEW e \in Event, Follows(e), journal' = Append(journal, e)
  PROVE  (\A i \in DOMAIN journal : EventOK(i))'
<1>0. PICK n \in Nat : n = Len(journal)
  BY LenProperties
<1>1. /\ DOMAIN journal = 1 .. n /\ DOMAIN journal' = 1 .. n + 1
      /\ \A i \in 1 .. n : journal'[i] = journal[i]
      /\ journal'[n + 1] = e
  BY <1>0, JournalAppend
<1>2. \A i \in 1 .. n + 1 : AddedBefore(i)' = AddedBefore(i)
  BY <1>0, AddedAfterAppend
<1>3. ASSUME NEW i \in 1 .. n
      PROVE  EventOK(i)'
  BY <1>1, <1>2, <1>3 DEF EventOK
<1>4. EventOK(n + 1)'
  BY <1>0, <1>1, <1>2 DEF EventOK, Follows
<1> QED
  BY <1>1, <1>3, <1>4

\* The state the journal gives, after an append.
LEMMA StateAfterAppend ==
  ASSUME journal \in Seq(Event), NEW e \in Event, Follows(e), journal' = Append(journal, e),
         NEW n \in Nat, n = Len(journal)
  PROVE  /\ \A i \in 0 .. n : StateAfter(i)' = StateAfter(i)
         /\ StateAfter(n + 1)' = EventState(e)
<1>1. \A i \in 0 .. n : StateAfter(i)' = StateAfter(i)
  BY SeenAfterAppend DEF StateAfter
<1>2. journal = <<>> => \A t : ~ Seen(t, n)
  BY DEF Seen
<1>3. StateAfter(n + 1)' = EventState(e)
  BY <1>2, SeenAfterAppend DEF StateAfter, EventState, Follows
<1> QED
  BY <1>1, <1>3

\* The state the journal gives, one event further into a replay.
LEMMA StateAlongJournal ==
  ASSUME journal \in Seq(Event), OneLife, NEW p \in DOMAIN journal
  PROVE  /\ journal[p].type = "GraphCreated"     => StateAfter(p) = "initial"
         /\ journal[p].type = "GraphCommitted"   => StateAfter(p) = "committed"
         /\ journal[p].type = "GraphTerminating" => StateAfter(p) = "terminating"
         /\ journal[p].type = "GraphCompleted"   => StateAfter(p) = "completed"
         /\ journal[p].type \notin LifecycleType => StateAfter(p) = StateAfter(p - 1)
<1>1. DOMAIN journal = 1 .. Len(journal) /\ Len(journal) \in Nat
  BY LenProperties
<1>2. \A t : Seen(t, p) <=> Seen(t, p - 1) \/ journal[p].type = t
  BY <1>1 DEF Seen
<1>3. ASSUME NEW t \in LifecycleType, Seen(t, p), journal[p].type \in LifecycleType,
             t # journal[p].type
      PROVE  LifecycleOrder[t] < LifecycleOrder[journal[p].type]
  <2>1. PICK i \in DOMAIN journal : i <= p /\ journal[i].type = t
    BY <1>3 DEF Seen
  <2>2. i < p
    BY <1>1, <1>3, <2>1
  <2> QED
    BY <1>3, <2>1, <2>2 DEF OneLife
<1>4. \A t \in LifecycleType : journal[p].type = t => Seen(t, p)
  BY <1>2
<1>5. CASE journal[p].type \in LifecycleType
  BY <1>3, <1>4, <1>5 DEF StateAfter, LifecycleType, LifecycleOrder
<1>6. CASE journal[p].type \notin LifecycleType
  BY <1>2, <1>6 DEF StateAfter, LifecycleType
<1> QED
  BY <1>5, <1>6 DEF LifecycleType

\* The stages added, one event further into a replay.
LEMMA AddedAlongJournal ==
  ASSUME journal \in Seq(Event), NEW p \in DOMAIN journal
  PROVE  AddedBefore(p + 1) =
           AddedBefore(p) \union (IF journal[p].type = "StageAdded" THEN {journal[p].stage} ELSE {})
<1>1. DOMAIN journal = 1 .. Len(journal) /\ Len(journal) \in Nat
  BY LenProperties
<1>2. ASSUME NEW s
      PROVE  s \in AddedBefore(p + 1) <=>
               s \in AddedBefore(p) \/ (journal[p].type = "StageAdded" /\ s = journal[p].stage)
  BY <1>1 DEF AddedBefore, Positions
<1> QED
  BY <1>2

-----------------------------------------------------------------------------
(***************************************************************************)
(* Rows written during a replay, which sort with the event being replayed. *)
(***************************************************************************)

\* Where the rows of the journal are after an insertion at p.
LEMMA JournalInsert ==
  ASSUME journal \in Seq(Event), NEW e \in Event, NEW n \in Nat, n = Len(journal),
         NEW p \in 1 .. n + 1, journal' = InsertAt(p, e)
  PROVE  /\ DOMAIN journal = 1 .. n /\ DOMAIN journal' = 1 .. n + 1
         /\ journal' \in Seq(Event) /\ Len(journal') = n + 1
         /\ \A i \in 1 .. n : i < p => journal'[i] = journal[i]
         /\ journal'[p] = e
         /\ \A i \in 1 .. n : i >= p => journal'[i + 1] = journal[i]
         /\ \A i \in 1 .. n + 1 : i > p => i - 1 \in 1 .. n /\ journal'[i] = journal[i - 1]
<1>1. DOMAIN journal = 1 .. n /\ \A i \in 1 .. n : journal[i] \in Event
  BY LenProperties, ElementOfSeq
<1>2. /\ DOMAIN journal' = 1 .. n + 1
      /\ \A i \in 1 .. n + 1 :
           journal'[i] = IF i < p THEN journal[i] ELSE IF i = p THEN e ELSE journal[i - 1]
  BY DEF InsertAt
<1>3. \A i \in 1 .. n + 1 : journal'[i] \in Event
  BY <1>1, <1>2
<1>4. journal' \in [1 .. n + 1 -> Event]
  BY <1>3 DEF InsertAt
<1>5. journal' \in Seq(Event) /\ Len(journal') = n + 1
  BY <1>4, LenProperties
<1> QED
  BY <1>1, <1>2, <1>5

\* The stages added and the lifecycle state are those of the rows, moved by one
\* after the insertion.
LEMMA AlongInsert ==
  ASSUME journal \in Seq(Event), NEW e \in Event, NEW n \in Nat, n = Len(journal),
         NEW p \in 1 .. n + 1, journal' = InsertAt(p, e),
         e.type \notin LifecycleType \union {"StageAdded"}
  PROVE  /\ \A k \in 1 .. p : AddedBefore(k)' = AddedBefore(k)
         /\ \A k \in p .. n + 1 : AddedBefore(k + 1)' = AddedBefore(k)
         /\ \A k \in p - 1 .. n : StateAfter(k + 1)' = StateAfter(k)
         /\ \A t \in LifecycleType, k \in 1 .. p : Before(t, k)' <=> Before(t, k)
         /\ \A t \in LifecycleType, k \in p .. n : Before(t, k + 1)' <=> Before(t, k)
<1>a. /\ DOMAIN journal = 1 .. n /\ DOMAIN journal' = 1 .. n + 1
      /\ \A i \in 1 .. n : i < p => journal'[i] = journal[i]
      /\ journal'[p] = e
      /\ \A i \in 1 .. n : i >= p => journal'[i + 1] = journal[i]
      /\ \A i \in 1 .. n + 1 : i > p => i - 1 \in 1 .. n /\ journal'[i] = journal[i - 1]
  BY JournalInsert
<1>b. \A k \in Int : \A s : s \in AddedBefore(k) <=>
        \E j \in 1 .. n : j < k /\ journal[j].type = "StageAdded" /\ s = journal[j].stage
  BY <1>a DEF AddedBefore, Positions
<1>c. \A k \in Int : \A s : s \in AddedBefore(k)' <=>
        \E j \in 1 .. n + 1 : j < k /\ journal'[j].type = "StageAdded" /\ s = journal'[j].stage
  BY <1>a DEF AddedBefore, Positions
<1>d. \A t : \A k \in Int : Seen(t, k) <=> \E j \in 1 .. n : j <= k /\ journal[j].type = t
  BY <1>a DEF Seen
<1>e. \A t : \A k \in Int : Seen(t, k)' <=> \E j \in 1 .. n + 1 : j <= k /\ journal'[j].type = t
  BY <1>a DEF Seen
<1>1. ASSUME NEW k \in 1 .. p
      PROVE  AddedBefore(k)' = AddedBefore(k)
  BY <1>a DEF AddedBefore, Positions
<1>2. ASSUME NEW k \in p .. n + 1
      PROVE  AddedBefore(k + 1)' = AddedBefore(k)
  <2>1. ASSUME NEW s \in AddedBefore(k + 1)' PROVE s \in AddedBefore(k)
    <3>1. PICK j \in 1 .. n + 1 : j < k + 1 /\ journal'[j].type = "StageAdded" /\ s = journal'[j].stage
      BY <1>c, <2>1
    <3>2. j # p
      BY <1>a, <3>1
    <3>3. CASE j < p
      <4>1. j \in 1 .. n /\ journal'[j] = journal[j] /\ j < k
        BY <1>a, <3>1, <3>3
      <4> QED
        BY <1>b, <3>1, <4>1
    <3>4. CASE j > p
      <4>1. j - 1 \in 1 .. n /\ journal'[j] = journal[j - 1] /\ j - 1 < k
        BY <1>a, <3>1, <3>4
      <4> QED
        BY <1>b, <3>1, <4>1
    <3> QED
      BY <3>2, <3>3, <3>4
  <2>2. ASSUME NEW s \in AddedBefore(k) PROVE s \in AddedBefore(k + 1)'
    <3>1. PICK j \in 1 .. n : j < k /\ journal[j].type = "StageAdded" /\ s = journal[j].stage
      BY <1>b, <2>2
    <3>2. CASE j < p
      <4>1. j \in 1 .. n + 1 /\ j < k + 1 /\ journal'[j] = journal[j]
        BY <1>a, <3>1, <3>2
      <4> QED
        BY <1>c, <3>1, <4>1
    <3>3. CASE j >= p
      <4>1. j + 1 \in 1 .. n + 1 /\ j + 1 < k + 1 /\ journal'[j + 1] = journal[j]
        BY <1>a, <3>1, <3>3
      <4> QED
        BY <1>c, <3>1, <4>1
    <3> QED
      BY <3>2, <3>3
  <2> QED
    BY ONLY <2>1, <2>2, Zenon
<1>3. ASSUME NEW t \in LifecycleType, NEW k \in p - 1 .. n
      PROVE  Seen(t, k + 1)' <=> Seen(t, k)
  <2>1. ASSUME Seen(t, k + 1)' PROVE Seen(t, k)
    <3>1. PICK j \in 1 .. n + 1 : j <= k + 1 /\ journal'[j].type = t
      BY <1>e, <2>1
    <3>2. j # p
      BY <1>a, <3>1
    <3>3. CASE j < p
      <4>1. j \in 1 .. n /\ journal'[j] = journal[j] /\ j <= k
        BY <1>a, <3>1, <3>3
      <4> QED
        BY <1>d, <3>1, <4>1
    <3>4. CASE j > p
      <4>1. j - 1 \in 1 .. n /\ journal'[j] = journal[j - 1] /\ j - 1 <= k
        BY <1>a, <3>1, <3>4
      <4> QED
        BY <1>d, <3>1, <4>1
    <3> QED
      BY <1>a, <3>2, <3>3, <3>4
  <2>2. ASSUME Seen(t, k) PROVE Seen(t, k + 1)'
    <3>1. PICK j \in 1 .. n : j <= k /\ journal[j].type = t
      BY <1>d, <2>2
    <3>2. \E i \in 1 .. n + 1 : i <= k + 1 /\ journal'[i] = journal[j]
      <4>1. CASE j < p
        BY <1>a, <3>1, <4>1
      <4>2. CASE j >= p
        BY <1>a, <3>1, <4>2
      <4> QED
        BY <1>a, <4>1, <4>2
    <3> QED
      BY <1>e, <3>1, <3>2
  <2> QED
    BY <1>a, <2>1, <2>2
<1>4. ASSUME NEW k \in p - 1 .. n
      PROVE  StateAfter(k + 1)' = StateAfter(k)
  BY <1>3 DEF StateAfter, LifecycleType
<1>5. ASSUME NEW t \in LifecycleType, NEW k \in 1 .. p
      PROVE  Before(t, k)' <=> Before(t, k)
  BY <1>a DEF Before, Positions
<1>6. ASSUME NEW t \in LifecycleType, NEW k \in p .. n
      PROVE  Before(t, k + 1)' <=> Before(t, k)
  <2>1. Before(t, k) <=> Seen(t, k - 1)
    BY <1>a DEF Before, Positions, Seen
  <2>2. Before(t, k + 1)' <=> Seen(t, k)'
    BY <1>a DEF Before, Positions, Seen
  <2>3. PICK m \in p - 1 .. n : m = k - 1 /\ m + 1 = k
    OBVIOUS
  <2> QED
    BY <1>3, <2>1, <2>2, <2>3
<1> QED
  BY <1>1, <1>2, <1>4, <1>5, <1>6

\* Inserting the progress of a known stage, not at the front, keeps one life.
LEMMA InsertKeepsOneLife ==
  ASSUME journal \in Seq(Event), NEW e \in Event, NEW n \in Nat, n = Len(journal),
         NEW p \in 1 .. n + 1, p > 1, journal' = InsertAt(p, e),
         e.type \notin LifecycleType \union {"StageAdded"}, OneLife
  PROVE  OneLife'
<1> DEFINE old(i) == IF i < p THEN i ELSE i - 1
<1>1. /\ DOMAIN journal = 1 .. n /\ DOMAIN journal' = 1 .. n + 1 /\ journal'[p] = e
      /\ \A i \in 1 .. n + 1 : i # p => old(i) \in 1 .. n /\ journal'[i] = journal[old(i)]
  BY JournalInsert
<1>2. \A i, j \in 1 .. n + 1 : i # p /\ j # p /\ i < j => old(i) < old(j)
  OBVIOUS
<1>3. \A i \in 1 .. n + 1 : i # p => (i = 1 <=> old(i) = 1)
  OBVIOUS
<1>4. ASSUME NEW t \in LifecycleType, NEW i \in 1 .. n + 1, i # p
      PROVE  Before(t, i)' <=> Before(t, old(i))
  <2>1. CASE i < p
    <3>1. i \in 1 .. p /\ old(i) = i
      BY <2>1
    <3> QED
      BY <3>1, AlongInsert
  <2>2. CASE i > p
    <3>1. PICK k \in p .. n : k = old(i) /\ i = k + 1
      BY <2>2
    <3>2. Before(t, k + 1)' <=> Before(t, k)
      BY AlongInsert
    <3> QED
      BY <3>1, <3>2
  <2> QED
    BY <1>4, <2>1, <2>2
<1> HIDE DEF old
<1>5. ASSUME NEW i \in DOMAIN journal', NEW j \in DOMAIN journal', i < j,
             journal'[i].type \in LifecycleType, journal'[j].type \in LifecycleType
      PROVE  LifecycleOrder[journal'[i].type] < LifecycleOrder[journal'[j].type]
  <2>1. i # p /\ j # p /\ i \in 1 .. n + 1 /\ j \in 1 .. n + 1
    BY <1>1, <1>5
  <2>2. /\ old(i) \in 1 .. n /\ old(j) \in 1 .. n /\ old(i) < old(j)
        /\ journal'[i] = journal[old(i)] /\ journal'[j] = journal[old(j)]
    BY <1>1, <1>2, <1>5, <2>1
  <2> QED
    BY <1>1, <1>5, <2>2 DEF OneLife
<1>6. ASSUME NEW i \in DOMAIN journal'
      PROVE  /\ i = 1 <=> journal'[i].type = "GraphCreated"
             /\ journal'[i].type = "GraphTerminating" => Before("GraphCommitted", i)'
             /\ journal'[i].type = "GraphCompleted" => Before("GraphTerminating", i)'
             /\ journal'[i].type = "StageAdded" => ~ Before("GraphTerminating", i)'
  <2>1. CASE i = p
    BY <1>1, <2>1 DEF LifecycleType
  <2>2. CASE i # p
    <3>1. i \in 1 .. n + 1 /\ old(i) \in DOMAIN journal /\ journal'[i] = journal[old(i)]
      BY <1>1, <1>6, <2>2
    <3>2. i = 1 <=> old(i) = 1
      BY <1>3, <2>2, <3>1
    <3>3. \A t \in LifecycleType : Before(t, i)' <=> Before(t, old(i))
      BY <1>4, <2>2, <3>1
    <3> QED
      BY <3>1, <3>2, <3>3 DEF OneLife, LifecycleType
  <2> QED
    BY <2>1, <2>2
<1> QED
  BY <1>5, <1>6 DEF OneLife

\* It also keeps the events of the journal well formed.
LEMMA InsertKeepsEvents ==
  ASSUME journal \in Seq(Event), NEW e \in Event, NEW n \in Nat, n = Len(journal),
         NEW p \in 1 .. n + 1, journal' = InsertAt(p, e),
         e.type \notin LifecycleType \union {"StageAdded"},
         e.stage \in AddedBefore(p), e.type = "StageComposed" => e.inner \in AddedBefore(p),
         \A i \in DOMAIN journal : EventOK(i)
  PROVE  (\A i \in DOMAIN journal : EventOK(i))'
<1>1. /\ DOMAIN journal = 1 .. n /\ DOMAIN journal' = 1 .. n + 1 /\ journal'[p] = e
      /\ \A i \in 1 .. n : i < p => journal'[i] = journal[i]
      /\ \A i \in 1 .. n + 1 : i > p => i - 1 \in 1 .. n /\ journal'[i] = journal[i - 1]
  BY JournalInsert
<1>2. /\ \A k \in 1 .. p : AddedBefore(k)' = AddedBefore(k)
      /\ \A k \in p .. n + 1 : AddedBefore(k + 1)' = AddedBefore(k)
  BY AlongInsert
<1>3. ASSUME NEW i \in 1 .. n + 1
      PROVE  EventOK(i)'
  <2>1. CASE i < p
    <3>1. /\ i \in 1 .. p /\ i \in DOMAIN journal /\ journal'[i] = journal[i]
          /\ AddedBefore(i)' = AddedBefore(i)
      BY <1>1, <1>2, <2>1
    <3>2. EventOK(i)
      BY <3>1
    <3> QED
      BY <3>1, <3>2 DEF EventOK
  <2>2. CASE i = p
    <3>1. p \in 1 .. p /\ journal'[i] = e /\ AddedBefore(i)' = AddedBefore(p)
      BY <1>1, <1>2, <2>2
    <3> QED
      BY <3>1 DEF EventOK, LifecycleType
  <2>3. CASE i > p
    <3>1. PICK k \in p .. n : i = k + 1 /\ k = i - 1
      BY <2>3
    <3>2. /\ k \in DOMAIN journal /\ journal'[i] = journal[k]
          /\ AddedBefore(i)' = AddedBefore(k)
      BY <1>1, <1>2, <2>3, <3>1
    <3>3. EventOK(k)
      BY <3>2
    <3> QED
      BY <3>2, <3>3 DEF EventOK
  <2> QED
    BY <2>1, <2>2, <2>3
<1> QED
  BY <1>1, <1>3
=============================================================================
