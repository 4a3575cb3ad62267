----------------------------- MODULE JournalStream -----------------------------
(***************************************************************************)
(* One subscriber of the event streams of a node: the publishing provider  *)
(* (persistence/streaming.go), the subscription that first reads a journal *)
(* and then follows it, and the gRPC handlers StreamEvents and             *)
(* StreamLifecycle (actor/api.go) with their bounded channel, their        *)
(* consumer goroutine and their clean-up.  Two actors persist events while *)
(* the subscriber comes and goes: a graph and its supervisor.              *)
(***************************************************************************)
EXTENDS Integers, Sequences, SequencesExt

CONSTANTS
    Provider,    \* the wrapped provider: "inmem" or "sql"
    Modes,       \* the handlers considered: "events", "lifecycle"
    FromIndexes, \* values of StreamGraphRequest.FromSeq
    BufferSize,  \* eventBufferSize
    MaxEvents    \* bound on the events each actor persists

ASSUME StreamAssumption ==
    /\ Provider \in {"inmem", "sql"} /\ Modes \subseteq {"events", "lifecycle"}
    /\ FromIndexes \subseteq Nat /\ BufferSize \in Nat \ {0} /\ MaxEvents \in Nat

Actors == {"graph", "supervisor"}

VARIABLES
    mode,        \* which handler the client called
    from,        \* fromIndex
    stored,      \* number of persisted events of each actor
    publishing,  \* actors between PersistEvent of the provider and Publish
    handler,     \* where the handler is
    predicate,   \* the subscription has its predicate
    subscribed,  \* the stream holds the subscription
    buffered,    \* bufferedSub.bufferedEvents
    highest,     \* bufferedSub.highestIndex
    committed,   \* bufferedSub.committed
    replay,      \* events of the journal read not yet passed on
    channel,     \* eventsChan
    closed,      \* close(eventsChan) was called
    done,        \* the done channel, of capacity one
    consumer,    \* where the consumer goroutine of StreamEvents is
    dropped,     \* an event did not fit into the channel
    client,      \* "open", or "closed" when the client has gone away
    received,    \* what the client received
    panics       \* panics in the goroutine of a publisher

vars == << mode, from, stored, publishing, handler, predicate, subscribed, buffered, highest,
           committed, replay, channel, closed, done, consumer, dropped, client, received, panics >>

subscriptionVars == << predicate, subscribed, buffered, highest, committed >>
channelVars == << channel, done, dropped, panics >>
clientVars == << client, received >>

-----------------------------------------------------------------------------
(***************************************************************************)
(* Events.  An event is known by its actor and its place in the journal;   *)
(* index is the EventIndex that the subscriber is told.                    *)
(***************************************************************************)

Event(actor, place, index) == [actor |-> actor, place |-> place, index |-> index]

\* What happens to the graph: it is created, changes, and completes.  The
\* supervisor persists only that it was created and that it completed.
Kind(e) ==
    CASE e.place = 0                                        -> "created"
      [] e.actor = "supervisor" \/ e.place = MaxEvents - 1  -> "completed"
      [] OTHER                                              -> "stage"

\* isGraphLifecycleEvent: of a graph actor, whose name holds a "/".
LifecycleSource(e) == Kind(e) \in {"created", "completed"}

isGraphLifecycleEvent(e) == LifecycleSource(e) /\ e.actor = "graph"

\* The predicate of the subscription.
Matches(e) ==
    IF mode = "lifecycle" THEN isGraphLifecycleEvent(e)
    ELSE e.actor = "graph" /\ e.index >= from

\* ToGraphStreamEvent and GraphLifecycleEvent: the sequence number the client
\* sees is the EventIndex.
ToGraphStreamEvent(e) == [actor |-> e.actor, place |-> e.place, seq |-> e.index]

\* GetEvents of the in-memory provider counts from the start of the slice.
GetEvents_Relative(start) ==
    [i \in 1..(IF start >= stored["graph"] THEN 0 ELSE stored["graph"] - start) |->
        Event("graph", start + i - 1, i - 1)]

\* GetEvents(start, callback): the events, and the index each is given.
GetEvents(start) ==
    [i \in 1..(IF start >= stored["graph"] THEN 0 ELSE stored["graph"] - start) |->
        Event("graph", start + i - 1, IF Provider = "inmem" THEN i - 1 ELSE start + i - 1)]

Init ==
    /\ mode \in Modes
    /\ from \in IF mode = "events" THEN FromIndexes ELSE {0}
    /\ stored = [a \in Actors |-> 0]
    /\ publishing = {}
    /\ handler = "start"
    /\ predicate = FALSE
    /\ subscribed = FALSE
    /\ buffered = <<>>
    /\ highest = -1
    /\ committed = FALSE
    /\ replay = <<>>
    /\ channel = <<>>
    /\ closed = FALSE
    /\ done = <<>>
    /\ consumer = "loop"
    /\ dropped = FALSE
    /\ client = "open"
    /\ received = <<>>
    /\ panics = {}

-----------------------------------------------------------------------------
(***************************************************************************)
(* The callbacks.                                                          *)
(***************************************************************************)

MarkDone(err) == IF done = <<>> THEN << err >> ELSE done

Callback_Silent(e) ==
    IF closed THEN /\ panics' = panics \union {"send on closed channel"}
                   /\ UNCHANGED << channel, done, dropped >>
    ELSE IF Len(channel) < BufferSize
         THEN /\ channel' = Append(channel, ToGraphStreamEvent(e))
              /\ UNCHANGED << done, dropped, panics >>
         ELSE /\ dropped' = TRUE
              /\ UNCHANGED << channel, done, panics >>

\* The function the handlers pass on: never blocks the publisher.  StreamEvents
\* marks the stream for closing when its channel is full, StreamLifecycle skips
\* the event, and asserts that it is a lifecycle event.
Callback(e) ==
    IF mode = "lifecycle" /\ ~ LifecycleSource(e)
    THEN /\ panics' = panics \union {"type assertion"}
         /\ UNCHANGED << channel, done, dropped >>
    ELSE IF closed
    THEN /\ panics' = panics \union {"send on closed channel"}
         /\ UNCHANGED << channel, done, dropped >>
    ELSE IF Len(channel) < BufferSize
    THEN /\ channel' = Append(channel, ToGraphStreamEvent(e))
         /\ UNCHANGED << done, dropped, panics >>
    ELSE /\ dropped' = TRUE
         /\ done' = IF mode = "events" THEN MarkDone("buffer size exceeded") ELSE done
         /\ UNCHANGED << channel, panics >>

OnPublish_Unbuffered(e) ==
    /\ IF mode = "events" /\ e.index <= highest THEN UNCHANGED channelVars ELSE Callback(e)
    /\ UNCHANGED buffered

\* The subscription of SubscribeActorJournal buffers until the journal is read,
\* then skips indexes that are not above highestIndex; that of StreamNewEvents
\* calls back at once.
OnPublish(e) ==
    IF mode = "events" /\ ~ committed
    THEN /\ buffered' = Append(buffered, e)
         /\ UNCHANGED channelVars
    ELSE /\ IF mode = "events" /\ e.index <= highest THEN UNCHANGED channelVars ELSE Callback(e)
         /\ UNCHANGED buffered

-----------------------------------------------------------------------------
(***************************************************************************)
(* The publishers: streamingProviderState.PersistEvent.                    *)
(***************************************************************************)

PersistEvent(a) ==
    /\ stored[a] < (IF a = "graph" THEN MaxEvents ELSE 2)
    /\ a \notin publishing
    /\ stored' = [stored EXCEPT ![a] = @ + 1]
    /\ publishing' = publishing \union {a}
    /\ UNCHANGED << mode, from, handler, subscriptionVars, replay, closed, consumer,
                    channelVars, clientVars >>

\* A subscription without a predicate gets every event of every actor.  The
\* publisher waits for the lock of a subscription that is being committed.
Publish(a) ==
    /\ a \in publishing
    /\ handler # "flushing"
    /\ publishing' = publishing \ {a}
    /\ LET e == Event(a, stored[a] - 1, stored[a] - 1)
       IN  IF subscribed /\ (predicate => Matches(e)) THEN OnPublish(e)
           ELSE UNCHANGED << buffered, channelVars >>
    /\ UNCHANGED << mode, from, stored, handler, predicate, subscribed, highest, committed,
                    replay, closed, consumer, clientVars >>

-----------------------------------------------------------------------------
(***************************************************************************)
(* The subscriber.                                                         *)
(***************************************************************************)

HandlerStep(old, new) == handler = old /\ handler' = new

Subscribe ==
    /\ HandlerStep("start", "subscribed")
    /\ subscribed' = TRUE
    /\ UNCHANGED << mode, from, stored, publishing, predicate, buffered, highest, committed,
                    replay, closed, consumer, channelVars, clientVars >>

WithPredicate ==
    /\ HandlerStep("subscribed", IF mode = "lifecycle" THEN "streaming" ELSE "filtered")
    /\ predicate' = TRUE
    /\ UNCHANGED << mode, from, stored, publishing, subscribed, buffered, highest, committed,
                    replay, closed, consumer, channelVars, clientVars >>

\* GetEvents reads what is stored at this moment.
ReadJournal ==
    /\ HandlerStep("filtered", "replaying")
    /\ replay' = GetEvents(from)
    /\ UNCHANGED << mode, from, stored, publishing, subscriptionVars, closed, consumer,
                    channelVars, clientVars >>

ReplayJournal ==
    /\ handler = "replaying" /\ replay # <<>>
    /\ Callback(Head(replay))
    /\ replay' = Tail(replay)
    /\ highest' = from
    /\ UNCHANGED << mode, from, stored, publishing, handler, predicate, subscribed, buffered,
                    committed, closed, consumer, clientVars >>

\* buffer.lock.Lock() for the commit.
LockBuffer ==
    /\ handler = "replaying" /\ replay = <<>>
    /\ handler' = "flushing"
    /\ UNCHANGED << mode, from, stored, publishing, subscriptionVars, replay, closed, consumer,
                    channelVars, clientVars >>

CommitBuffer_NoFlush ==
    /\ HandlerStep("flushing", "streaming")
    /\ committed' = TRUE
    /\ buffered' = <<>>
    /\ UNCHANGED << mode, from, stored, publishing, predicate, subscribed, highest, replay,
                    closed, consumer, channelVars, clientVars >>

\* The buffered events, all of them, are passed on under the lock.
CommitBuffer ==
    /\ handler = "flushing"
    /\ IF buffered = <<>>
       THEN /\ committed' = TRUE
            /\ handler' = "streaming"
            /\ UNCHANGED << buffered, channelVars >>
       ELSE /\ Callback(Head(buffered))
            /\ buffered' = Tail(buffered)
            /\ UNCHANGED << committed, handler >>
    /\ UNCHANGED << mode, from, stored, publishing, predicate, subscribed, highest, replay,
                    closed, consumer, clientVars >>

\* Whoever sends on the stream: the send fails once the client has gone or the
\* handler has returned.
ContextDone == client = "closed" \/ handler = "returned"

Send == IF ContextDone THEN UNCHANGED received
        ELSE received' = Append(received, Head(channel))

\* StreamLifecycle is its own consumer: it sends events until the client has
\* gone or a send fails.
StreamLifecycle ==
    /\ mode = "lifecycle" /\ handler = "streaming"
    /\ \/ /\ client = "closed"
          /\ handler' = "returning"
          /\ UNCHANGED << channel, received >>
       \/ /\ channel # <<>>
          /\ channel' = Tail(channel)
          /\ Send
          /\ handler' = IF ContextDone THEN "returning" ELSE handler
    /\ UNCHANGED << mode, from, stored, publishing, subscriptionVars, replay, closed, consumer,
                    done, dropped, panics, client >>

\* return <-done of StreamEvents.
AwaitDone ==
    /\ mode = "events" /\ HandlerStep("streaming", "returning")
    /\ done # <<>>
    /\ done' = <<>>
    /\ UNCHANGED << mode, from, stored, publishing, subscriptionVars, replay, closed, consumer,
                    channel, dropped, panics, clientVars >>

UnsubscribeStream_AfterClose ==
    /\ HandlerStep("returning", "unsubscribed")
    /\ closed' = TRUE
    /\ UNCHANGED << mode, from, stored, publishing, subscriptionVars, replay, consumer,
                    channelVars, clientVars >>

\* The deferred calls, last first: unsubscribe, then close the channel.
UnsubscribeStream ==
    /\ HandlerStep("returning", "unsubscribed")
    /\ subscribed' = FALSE
    /\ UNCHANGED << mode, from, stored, publishing, predicate, buffered, highest, committed,
                    replay, closed, consumer, channelVars, clientVars >>

CloseChannel ==
    /\ HandlerStep("unsubscribed", "returned")
    /\ closed' = TRUE
    /\ UNCHANGED << mode, from, stored, publishing, subscriptionVars, replay, consumer,
                    channelVars, clientVars >>

-----------------------------------------------------------------------------
(***************************************************************************)
(* The consumer goroutine of StreamEvents, and the client.                 *)
(***************************************************************************)

\* select: the stream was marked for closing, the client has gone, an event, or
\* the nil of a closed channel, which cannot be sent.
Consume ==
    /\ mode = "events" /\ consumer = "loop"
    /\ \/ /\ done # <<>>
          /\ done' = <<>>
          /\ consumer' = Head(done)
          /\ UNCHANGED << channel, received >>
       \/ /\ ContextDone
          /\ consumer' = "client closed"
          /\ UNCHANGED << channel, done, received >>
       \/ /\ channel # <<>>
          /\ channel' = Tail(channel)
          /\ Send
          /\ consumer' = IF ContextDone THEN "send failed" ELSE consumer
          /\ UNCHANGED done
       \/ /\ closed /\ channel = <<>>
          /\ consumer' = "send failed"
          /\ UNCHANGED << channel, done, received >>
    /\ UNCHANGED << mode, from, stored, publishing, handler, subscriptionVars, replay, closed,
                    dropped, panics, client >>

MarkForClosing_Lost ==
    /\ mode = "events" /\ consumer \notin {"loop", "exited"}
    /\ consumer' = "exited"
    /\ done' = IF consumer = "client closed" THEN done ELSE MarkDone(consumer)
    /\ UNCHANGED << mode, from, stored, publishing, handler, subscriptionVars, replay, closed,
                    channel, dropped, panics, clientVars >>

\* After the loop: done <- err, unless the stream is marked already.
MarkForClosing ==
    /\ mode = "events" /\ consumer \notin {"loop", "exited"}
    /\ consumer' = "exited"
    /\ done' = MarkDone(consumer)
    /\ UNCHANGED << mode, from, stored, publishing, handler, subscriptionVars, replay, closed,
                    channel, dropped, panics, clientVars >>

ClientCloses ==
    /\ client = "open"
    /\ client' = "closed"
    /\ UNCHANGED << mode, from, stored, publishing, handler, subscriptionVars, replay, closed,
                    consumer, channelVars, received >>

Handle ==
    \/ Subscribe
    \/ WithPredicate
    \/ ReadJournal
    \/ ReplayJournal
    \/ LockBuffer
    \/ CommitBuffer
    \/ StreamLifecycle
    \/ AwaitDone
    \/ UnsubscribeStream
    \/ CloseChannel

Next ==
    \/ \E a \in Actors : PersistEvent(a) \/ Publish(a)
    \/ Handle
    \/ Consume
    \/ MarkForClosing
    \/ ClientCloses

Spec == Init /\ [][Next]_vars

\* The goroutines are scheduled.  Nothing makes a client close its stream, or
\* an actor persist an event.
Fairness ==
    /\ \A a \in Actors : WF_vars(Publish(a))
    /\ WF_vars(Handle)
    /\ WF_vars(Consume)
    /\ WF_vars(MarkForClosing)

FairSpec == Spec /\ Fairness

-----------------------------------------------------------------------------
(***************************************************************************)
(* Properties.                                                             *)
(***************************************************************************)

Delivered == received \o channel

Published(a) == stored[a] - (IF a \in publishing THEN 1 ELSE 0)

\* Once SubscribeActorJournal has committed its buffer, a stream that is not
\* about to end has passed on every event from fromIndex on that was published:
\* those stored before it subscribed, those published while the journal was read
\* and those since.
NothingSkipped ==
    mode = "events" /\ handler = "streaming" /\ consumer = "loop" /\ ~ dropped =>
        \A i \in from..(Published("graph") - 1) :
            \E k \in DOMAIN Delivered : Delivered[k].actor = "graph" /\ Delivered[k].place = i

FirstSeen(e, k) == \A j \in 1..(k - 1) : received[j] # e

\* Events that are both replayed and buffered are delivered twice, since the
\* buffer is passed on whole.  Nevertheless the graph's events from fromIndex on
\* reach the client of StreamEvents for the first time in the order of the
\* journal: no event overtakes the replay, the buffer or the commit.
FirstSeenInOrder ==
    \A j, k \in DOMAIN received :
        /\ j < k
        /\ received[j].actor = "graph" /\ received[k].actor = "graph"
        /\ received[j].place >= from /\ received[k].place >= from
        /\ FirstSeen(received[j], j) /\ FirstSeen(received[k], k)
        => received[j].place < received[k].place

\* Both handlers unsubscribe before they close their channel, so no actor that
\* persists an event is made to send on a closed channel.
NoSendOnClosed == "send on closed channel" \notin panics

\* The sequence number a client is told is the event's place in the journal, so
\* that asking again from the next one resumes the stream (sql provider).
SequenceNumbersTrue == \A k \in DOMAIN received : received[k].seq = received[k].place

\* A stream of StreamEvents that lost an event because its channel was full
\* ends: no client goes on reading a stream with a gap.
OverflowEndsStream == (mode = "events" /\ dropped) ~> (handler = "returned")

\* Once the client has gone, the handler returns, the subscription is given up
\* and the consumer goroutine ends, wherever each of them was.
ClosedStreamReleased ==
    (client = "closed") ~> (handler = "returned" /\ ~ subscribed
                              /\ (mode = "events" => consumer = "exited"))

=============================================================================
