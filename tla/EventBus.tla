------------------------------ MODULE EventBus ------------------------------
(***************************************************************************)
(* The fan-out bus of the arena process (services/arena/event_bus.py).     *)
(*                                                                         *)
(* Every producer of the arena calls publish; every consumer (an SSE       *)
(* response, the commentator) iterates over subscribe(), an asynchronous   *)
(* generator that owns a bounded queue.  The bus lock is only held around  *)
(* code that never awaits, so publish and the prologue of subscribe are    *)
(* one step each.                                                          *)
(*                                                                         *)
(* An event is identified by its position in the order of publication: the *)
(* n-th call of publish publishes the number n.                            *)
(***************************************************************************)
EXTENDS Integers, Sequences

CONSTANTS
  Subscribers,   \* calls of subscribe(); each is one generator
  Backlog,       \* maxlen of the replay deque (256 in the code)
  QueueSize,     \* maxsize of a subscriber's queue (512 in the code)
  MaxEvents      \* bound of the model: how many events are published

\* With a deque longer than a queue the replay in subscribe() would raise
\* QueueFull; the code has 256 <= 512.
ASSUME BusAssumption ==
  /\ Backlog \in Nat \ {0}
  /\ QueueSize \in Nat \ {0}
  /\ Backlog <= QueueSize
  /\ MaxEvents \in Nat

VARIABLES
  published,     \* how many events have been published
  backlog,       \* self._backlog
  registered,    \* self._subscribers: the generators whose queue is fed
  queue,         \* the queue each generator owns
  gen,           \* where each generator is
  got,           \* history: what each generator has yielded
  joined         \* history: how many events precede a generator's first one

vars == <<published, backlog, registered, queue, gen, got, joined>>

\* "new": not iterated yet.  "get": inside queue.get().  "yielded": suspended
\* at the yield, its consumer busy with an event.  "left": its consumer broke
\* out of the loop, the generator waits to be finalised.  "closed": finished.
GeneratorState == {"new", "get", "yielded", "left", "closed"}

Init ==
  /\ published = 0
  /\ backlog = <<>>
  /\ registered = {}
  /\ queue = [s \in Subscribers |-> <<>>]
  /\ gen = [s \in Subscribers |-> "new"]
  /\ got = [s \in Subscribers |-> <<>>]
  /\ joined = [s \in Subscribers |-> 0]

-----------------------------------------------------------------------------
\* Mutant: a full deque keeps its oldest elements instead.
DequeAppend_KeepsOldest(d, e) == IF Len(d) < Backlog THEN Append(d, e) ELSE d

\* deque(maxlen): appending to a full deque drops its oldest element.
DequeAppend(d, e) == IF Len(d) < Backlog THEN Append(d, e) ELSE Append(Tail(d), e)

\* Mutant: a queue takes one event more than its maxsize.
Full_Late == {s \in registered : Len(queue[s]) > QueueSize}

\* The queues for which put_nowait raises QueueFull.
Full == {s \in registered : Len(queue[s]) >= QueueSize}

\* Mutant: an event that does not fit is skipped, its subscriber is kept.
StillRegistered_All == registered

\* publish() discards the queues that were full.
StillRegistered == registered \ Full

Publish ==
  /\ published < MaxEvents
  /\ published' = published + 1
  /\ backlog' = DequeAppend(backlog, published + 1)
  /\ queue' = [s \in Subscribers |->
                 IF s \in registered \ Full
                 THEN Append(queue[s], published + 1)
                 ELSE queue[s]]
  /\ registered' = StillRegistered
  /\ UNCHANGED <<gen, got, joined>>

\* Mutant: the newest event of the deque is not replayed.
Replay_MissesNewest == SubSeq(backlog, 1, Len(backlog) - 1)

\* What subscribe() copies into the fresh queue.
Replay == backlog

\* The prologue of subscribe(): replay the deque, then join the fan-out.
Subscribe(s) ==
  /\ gen[s] = "new"
  /\ gen' = [gen EXCEPT ![s] = "get"]
  /\ queue' = [queue EXCEPT ![s] = Replay]
  /\ registered' = registered \cup {s}
  /\ joined' = [joined EXCEPT ![s] = published - Len(backlog)]
  /\ UNCHANGED <<published, backlog, got>>

\* Mutant: a generator stops reading as soon as it is discarded.
CanGet_Registered(s) == gen[s] = "get" /\ queue[s] # <<>> /\ s \in registered

\* queue.get() returns once the queue holds something, registered or not.
CanGet(s) == gen[s] = "get" /\ queue[s] # <<>>

Get(s) ==
  /\ CanGet(s)
  /\ got' = [got EXCEPT ![s] = Append(@, Head(queue[s]))]
  /\ queue' = [queue EXCEPT ![s] = Tail(@)]
  /\ gen' = [gen EXCEPT ![s] = "yielded"]
  /\ UNCHANGED <<published, backlog, registered, joined>>

\* The consumer is done with the event and asks for the next one.
Resume(s) ==
  /\ gen[s] = "yielded"
  /\ gen' = [gen EXCEPT ![s] = "get"]
  /\ UNCHANGED <<published, backlog, registered, queue, got, joined>>

\* The consumer breaks out of its loop (a disconnected SSE client): nothing is
\* closed yet, the queue is still fed.
Leave(s) ==
  /\ gen[s] = "yielded"
  /\ gen' = [gen EXCEPT ![s] = "left"]
  /\ UNCHANGED <<published, backlog, registered, queue, got, joined>>

\* Mutant: the generator ends without giving up its queue.
AfterFinally_Keeps(s) == registered

\* The finally block of subscribe().
AfterFinally(s) == registered \ {s}

End(s) ==
  /\ gen' = [gen EXCEPT ![s] = "closed"]
  /\ registered' = AfterFinally(s)
  /\ UNCHANGED <<published, backlog, queue, got, joined>>

\* The event loop's finaliser closes a generator that nobody iterates any more.
Finalise(s) == gen[s] = "left" /\ End(s)

\* The task that iterates is cancelled, waiting for an event or handling one.
Cancel(s) == gen[s] \in {"get", "yielded"} /\ End(s)

Next ==
  \/ Publish
  \/ \E s \in Subscribers :
       Subscribe(s) \/ Get(s) \/ Resume(s) \/ Leave(s) \/ Finalise(s) \/ Cancel(s)

\* The loop runs a generator whose get() can return and finalises one that was
\* dropped; a consumer comes back for the next event or leaves.  Nobody has to
\* publish, subscribe or cancel.
Fairness ==
  \A s \in Subscribers :
    WF_vars(Get(s)) /\ WF_vars(Resume(s) \/ Leave(s)) /\ WF_vars(Finalise(s))

Spec == Init /\ [][Next]_vars /\ Fairness

-----------------------------------------------------------------------------
\* Type correctness, with the two bounds the code relies on: the deque never
\* exceeds its maxlen, a queue never exceeds its maxsize.
TypeOK ==
  /\ published \in 0 .. MaxEvents
  /\ backlog \in Seq(Nat) /\ Len(backlog) <= Backlog
  /\ registered \subseteq Subscribers
  /\ queue \in [Subscribers -> Seq(Nat)]
  /\ \A s \in Subscribers : Len(queue[s]) <= QueueSize
  /\ gen \in [Subscribers -> GeneratorState]
  /\ got \in [Subscribers -> Seq(Nat)]
  /\ joined \in [Subscribers -> Nat]

\* The sequence q is the events base + 1, base + 2, ... in order.
Run(q, base) == \A i \in 1 .. Len(q) : q[i] = base + i

\* Everything a generator has taken out of the bus or still can.
Stream(s) == got[s] \o queue[s]

\* A stream is a run of consecutive events, in order, without gap or repeat:
\* being discarded cuts a stream off but never leaves a hole in it.
GapFree == \A s \in Subscribers : Run(Stream(s), joined[s])

\* While its queue is registered a generator misses nothing: its stream
\* reaches the newest event, whatever its speed.
UpToDate ==
  \A s \in registered : joined[s] + Len(got[s]) + Len(queue[s]) = published

\* The deque holds the newest events, so that a late subscriber starts at most
\* Backlog events behind and no further than the deque forces it to.
BacklogIsNewest ==
  /\ Run(backlog, published - Len(backlog))
  /\ Len(backlog) = Backlog \/ Len(backlog) = published

\* A generator that has not ended is discarded only by a publish that finds
\* QueueSize undelivered events in its queue.
DiscardedOnlyWhenFull ==
  [][\A s \in registered \ registered' :
       gen'[s] = "closed" \/ Len(queue[s]) = QueueSize]_vars

\* What entered a queue is yielded unless the consumer goes away, also after
\* the queue was discarded.
QueuedIsYielded ==
  \A s \in Subscribers :
    queue[s] # <<>> ~> (queue[s] = <<>> \/ gen[s] \in {"left", "closed"})

\* A queue is not fed forever on behalf of a consumer that broke out of its loop.
LeftIsForgotten == \A s \in Subscribers : gen[s] = "left" ~> s \notin registered

-----------------------------------------------------------------------------
\* The bus seen as a log with cursors.
cursor == [s \in Subscribers |-> joined[s] + Len(got[s])]
reach  == [s \in Subscribers |-> joined[s] + Len(got[s]) + Len(queue[s])]
role   == [s \in Subscribers |->
             CASE gen[s] = "new"       -> "absent"
               [] gen[s] = "closed"    -> "gone"
               [] s \in registered     -> "attached"
               [] OTHER                -> "cut"]

Log == INSTANCE BroadcastLog
         WITH Readers <- Subscribers, MaxReplay <- Backlog, MaxLag <- QueueSize,
              length <- published, pos <- cursor, end <- reach, reader <- role

\* The bus implements the log with cursors.
ImplementsLog == Log!Spec
=============================================================================
