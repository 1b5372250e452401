--------------------------- MODULE EventBus_proofs ---------------------------
(***************************************************************************)
(* Proofs about EventBus, for every number of subscribers, every deque and *)
(* queue size and every number of events.                                  *)
(***************************************************************************)
EXTENDS EventBus, SequenceTheorems, TLAPS

\* What a generator has yielded is a run of events, its queue continues it.
Runs ==
  \A s \in Subscribers :
    Run(got[s], joined[s]) /\ Run(queue[s], joined[s] + Len(got[s]))

\* A generator is fed only while it is iterated; before that it has nothing.
Phases ==
  /\ \A s \in registered : gen[s] \notin {"new", "closed"}
  /\ \A s \in Subscribers :
       gen[s] = "new" => got[s] = <<>> /\ queue[s] = <<>> /\ joined[s] = 0

\* The inductive invariant.
BusInv ==
  /\ TypeOK
  /\ BacklogIsNewest
  /\ Len(backlog) <= published
  /\ Phases
  /\ Runs
  /\ UpToDate

-----------------------------------------------------------------------------
\* Runs of events: one longer at the end, and without the first.
LEMMA RunAppend ==
  ASSUME NEW q \in Seq(Nat), NEW base \in Nat, NEW e \in Nat,
         Run(q, base), e = base + Len(q) + 1
  PROVE  /\ Append(q, e) \in Seq(Nat)
         /\ Len(Append(q, e)) = Len(q) + 1
         /\ Run(Append(q, e), base)
<1>1. /\ Append(q, e) \in Seq(Nat)
      /\ Len(Append(q, e)) = Len(q) + 1
      /\ Append(q, e)[Len(q) + 1] = e
      /\ \A i \in 1 .. Len(q) : Append(q, e)[i] = q[i]
  OBVIOUS
<1>2. ASSUME NEW i \in 1 .. Len(q) + 1
      PROVE  Append(q, e)[i] = base + i
  <2>1. CASE i = Len(q) + 1
    BY <1>1, <2>1
  <2>2. CASE i \in 1 .. Len(q)
    BY <1>1, <2>2 DEF Run
  <2>3. QED
    BY <2>1, <2>2
<1>3. QED
  BY <1>1, <1>2 DEF Run

LEMMA RunTail ==
  ASSUME NEW q \in Seq(Nat), NEW base \in Nat, q # <<>>, Run(q, base)
  PROVE  /\ Head(q) \in Nat
         /\ Head(q) = base + 1
         /\ Len(q) \in Nat \ {0}
         /\ Tail(q) \in Seq(Nat)
         /\ Len(Tail(q)) = Len(q) - 1
         /\ Run(Tail(q), base + 1)
<1>1. /\ Head(q) \in Nat
      /\ Head(q) = q[1]
      /\ Len(q) \in Nat \ {0}
      /\ Tail(q) \in Seq(Nat)
      /\ Len(Tail(q)) = Len(q) - 1
      /\ \A i \in 1 .. Len(q) - 1 : Tail(q)[i] = q[i + 1]
  OBVIOUS
<1>2. ASSUME NEW i \in 1 .. Len(q) - 1
      PROVE  Tail(q)[i] = base + 1 + i
  <2>1. i + 1 \in 1 .. Len(q) /\ i \in Nat
    BY <1>1
  <2>2. q[i + 1] = base + (i + 1)
    BY <2>1 DEF Run
  <2>3. QED
    BY <1>1, <2>1, <2>2
<1>3. QED
  BY <1>1, <1>2 DEF Run

\* The empty sequence is a run, wherever it starts.
LEMMA RunEmpty == \A base : Run(<<>>, base)
  BY DEF Run

\* A run followed by its continuation is a run.
LEMMA RunConcat ==
  ASSUME NEW p \in Seq(Nat), NEW q \in Seq(Nat), NEW base \in Nat,
         Run(p, base), Run(q, base + Len(p))
  PROVE  Run(p \o q, base)
<1>1. /\ Len(p) \in Nat /\ Len(q) \in Nat
      /\ Len(p \o q) = Len(p) + Len(q)
      /\ \A i \in 1 .. Len(p) + Len(q) :
           (p \o q)[i] = IF i <= Len(p) THEN p[i] ELSE q[i - Len(p)]
  BY ConcatProperties
<1>2. ASSUME NEW i \in 1 .. Len(p) + Len(q)
      PROVE  (p \o q)[i] = base + i
  <2>1. CASE i <= Len(p)
    BY <1>1, <2>1 DEF Run
  <2>2. CASE ~(i <= Len(p))
    <3>1. i - Len(p) \in 1 .. Len(q) /\ i \in Nat
      BY <1>1, <2>2
    <3>2. q[i - Len(p)] = base + Len(p) + (i - Len(p))
      BY <3>1 DEF Run
    <3>3. QED
      BY <1>1, <2>2, <3>1, <3>2
  <2>3. QED
    BY <2>1, <2>2
<1>3. QED
  BY <1>1, <1>2 DEF Run

\* The deque after an append holds the newest events again.
LEMMA DequeAppendRun ==
  ASSUME NEW n \in Nat, NEW b \in Seq(Nat),
         Run(b, n - Len(b)), Len(b) <= n, Len(b) <= Backlog
  PROVE  LET d == DequeAppend(b, n + 1)
         IN  /\ d \in Seq(Nat)
             /\ Len(d) = IF Len(b) < Backlog THEN Len(b) + 1 ELSE Backlog
             /\ Run(d, n + 1 - Len(d))
<1>0. /\ Backlog \in Nat \ {0} /\ Len(b) \in Nat /\ n + 1 \in Nat
      /\ n - Len(b) \in Nat /\ n - Len(b) + 1 \in Nat
  BY BusAssumption
<1>1. CASE Len(b) < Backlog
  <2>1. n + 1 = n - Len(b) + Len(b) + 1
    BY <1>0
  <2>2. /\ Append(b, n + 1) \in Seq(Nat)
        /\ Len(Append(b, n + 1)) = Len(b) + 1
        /\ Run(Append(b, n + 1), n - Len(b))
    BY <1>0, <2>1, RunAppend
  <2>3. n + 1 - (Len(b) + 1) = n - Len(b)
    BY <1>0
  <2>4. QED
    BY <1>1, <2>2, <2>3 DEF DequeAppend
<1>2. CASE ~(Len(b) < Backlog)
  <2>1. b # <<>> /\ Len(b) = Backlog
    BY <1>0, <1>2
  <2>2. /\ Tail(b) \in Seq(Nat)
        /\ Len(Tail(b)) = Len(b) - 1
        /\ Run(Tail(b), n - Len(b) + 1)
    BY <1>0, <2>1, RunTail
  <2>3. n + 1 = n - Len(b) + 1 + Len(Tail(b)) + 1
    BY <1>0, <2>2
  <2>4. /\ Append(Tail(b), n + 1) \in Seq(Nat)
        /\ Len(Append(Tail(b), n + 1)) = Len(Tail(b)) + 1
        /\ Run(Append(Tail(b), n + 1), n - Len(b) + 1)
    BY <1>0, <2>2, <2>3, RunAppend
  <2>5. n + 1 - Backlog = n - Len(b) + 1 /\ Len(Tail(b)) + 1 = Backlog
    BY <1>0, <2>1, <2>2
  <2>6. QED
    BY <1>2, <2>4, <2>5 DEF DequeAppend
<1>3. QED
  BY <1>1, <1>2

-----------------------------------------------------------------------------
LEMMA InitBusInv == Init => BusInv
<1> SUFFICES ASSUME Init PROVE BusInv
  OBVIOUS
<1>1. TypeOK
  BY BusAssumption DEF Init, TypeOK, GeneratorState
<1>2. BacklogIsNewest /\ Len(backlog) <= published
  BY RunEmpty DEF Init, BacklogIsNewest
<1>3. Runs
  BY RunEmpty DEF Init, Runs
<1>4. Phases /\ UpToDate
  BY DEF Init, Phases, UpToDate
<1>5. QED
  BY <1>1, <1>2, <1>3, <1>4 DEF BusInv

\* What one publish does to the queue of one generator.
LEMMA PublishQueue ==
  ASSUME BusInv, Publish, NEW s \in Subscribers
  PROVE  /\ queue'[s] \in Seq(Nat)
         /\ Len(queue'[s]) <= QueueSize
         /\ Run(queue'[s], joined[s] + Len(got[s]))
         /\ s \in registered' => Len(queue'[s]) = Len(queue[s]) + 1
         /\ s \notin registered => queue'[s] = queue[s]
<1>1. /\ queue[s] \in Seq(Nat) /\ Len(queue[s]) \in Nat /\ Len(queue[s]) <= QueueSize
      /\ got[s] \in Seq(Nat) /\ Len(got[s]) \in Nat /\ joined[s] \in Nat
      /\ joined[s] + Len(got[s]) \in Nat
      /\ published \in Nat /\ published + 1 \in Nat /\ QueueSize \in Nat
      /\ Run(queue[s], joined[s] + Len(got[s]))
  BY BusAssumption DEF BusInv, TypeOK, Runs
<1>2. CASE s \in registered \ Full
  <2>1. queue'[s] = Append(queue[s], published + 1)
    BY <1>2 DEF Publish
  <2>2. published + 1 = joined[s] + Len(got[s]) + Len(queue[s]) + 1
    BY <1>2 DEF BusInv, UpToDate
  <2>3. Len(queue[s]) < QueueSize
    BY <1>1, <1>2 DEF Full
  <2>4. /\ Append(queue[s], published + 1) \in Seq(Nat)
        /\ Len(Append(queue[s], published + 1)) = Len(queue[s]) + 1
        /\ Run(Append(queue[s], published + 1), joined[s] + Len(got[s]))
    BY <1>1, <2>2, RunAppend
  <2>5. QED
    BY <1>1, <1>2, <2>1, <2>3, <2>4
<1>3. CASE s \notin registered \ Full
  BY <1>1, <1>3 DEF Publish, StillRegistered
<1>4. QED
  BY <1>2, <1>3

LEMMA PublishBusInv == BusInv /\ Publish => BusInv'
<1> SUFFICES ASSUME BusInv, Publish PROVE BusInv'
  OBVIOUS
<1>1. /\ published \in Nat /\ published' = published + 1 /\ published' \in 0 .. MaxEvents
      /\ UNCHANGED <<gen, got, joined>>
      /\ registered' = registered \ Full /\ registered' \subseteq registered
      /\ registered \subseteq Subscribers
  BY BusAssumption DEF BusInv, TypeOK, Publish, StillRegistered
<1>2. /\ backlog' \in Seq(Nat) /\ Len(backlog) \in Nat
      /\ Len(backlog') = IF Len(backlog) < Backlog THEN Len(backlog) + 1 ELSE Backlog
      /\ Run(backlog', published' - Len(backlog'))
  <2>1. /\ backlog \in Seq(Nat) /\ Len(backlog) <= published /\ Len(backlog) <= Backlog
        /\ Run(backlog, published - Len(backlog))
    BY DEF BusInv, TypeOK, BacklogIsNewest
  <2>2. backlog' = DequeAppend(backlog, published + 1)
    BY DEF Publish
  <2>3. QED
    BY <1>1, <2>1, <2>2, DequeAppendRun
<1>3. queue' \in [Subscribers -> Seq(Nat)]
  <2>1. queue' = [s \in Subscribers |-> queue'[s]]
    BY DEF Publish
  <2>2. QED
    BY <2>1, PublishQueue
<1>4. TypeOK'
  <2>1. Len(backlog') <= Backlog
    BY <1>2, BusAssumption
  <2>2. \A s \in Subscribers : Len(queue'[s]) <= QueueSize
    BY PublishQueue
  <2>3. QED
    BY <1>1, <1>2, <1>3, <2>1, <2>2 DEF BusInv, TypeOK
<1>5. BacklogIsNewest' /\ (Len(backlog) <= published)'
  <2>1. Backlog \in Nat /\ Len(backlog) <= published
        /\ (Len(backlog) = Backlog \/ Len(backlog) = published)
    BY BusAssumption DEF BusInv, BacklogIsNewest
  <2>2. Len(backlog) <= Backlog
    BY DEF BusInv, TypeOK
  <2>3. /\ Len(backlog') <= published'
        /\ Len(backlog') = Backlog \/ Len(backlog') = published'
    BY <1>1, <1>2, <2>1, <2>2
  <2>4. Run(backlog, published - Len(backlog))'
    BY <1>2 DEF Run
  <2>5. QED
    BY <2>3, <2>4 DEF BacklogIsNewest
<1>6. Phases'
  BY <1>1, PublishQueue DEF BusInv, Phases
<1>7. Runs'
  <2>1. \A s \in Subscribers :
          Run(got'[s], joined'[s]) /\ Run(queue'[s], joined'[s] + Len(got'[s]))
    BY <1>1, PublishQueue DEF BusInv, Runs
  <2>2. QED
    BY <2>1 DEF Runs, Run
<1>8. UpToDate'
  <2>1. ASSUME NEW s \in registered'
        PROVE  joined'[s] + Len(got'[s]) + Len(queue'[s]) = published'
    <3>1. s \in Subscribers /\ s \in registered
      BY <1>1
    <3>2. Len(queue'[s]) = Len(queue[s]) + 1
      BY <3>1, PublishQueue
    <3>3. /\ joined[s] \in Nat /\ Len(got[s]) \in Nat /\ Len(queue[s]) \in Nat
          /\ joined[s] + Len(got[s]) + Len(queue[s]) = published
      BY <3>1 DEF BusInv, TypeOK, UpToDate
    <3>4. joined'[s] = joined[s] /\ Len(got'[s]) = Len(got[s])
      BY <1>1
    <3>5. published' = published + 1
      BY <1>1
    <3>6. QED
      BY <3>2, <3>3, <3>4, <3>5
  <2>2. QED
    BY <2>1 DEF UpToDate
<1>9. QED
  BY <1>4, <1>5, <1>6, <1>7, <1>8 DEF BusInv

LEMMA SubscribeBusInv ==
  ASSUME BusInv, NEW s \in Subscribers, Subscribe(s)
  PROVE  BusInv'
<1>1. /\ gen[s] = "new" /\ got[s] = <<>>
      /\ published \in Nat /\ backlog \in Seq(Nat) /\ Len(backlog) \in Nat
      /\ Len(backlog) <= Backlog /\ Len(backlog) <= published
      /\ published - Len(backlog) \in Nat
      /\ Run(backlog, published - Len(backlog))
      /\ Backlog <= QueueSize /\ Backlog \in Nat /\ QueueSize \in Nat
  BY BusAssumption DEF BusInv, TypeOK, Phases, BacklogIsNewest, Subscribe
<1>2. /\ UNCHANGED <<published, backlog, got>>
      /\ queue' = [queue EXCEPT ![s] = backlog]
      /\ joined' = [joined EXCEPT ![s] = published - Len(backlog)]
      /\ gen' = [gen EXCEPT ![s] = "get"]
      /\ registered' = registered \cup {s}
  BY DEF Subscribe, Replay
<1>3. /\ registered \subseteq Subscribers
      /\ queue \in [Subscribers -> Seq(Nat)] /\ joined \in [Subscribers -> Nat]
      /\ gen \in [Subscribers -> GeneratorState] /\ got \in [Subscribers -> Seq(Nat)]
  BY DEF BusInv, TypeOK
<1>4. /\ queue'[s] = backlog /\ joined'[s] = published - Len(backlog) /\ gen'[s] = "get"
      /\ \A t \in Subscribers \ {s} :
           queue'[t] = queue[t] /\ joined'[t] = joined[t] /\ gen'[t] = gen[t]
  BY <1>2, <1>3
<1>5. TypeOK'
  <2>1. /\ queue' \in [Subscribers -> Seq(Nat)] /\ joined' \in [Subscribers -> Nat]
        /\ gen' \in [Subscribers -> GeneratorState] /\ registered' \subseteq Subscribers
    BY <1>1, <1>2, <1>3 DEF GeneratorState
  <2>2. ASSUME NEW t \in Subscribers
        PROVE  Len(queue'[t]) <= QueueSize
    <3>1. CASE t = s
      BY <1>1, <1>4, <3>1
    <3>2. CASE t # s
      BY <1>4, <3>2 DEF BusInv, TypeOK
    <3>3. QED
      BY <3>1, <3>2
  <2>3. QED
    BY <1>2, <2>1, <2>2 DEF BusInv, TypeOK
<1>6. BacklogIsNewest' /\ (Len(backlog) <= published)'
  BY <1>2 DEF BusInv, BacklogIsNewest, Run
<1>7. Phases'
  BY <1>2, <1>3, <1>4 DEF BusInv, Phases
<1>8. Runs'
  <2>1. ASSUME NEW t \in Subscribers
        PROVE  Run(got'[t], joined'[t]) /\ Run(queue'[t], joined'[t] + Len(got'[t]))
    <3>1. CASE t = s
      <4>1. got'[t] = <<>> /\ joined'[t] + Len(got'[t]) = published - Len(backlog)
        BY <1>1, <1>2, <1>4, <3>1
      <4>2. QED
        BY <1>1, <1>4, <3>1, <4>1, RunEmpty
    <3>2. CASE t # s
      BY <1>2, <1>4, <3>2 DEF BusInv, Runs
    <3>3. QED
      BY <3>1, <3>2
  <2>2. QED
    BY <2>1 DEF Runs, Run
<1>9. UpToDate'
  <2>1. ASSUME NEW t \in registered'
        PROVE  joined'[t] + Len(got'[t]) + Len(queue'[t]) = published'
    <3>1. CASE t = s
      BY <1>1, <1>2, <1>4, <3>1
    <3>2. CASE t # s
      BY <1>2, <1>3, <1>4, <3>2 DEF BusInv, UpToDate
    <3>3. QED
      BY <3>1, <3>2
  <2>2. QED
    BY <2>1 DEF UpToDate
<1>10. QED
  BY <1>5, <1>6, <1>7, <1>8, <1>9 DEF BusInv

LEMMA GetBusInv ==
  ASSUME BusInv, NEW s \in Subscribers, Get(s)
  PROVE  BusInv'
<1>1. /\ gen[s] = "get" /\ queue[s] # <<>>
      /\ got' = [got EXCEPT ![s] = Append(got[s], Head(queue[s]))]
      /\ queue' = [queue EXCEPT ![s] = Tail(queue[s])]
      /\ gen' = [gen EXCEPT ![s] = "yielded"]
      /\ UNCHANGED <<published, backlog, registered, joined>>
  BY DEF Get, CanGet
<1>2. /\ registered \subseteq Subscribers
      /\ queue \in [Subscribers -> Seq(Nat)] /\ joined \in [Subscribers -> Nat]
      /\ gen \in [Subscribers -> GeneratorState] /\ got \in [Subscribers -> Seq(Nat)]
      /\ queue[s] \in Seq(Nat) /\ got[s] \in Seq(Nat) /\ joined[s] \in Nat
      /\ Len(got[s]) \in Nat /\ Len(queue[s]) <= QueueSize /\ QueueSize \in Nat
      /\ joined[s] + Len(got[s]) \in Nat
  BY BusAssumption DEF BusInv, TypeOK
<1>3. /\ Run(got[s], joined[s]) /\ Run(queue[s], joined[s] + Len(got[s]))
  BY DEF BusInv, Runs
<1>4. /\ Head(queue[s]) \in Nat
      /\ Head(queue[s]) = joined[s] + Len(got[s]) + 1
      /\ Len(queue[s]) \in Nat \ {0}
      /\ Tail(queue[s]) \in Seq(Nat)
      /\ Len(Tail(queue[s])) = Len(queue[s]) - 1
      /\ Run(Tail(queue[s]), joined[s] + Len(got[s]) + 1)
  BY <1>1, <1>2, <1>3, RunTail
<1>5. /\ Append(got[s], Head(queue[s])) \in Seq(Nat)
      /\ Len(Append(got[s], Head(queue[s]))) = Len(got[s]) + 1
      /\ Run(Append(got[s], Head(queue[s])), joined[s])
  BY <1>2, <1>3, <1>4, RunAppend
<1>6. /\ got'[s] = Append(got[s], Head(queue[s])) /\ queue'[s] = Tail(queue[s])
      /\ gen'[s] = "yielded"
      /\ \A t \in Subscribers \ {s} :
           got'[t] = got[t] /\ queue'[t] = queue[t] /\ gen'[t] = gen[t]
  BY <1>1, <1>2
<1>7. TypeOK'
  <2>1. /\ queue' \in [Subscribers -> Seq(Nat)] /\ got' \in [Subscribers -> Seq(Nat)]
        /\ gen' \in [Subscribers -> GeneratorState]
    BY <1>1, <1>2, <1>4, <1>5 DEF GeneratorState
  <2>2. ASSUME NEW t \in Subscribers
        PROVE  Len(queue'[t]) <= QueueSize
    <3>1. CASE t = s
      <4>1. Len(queue[s]) - 1 <= QueueSize
        BY <1>2, <1>4
      <4>2. QED
        BY <1>4, <1>6, <3>1, <4>1
    <3>2. CASE t # s
      BY <1>6, <3>2 DEF BusInv, TypeOK
    <3>3. QED
      BY <3>1, <3>2
  <2>3. QED
    BY <1>1, <2>1, <2>2 DEF BusInv, TypeOK
<1>8. BacklogIsNewest' /\ (Len(backlog) <= published)'
  BY <1>1 DEF BusInv, BacklogIsNewest, Run
<1>9. Phases'
  BY <1>1, <1>2, <1>6 DEF BusInv, Phases
<1>10. Runs'
  <2>1. ASSUME NEW t \in Subscribers
        PROVE  Run(got'[t], joined'[t]) /\ Run(queue'[t], joined'[t] + Len(got'[t]))
    <3>1. CASE t = s
      <4>1. joined'[t] + Len(got'[t]) = joined[s] + Len(got[s]) + 1
        BY <1>1, <1>2, <1>5, <1>6, <3>1
      <4>2. QED
        BY <1>1, <1>4, <1>5, <1>6, <3>1, <4>1
    <3>2. CASE t # s
      BY <1>1, <1>6, <3>2 DEF BusInv, Runs
    <3>3. QED
      BY <3>1, <3>2
  <2>2. QED
    BY <2>1 DEF Runs, Run
<1>11. UpToDate'
  <2>1. ASSUME NEW t \in registered'
        PROVE  joined'[t] + Len(got'[t]) + Len(queue'[t]) = published'
    <3>1. CASE t = s
      BY <1>1, <1>2, <1>4, <1>5, <1>6, <3>1 DEF BusInv, UpToDate
    <3>2. CASE t # s
      BY <1>1, <1>2, <1>6, <3>2 DEF BusInv, UpToDate
    <3>3. QED
      BY <3>1, <3>2
  <2>2. QED
    BY <2>1 DEF UpToDate
<1>12. QED
  BY <1>7, <1>8, <1>9, <1>10, <1>11 DEF BusInv

\* A step that only moves a generator and perhaps ends its registration.
LEMMA PhaseBusInv ==
  ASSUME BusInv, NEW s \in Subscribers, NEW where \in GeneratorState \ {"new"},
         gen[s] # "new",
         gen' = [gen EXCEPT ![s] = where],
         registered' = IF where = "closed" THEN registered \ {s} ELSE registered,
         UNCHANGED <<published, backlog, queue, got, joined>>
  PROVE  BusInv'
<1>1. gen \in [Subscribers -> GeneratorState] /\ registered \subseteq Subscribers
  BY DEF BusInv, TypeOK
<1>2. gen'[s] = where /\ \A t \in Subscribers \ {s} : gen'[t] = gen[t]
  BY <1>1
<1>3. TypeOK'
  <2>1. gen' \in [Subscribers -> GeneratorState] /\ registered' \subseteq Subscribers
    BY <1>1
  <2>2. QED
    BY <2>1 DEF BusInv, TypeOK
<1>4. BacklogIsNewest' /\ (Len(backlog) <= published)'
  BY DEF BusInv, BacklogIsNewest, Run
<1>5. Phases'
  BY <1>1, <1>2 DEF BusInv, Phases
<1>6. Runs'
  BY DEF BusInv, Runs, Run
<1>7. UpToDate'
  <2>1. registered' \subseteq registered
    OBVIOUS
  <2>2. QED
    BY <2>1 DEF BusInv, UpToDate
<1>8. QED
  BY <1>3, <1>4, <1>5, <1>6, <1>7 DEF BusInv

LEMMA NextBusInv == BusInv /\ [Next]_vars => BusInv'
<1> SUFFICES ASSUME BusInv, [Next]_vars PROVE BusInv'
  OBVIOUS
<1>1. CASE Publish
  BY <1>1, PublishBusInv
<1>2. ASSUME NEW s \in Subscribers, Subscribe(s) PROVE BusInv'
  BY <1>2, SubscribeBusInv
<1>3. ASSUME NEW s \in Subscribers, Get(s) PROVE BusInv'
  BY <1>3, GetBusInv
<1>4. ASSUME NEW s \in Subscribers, Resume(s) PROVE BusInv'
  <2>1. "get" \in GeneratorState \ {"new"}
    BY DEF GeneratorState
  <2>2. QED
    BY <1>4, <2>1, PhaseBusInv DEF Resume
<1>5. ASSUME NEW s \in Subscribers, Leave(s) PROVE BusInv'
  <2>1. "left" \in GeneratorState \ {"new"}
    BY DEF GeneratorState
  <2>2. QED
    BY <1>5, <2>1, PhaseBusInv DEF Leave
<1>6. ASSUME NEW s \in Subscribers, Finalise(s) \/ Cancel(s) PROVE BusInv'
  <2>1. "closed" \in GeneratorState \ {"new"}
    BY DEF GeneratorState
  <2>2. QED
    BY <1>6, <2>1, PhaseBusInv DEF Finalise, Cancel, End, AfterFinally
<1>7. CASE UNCHANGED vars
  BY <1>7 DEF vars, BusInv, TypeOK, BacklogIsNewest, Phases, Runs, UpToDate, Run
<1>8. QED
  BY <1>1, <1>2, <1>3, <1>4, <1>5, <1>6, <1>7 DEF Next

LEMMA BusInvariant == Spec => []BusInv
  BY InitBusInv, NextBusInv, PTL DEF Spec

-----------------------------------------------------------------------------
\* The bounds the code relies on hold for every instance: the deque keeps its
\* maxlen and put_nowait in the prologue of subscribe never finds a full queue.
THEOREM TypeCorrect == Spec => []TypeOK
<1>1. BusInv => TypeOK
  BY DEF BusInv
<1>2. QED
  BY <1>1, BusInvariant, PTL

\* No generator, however slow and whether or not it was discarded, ever yields
\* an event twice, out of order or with a hole before it.
THEOREM StreamsHaveNoGap == Spec => []GapFree
<1>1. BusInv => GapFree
  <2> SUFFICES ASSUME BusInv, NEW s \in Subscribers PROVE Run(Stream(s), joined[s])
    BY DEF GapFree
  <2>1. /\ got[s] \in Seq(Nat) /\ queue[s] \in Seq(Nat) /\ joined[s] \in Nat
        /\ Run(got[s], joined[s]) /\ Run(queue[s], joined[s] + Len(got[s]))
    BY DEF BusInv, TypeOK, Runs
  <2>2. QED
    BY <2>1, RunConcat DEF Stream
<1>2. QED
  BY <1>1, BusInvariant, PTL

\* A registered generator is never behind for good: what it yielded and what is
\* queued for it reach the newest event.
THEOREM RegisteredIsUpToDate == Spec => []UpToDate
<1>1. BusInv => UpToDate
  BY DEF BusInv
<1>2. QED
  BY <1>1, BusInvariant, PTL

\* What a late subscriber is replayed are the newest events, as many as the
\* deque can hold.
THEOREM BacklogHoldsNewest == Spec => []BacklogIsNewest
<1>1. BusInv => BacklogIsNewest
  BY DEF BusInv
<1>2. QED
  BY <1>1, BusInvariant, PTL

\* A generator loses its registration only by ending or by lagging a whole
\* queue behind.
THEOREM DiscardNeedsFullQueue == Spec => DiscardedOnlyWhenFull
<1> DEFINE A == \A s \in registered \ registered' :
                  gen'[s] = "closed" \/ Len(queue[s]) = QueueSize
<1>1. BusInv /\ [Next]_vars => [A]_vars
  <2> SUFFICES ASSUME BusInv, Next, NEW s \in registered \ registered'
               PROVE  gen'[s] = "closed" \/ Len(queue[s]) = QueueSize
    OBVIOUS
  <2>1. /\ registered \subseteq Subscribers /\ s \in Subscribers
        /\ queue[s] \in Seq(Nat) /\ Len(queue[s]) \in Nat
        /\ Len(queue[s]) <= QueueSize /\ QueueSize \in Nat
        /\ gen \in [Subscribers -> GeneratorState]
    BY BusAssumption DEF BusInv, TypeOK
  <2>2. CASE Publish
    BY <2>1, <2>2 DEF Publish, StillRegistered, Full
  <2>3. ASSUME NEW t \in Subscribers, Subscribe(t) \/ Get(t) \/ Resume(t) \/ Leave(t)
        PROVE  FALSE
    BY <2>3 DEF Subscribe, Get, Resume, Leave
  <2>4. ASSUME NEW t \in Subscribers, Finalise(t) \/ Cancel(t)
        PROVE  gen'[s] = "closed"
    <3>1. registered' = registered \ {t} /\ gen' = [gen EXCEPT ![t] = "closed"]
      BY <2>4 DEF Finalise, Cancel, End, AfterFinally
    <3>2. QED
      BY <2>1, <3>1
  <2>5. QED
    BY <2>2, <2>3, <2>4 DEF Next
<1>2. QED
  BY <1>1, BusInvariant, PTL DEF Spec, DiscardedOnlyWhenFull

-----------------------------------------------------------------------------
\* The abstract state of one generator, seen from its concrete state.
LEMMA ReaderView ==
  ASSUME BusInv, NEW s \in Subscribers
  PROVE  /\ cursor[s] = joined[s] + Len(got[s])
         /\ reach[s] = joined[s] + Len(got[s]) + Len(queue[s])
         /\ cursor[s] \in Nat /\ reach[s] \in Nat /\ Len(queue[s]) \in Nat
         /\ reach[s] = cursor[s] + Len(queue[s])
         /\ s \in registered <=> role[s] = "attached"
         /\ gen[s] = "new" <=> role[s] = "absent"
         /\ gen[s] = "closed" <=> role[s] = "gone"
         /\ gen[s] \notin {"new", "closed"} <=> role[s] \in {"attached", "cut"}
         /\ s \in registered => reach[s] = published
<1>1. /\ joined[s] \in Nat /\ got[s] \in Seq(Nat) /\ queue[s] \in Seq(Nat)
      /\ Len(got[s]) \in Nat /\ Len(queue[s]) \in Nat
  BY DEF BusInv, TypeOK
<1>2. /\ cursor[s] = joined[s] + Len(got[s])
      /\ reach[s] = joined[s] + Len(got[s]) + Len(queue[s])
  BY DEF cursor, reach
<1>3. s \in registered => gen[s] \notin {"new", "closed"}
  BY DEF BusInv, Phases
<1>4. s \in registered => reach[s] = published
  BY <1>2 DEF BusInv, UpToDate
<1>5. role[s] = CASE gen[s] = "new"       -> "absent"
                  [] gen[s] = "closed"    -> "gone"
                  [] s \in registered     -> "attached"
                  [] OTHER                -> "cut"
  BY DEF role
<1>6. /\ gen[s] = "new" => role[s] = "absent"
      /\ gen[s] = "closed" => role[s] = "gone"
      /\ gen[s] \notin {"new", "closed"} =>
           role[s] = IF s \in registered THEN "attached" ELSE "cut"
  <2>1. CASE gen[s] = "new"
    BY <1>3, <1>5, <2>1
  <2>2. CASE gen[s] = "closed"
    BY <1>3, <1>5, <2>2
  <2>3. CASE gen[s] \notin {"new", "closed"}
    <3>1. CASE s \in registered
      BY <1>5, <2>3, <3>1
    <3>2. CASE s \notin registered
      BY <1>5, <2>3, <3>2
    <3>3. QED
      BY <3>1, <3>2
  <2>4. QED
    BY <2>1, <2>2, <2>3
<1>7. QED
  BY <1>1, <1>2, <1>3, <1>4, <1>6

LEMMA InitIsLogInit == Init => Log!Init
<1> SUFFICES ASSUME Init PROVE Log!Init
  OBVIOUS
<1>1. /\ cursor = [s \in Subscribers |-> 0]
      /\ reach = [s \in Subscribers |-> 0]
      /\ role = [s \in Subscribers |-> "absent"]
  BY DEF Init, cursor, reach, role
<1>2. QED
  BY <1>1 DEF Init, Log!Init

\* A publish extends the log, and cuts off the generators whose queue is full.
LEMMA PublishExtends ==
  ASSUME BusInv, BusInv', Publish
  PROVE  Log!Extend
<1>1. /\ published' = published + 1 /\ published \in Nat
      /\ registered' = registered \ Full /\ registered \subseteq Subscribers
      /\ UNCHANGED <<gen, got, joined>>
      /\ Full \subseteq registered
  BY DEF BusInv, TypeOK, Publish, StillRegistered, Full
<1>2. Full \in SUBSET {s \in Subscribers : role[s] = "attached" /\ published - cursor[s] >= QueueSize}
  <2> SUFFICES ASSUME NEW s \in Full
               PROVE  s \in Subscribers /\ role[s] = "attached"
                      /\ published - cursor[s] >= QueueSize
    OBVIOUS
  <2>1. s \in registered /\ s \in Subscribers /\ Len(queue[s]) >= QueueSize
    BY <1>1 DEF Full
  <2>2. QED
    BY <2>1, <1>1, ReaderView, BusAssumption
<1>3. UNCHANGED cursor
  BY <1>1 DEF cursor
<1>4. role' = [s \in Subscribers |-> IF s \in Full THEN "cut" ELSE role[s]]
  <2>1. ASSUME NEW s \in Subscribers
        PROVE  (CASE gen'[s] = "new"       -> "absent"
                  [] gen'[s] = "closed"    -> "gone"
                  [] s \in registered'     -> "attached"
                  [] OTHER                 -> "cut")
               = IF s \in Full THEN "cut" ELSE role[s]
    <3>1. s \in Full => gen[s] \notin {"new", "closed"}
      BY <1>1 DEF BusInv, Phases
    <3>2. QED
      BY <1>1, <3>1 DEF role
  <2>2. QED
    BY <2>1 DEF role
<1>5. reach' = [s \in Subscribers |->
                  IF role[s] = "attached" /\ s \notin Full THEN published + 1 ELSE reach[s]]
  <2>1. ASSUME NEW s \in Subscribers
        PROVE  joined'[s] + Len(got'[s]) + Len(queue'[s])
               = IF role[s] = "attached" /\ s \notin Full THEN published + 1 ELSE reach[s]
    <3>1. CASE s \in registered'
      <4>1. joined'[s] + Len(got'[s]) + Len(queue'[s]) = published'
        BY <3>1 DEF BusInv, UpToDate
      <4>2. QED
        BY <1>1, <3>1, <4>1, ReaderView
    <3>2. CASE s \notin registered'
      <4>1. queue'[s] = queue[s]
        BY <1>1, <3>2 DEF Publish
      <4>2. ~(role[s] = "attached" /\ s \notin Full)
        BY <1>1, <3>2, ReaderView
      <4>3. QED
        BY <1>1, <4>1, <4>2 DEF reach
    <3>3. QED
      BY <3>1, <3>2
  <2>2. QED
    BY <2>1 DEF reach
<1>6. QED
  BY <1>1, <1>2, <1>3, <1>4, <1>5 DEF Log!Extend

\* A new generator joins the log no further back than the deque reaches.
LEMMA SubscribeJoins ==
  ASSUME BusInv, NEW s \in Subscribers, Subscribe(s)
  PROVE  Log!Join(s)
<1>1. /\ gen[s] = "new" /\ got[s] = <<>>
      /\ gen \in [Subscribers -> GeneratorState] /\ got \in [Subscribers -> Seq(Nat)]
      /\ queue \in [Subscribers -> Seq(Nat)] /\ joined \in [Subscribers -> Nat]
      /\ published \in Nat /\ Len(backlog) \in Nat
      /\ Len(backlog) <= Backlog /\ Len(backlog) <= published /\ Backlog \in Nat
  BY BusAssumption DEF BusInv, TypeOK, Phases, Subscribe
<1>2. /\ UNCHANGED <<published, backlog, got>>
      /\ gen' = [gen EXCEPT ![s] = "get"]
      /\ queue' = [queue EXCEPT ![s] = backlog]
      /\ registered' = registered \cup {s}
      /\ joined' = [joined EXCEPT ![s] = published - Len(backlog)]
  BY DEF Subscribe, Replay
<1>3. role[s] = "absent" /\ role' = [role EXCEPT ![s] = "attached"]
  <2>1. role[s] = "absent"
    BY <1>1, ReaderView
  <2>2. ASSUME NEW t \in Subscribers
        PROVE  (CASE gen'[t] = "new"       -> "absent"
                  [] gen'[t] = "closed"    -> "gone"
                  [] t \in registered'     -> "attached"
                  [] OTHER                 -> "cut")
               = IF t = s THEN "attached" ELSE role[t]
    <3>1. CASE t = s
      BY <1>1, <1>2, <3>1
    <3>2. CASE t # s
      BY <1>1, <1>2, <3>2 DEF role
    <3>3. QED
      BY <3>1, <3>2
  <2>3. role' = [t \in Subscribers |-> IF t = s THEN "attached" ELSE role[t]]
    BY <2>2 DEF role
  <2>4. QED
    BY <2>1, <2>3 DEF role
<1>4. cursor' = [cursor EXCEPT ![s] = published - Len(backlog)]
  <2>1. ASSUME NEW t \in Subscribers
        PROVE  joined'[t] + Len(got'[t]) = IF t = s THEN published - Len(backlog) ELSE cursor[t]
    <3>1. CASE t = s
      <4>1. joined'[t] = published - Len(backlog) /\ Len(got'[t]) = 0
        BY <1>1, <1>2, <3>1
      <4>2. QED
        BY <1>1, <3>1, <4>1
    <3>2. CASE t # s
      <4>1. joined'[t] = joined[t] /\ got'[t] = got[t]
        BY <1>1, <1>2, <3>2
      <4>2. QED
        BY <3>2, <4>1 DEF cursor
    <3>3. QED
      BY <3>1, <3>2
  <2>2. cursor' = [t \in Subscribers |-> IF t = s THEN published - Len(backlog) ELSE cursor[t]]
    BY <2>1 DEF cursor
  <2>3. QED
    BY <2>2 DEF cursor
<1>5. reach' = [reach EXCEPT ![s] = published]
  <2>1. ASSUME NEW t \in Subscribers
        PROVE  joined'[t] + Len(got'[t]) + Len(queue'[t]) = IF t = s THEN published ELSE reach[t]
    BY <1>1, <1>2 DEF reach
  <2>2. reach' = [t \in Subscribers |-> IF t = s THEN published ELSE reach[t]]
    BY <2>1 DEF reach
  <2>3. QED
    BY <2>2 DEF reach
<1>6. /\ published - Len(backlog) \in 0 .. published
      /\ published - (published - Len(backlog)) <= Backlog
  BY <1>1
<1>7. QED
  BY <1>2, <1>3, <1>4, <1>5, <1>6 DEF Log!Join

\* Taking an event from the queue moves the cursor by one entry.
LEMMA GetReads ==
  ASSUME BusInv, NEW s \in Subscribers, Get(s)
  PROVE  Log!Read(s)
<1>1. /\ gen[s] = "get" /\ queue[s] # <<>>
      /\ got' = [got EXCEPT ![s] = Append(got[s], Head(queue[s]))]
      /\ queue' = [queue EXCEPT ![s] = Tail(queue[s])]
      /\ gen' = [gen EXCEPT ![s] = "yielded"]
      /\ UNCHANGED <<published, backlog, registered, joined>>
  BY DEF Get, CanGet
<1>2. /\ gen \in [Subscribers -> GeneratorState] /\ got \in [Subscribers -> Seq(Nat)]
      /\ queue \in [Subscribers -> Seq(Nat)] /\ joined \in [Subscribers -> Nat]
      /\ got[s] \in Seq(Nat) /\ queue[s] \in Seq(Nat) /\ joined[s] \in Nat
      /\ Len(got[s]) \in Nat
  BY DEF BusInv, TypeOK
<1>3. Run(queue[s], joined[s] + Len(got[s]))
  BY DEF BusInv, Runs
<1>4. /\ Head(queue[s]) \in Nat /\ Len(queue[s]) \in Nat \ {0}
      /\ Len(Tail(queue[s])) = Len(queue[s]) - 1
  BY <1>1, <1>2, <1>3, RunTail
<1>5. Len(Append(got[s], Head(queue[s]))) = Len(got[s]) + 1
  BY <1>2, <1>4
<1>6. role' = role
  <2>1. ASSUME NEW t \in Subscribers
        PROVE  (CASE gen'[t] = "new"       -> "absent"
                  [] gen'[t] = "closed"    -> "gone"
                  [] t \in registered'     -> "attached"
                  [] OTHER                 -> "cut")
               = role[t]
    <3>1. CASE t = s
      BY <1>1, <1>2, <3>1 DEF role
    <3>2. CASE t # s
      BY <1>1, <1>2, <3>2 DEF role
    <3>3. QED
      BY <3>1, <3>2
  <2>2. role' = [t \in Subscribers |-> role[t]]
    BY <2>1 DEF role
  <2>3. QED
    BY <2>2 DEF role
<1>7. cursor' = [cursor EXCEPT ![s] = cursor[s] + 1]
  <2>1. ASSUME NEW t \in Subscribers
        PROVE  joined'[t] + Len(got'[t]) = IF t = s THEN cursor[s] + 1 ELSE cursor[t]
    BY <1>1, <1>2, <1>5 DEF cursor
  <2>2. cursor' = [t \in Subscribers |-> IF t = s THEN cursor[s] + 1 ELSE cursor[t]]
    BY <2>1 DEF cursor
  <2>3. QED
    BY <2>2 DEF cursor
<1>8. reach' = reach
  <2>1. ASSUME NEW t \in Subscribers
        PROVE  joined'[t] + Len(got'[t]) + Len(queue'[t]) = reach[t]
    BY <1>1, <1>2, <1>4, <1>5 DEF reach
  <2>2. reach' = [t \in Subscribers |-> reach[t]]
    BY <2>1 DEF reach
  <2>3. QED
    BY <2>2 DEF reach
<1>9. role[s] \in {"attached", "cut"} /\ cursor[s] < reach[s]
  BY <1>1, <1>4, ReaderView
<1>10. QED
  BY <1>1, <1>6, <1>7, <1>8, <1>9 DEF Log!Read

\* The end of a generator is a reader that quits.
LEMMA EndQuits ==
  ASSUME BusInv, NEW s \in Subscribers, Finalise(s) \/ Cancel(s)
  PROVE  Log!Quit(s)
<1>1. /\ gen[s] \notin {"new", "closed"}
      /\ gen' = [gen EXCEPT ![s] = "closed"] /\ registered' = registered \ {s}
      /\ UNCHANGED <<published, backlog, queue, got, joined>>
  BY DEF Finalise, Cancel, End, AfterFinally
<1>2. gen \in [Subscribers -> GeneratorState]
  BY DEF BusInv, TypeOK
<1>3. role' = [role EXCEPT ![s] = "gone"]
  <2>1. ASSUME NEW t \in Subscribers
        PROVE  (CASE gen'[t] = "new"       -> "absent"
                  [] gen'[t] = "closed"    -> "gone"
                  [] t \in registered'     -> "attached"
                  [] OTHER                 -> "cut")
               = IF t = s THEN "gone" ELSE role[t]
    <3>1. CASE t = s
      BY <1>1, <1>2, <3>1
    <3>2. CASE t # s
      BY <1>1, <1>2, <3>2 DEF role
    <3>3. QED
      BY <3>1, <3>2
  <2>2. role' = [t \in Subscribers |-> IF t = s THEN "gone" ELSE role[t]]
    BY <2>1 DEF role
  <2>3. QED
    BY <2>2 DEF role
<1>4. UNCHANGED <<published, cursor, reach>>
  BY <1>1 DEF cursor, reach
<1>5. role[s] \in {"attached", "cut"}
  BY <1>1, ReaderView
<1>6. QED
  BY <1>3, <1>4, <1>5 DEF Log!Quit

\* A consumer that comes back or breaks out of its loop changes nothing that
\* the log knows of: its queue is fed as before.
LEMMA PhaseStutters ==
  ASSUME BusInv, NEW s \in Subscribers, Resume(s) \/ Leave(s)
  PROVE  UNCHANGED Log!vars
<1>1. /\ gen[s] = "yielded"
      /\ gen' = [gen EXCEPT ![s] = "get"] \/ gen' = [gen EXCEPT ![s] = "left"]
      /\ UNCHANGED <<published, backlog, registered, queue, got, joined>>
  BY DEF Resume, Leave
<1>2. gen \in [Subscribers -> GeneratorState]
  BY DEF BusInv, TypeOK
<1>3. role' = role
  <2>1. ASSUME NEW t \in Subscribers
        PROVE  (CASE gen'[t] = "new"       -> "absent"
                  [] gen'[t] = "closed"    -> "gone"
                  [] t \in registered'     -> "attached"
                  [] OTHER                 -> "cut")
               = role[t]
    <3>1. CASE t = s
      BY <1>1, <1>2, <3>1 DEF role
    <3>2. CASE t # s
      BY <1>1, <1>2, <3>2 DEF role
    <3>3. QED
      BY <3>1, <3>2
  <2>2. role' = [t \in Subscribers |-> role[t]]
    BY <2>1 DEF role
  <2>3. QED
    BY <2>2 DEF role
<1>4. QED
  BY <1>1, <1>3 DEF Log!vars, cursor, reach

\* The bus implements the append-only log with cursors: queues, the replay
\* deque and discarded subscribers are one way to keep every reader's promise.
THEOREM BusIsALog == Spec => ImplementsLog
<1>1. BusInv /\ BusInv' /\ [Next]_vars => [Log!Next]_(Log!vars)
  <2> SUFFICES ASSUME BusInv, BusInv', [Next]_vars PROVE Log!Next \/ UNCHANGED Log!vars
    OBVIOUS
  <2>1. CASE Publish
    BY <2>1, PublishExtends DEF Log!Next
  <2>2. ASSUME NEW s \in Subscribers, Subscribe(s) PROVE Log!Next
    BY <2>2, SubscribeJoins DEF Log!Next
  <2>3. ASSUME NEW s \in Subscribers, Get(s) PROVE Log!Next
    BY <2>3, GetReads DEF Log!Next
  <2>4. ASSUME NEW s \in Subscribers, Resume(s) \/ Leave(s) PROVE UNCHANGED Log!vars
    BY <2>4, PhaseStutters
  <2>5. ASSUME NEW s \in Subscribers, Finalise(s) \/ Cancel(s) PROVE Log!Next
    BY <2>5, EndQuits DEF Log!Next
  <2>6. CASE UNCHANGED vars
    BY <2>6 DEF vars, Log!vars, cursor, reach, role
  <2>7. QED
    BY <2>1, <2>2, <2>3, <2>4, <2>5, <2>6 DEF Next
<1>2. QED
  BY <1>1, InitIsLogInit, BusInvariant, PTL DEF Spec, ImplementsLog, Log!Spec
=============================================================================
