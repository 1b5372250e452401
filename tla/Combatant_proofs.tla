--------------------------- MODULE Combatant_proofs ---------------------------
(***************************************************************************)
(* A combatant: what the receive loop of its mesh queues, where the        *)
(* identities of the nodes come from, and what its runtime sends to the    *)
(* model.  For any number of envelopes, matches, nodes, turns, retries,    *)
(* tools and calls, and any length of the window of seen ids and of what a *)
(* compression keeps.                                                      *)
(***************************************************************************)
EXTENDS Combatant, TLAPS

\* What is queued is remembered until the first trim.
InboxInv ==
  /\ inbox \in Seq(Envelope)
  /\ seen \subseteq Envelope
  /\ ~trimmed =>
       /\ \A i \in 1..Len(inbox) : inbox[i] \in seen
       /\ \A i, j \in 1..Len(inbox) : inbox[i] = inbox[j] => i = j

\* A node that has a port is running, and none of a stopped match is.
PortInv ==
  /\ proc \in [Meshes -> [Index -> {"none", "live", "dead"}]]
  /\ port \in [Index -> Meshes \cup {Nobody}]
  /\ sup \in [Meshes -> {"new", "waiting", "next", "started", "failed", "stopped"}]
  /\ \A m \in Meshes : \A i \in Index : port[i] = m => proc[m][i] = "live"
  /\ \A m \in Meshes : sup[m] = "stopped" => \A i \in Index : proc[m][i] # "live"

-----------------------------------------------------------------------------
\* Which parts a step touches.
LEMMA MeshFrame ==
  ASSUME [Next]_vars
  PROVE  \/ MeshNext
         \/ UNCHANGED <<seen, inbox, trimmed>>
<1>1. CASE MainStep
  BY <1>1 DEF MainStep, Boot, Listen, Idle, Relaunch, Break, LeaveLoop, Finally, meshVars
<1>2. CASE RunStep
  BY <1>2 DEF RunStep, Think, UseTool, Refuse, InspectSelf, PatchRejected, PatchSelf, Probe,
              Exploit, Claim, Handoff, Answered, Quiet, meshVars
<1>3. CASE Raise \/ Killed \/ Hear \/ Tick
  BY <1>3 DEF Raise, Killed, Hear, Tick, meshVars
<1>4. CASE MeshStep
  BY <1>4 DEF MeshStep
<1>5. CASE SupStep
  BY <1>5 DEF SupStep, meshVars
<1>6. CASE Exited \/ UNCHANGED vars
  BY <1>6 DEF Exited, vars, meshVars
<1> QED
  BY <1>1, <1>2, <1>3, <1>4, <1>5, <1>6 DEF Next

LEMMA SupFrame ==
  ASSUME [Next]_vars
  PROVE  SupNext \/ UNCHANGED supVars
<1>1. CASE MainStep
  BY <1>1 DEF MainStep, Boot, Idle, Relaunch, Break, LeaveLoop, Finally
<1>2. CASE RunStep
  BY <1>2 DEF RunStep, Think, UseTool, Refuse, InspectSelf, PatchRejected, PatchSelf, Probe,
              Exploit, Claim, Handoff, Answered, Quiet
<1>3. CASE Raise \/ Killed \/ Hear \/ Tick
  BY <1>3 DEF Raise, Killed, Hear, Tick
<1>4. CASE MeshStep
  BY <1>4 DEF MeshStep
<1>5. CASE SupStep
  BY <1>5 DEF SupStep
<1>6. CASE Exited \/ UNCHANGED vars
  BY <1>6 DEF Exited, vars
<1> QED
  BY <1>1, <1>2, <1>3, <1>4, <1>5, <1>6 DEF Next

-----------------------------------------------------------------------------
LEMMA AcceptedKeeps ==
  ASSUME InboxInv, NEW id \in Envelope, Accepted(id)
  PROVE  InboxInv'
<1>1. /\ inbox \in Seq(Envelope) /\ id \notin seen
      /\ inbox' = Append(inbox, id) /\ seen' \in SUBSET Envelope
      /\ trimmed' = (trimmed \/ Cardinality(seen \cup {id}) > SeenLimit)
  BY DEF InboxInv, Accepted
<1>2. /\ inbox' \in Seq(Envelope) /\ Len(inbox') = Len(inbox) + 1 /\ Len(inbox) \in Nat
      /\ inbox'[Len(inbox) + 1] = id
      /\ \A i \in 1..Len(inbox) : inbox'[i] = inbox[i]
  BY <1>1
<1>3. ASSUME ~trimmed'
      PROVE  /\ \A i \in 1..Len(inbox') : inbox'[i] \in seen'
             /\ \A i, j \in 1..Len(inbox') : inbox'[i] = inbox'[j] => i = j
  <2>1. ~trimmed /\ seen' = seen \cup {id}
    BY <1>1, <1>3 DEF Accepted, Remember
  <2>2. /\ \A i \in 1..Len(inbox) : inbox[i] \in seen
        /\ \A i, j \in 1..Len(inbox) : inbox[i] = inbox[j] => i = j
    BY <2>1 DEF InboxInv
  <2>3. ASSUME NEW i \in 1..Len(inbox') PROVE inbox'[i] \in seen'
    <3>1. CASE i = Len(inbox) + 1
      BY <3>1, <1>2, <2>1
    <3>2. CASE i # Len(inbox) + 1
      <4>1. i \in 1..Len(inbox)
        BY <3>2, <1>2
      <4> QED
        BY <4>1, <1>2, <2>1, <2>2
    <3> QED
      BY <3>1, <3>2
  <2>4. ASSUME NEW i \in 1..Len(inbox'), NEW j \in 1..Len(inbox'), inbox'[i] = inbox'[j]
        PROVE  i = j
    <3>1. CASE i \in 1..Len(inbox) /\ j \in 1..Len(inbox)
      BY <3>1, <2>4, <1>2, <2>2
    <3>2. CASE i = Len(inbox) + 1 /\ j \in 1..Len(inbox)
      BY <3>2, <2>4, <1>1, <1>2, <2>2
    <3>3. CASE i \in 1..Len(inbox) /\ j = Len(inbox) + 1
      BY <3>3, <2>4, <1>1, <1>2, <2>2
    <3>4. CASE i = Len(inbox) + 1 /\ j = Len(inbox) + 1
      BY <3>4
    <3> QED
      BY <3>1, <3>2, <3>3, <3>4, <1>2
  <2> QED
    BY <2>3, <2>4
<1> QED
  BY <1>1, <1>2, <1>3 DEF InboxInv, Envelope

LEMMA InboxStep == InboxInv /\ [Next]_vars => InboxInv'
<1> SUFFICES ASSUME InboxInv, [Next]_vars PROVE InboxInv'
  OBVIOUS
<1>1. CASE \E id \in Envelope : Accepted(id)
  BY <1>1, AcceptedKeeps
<1>2. CASE UNCHANGED <<seen, inbox, trimmed>>
  BY <1>2 DEF InboxInv, Envelope
<1>3. MeshNext => UNCHANGED <<seen, inbox, trimmed>> \/ \E id \in Envelope : Accepted(id)
  BY DEF MeshNext, OpponentBroadcasts, StrangerSends, Malformed, UnexpectedFields, Duplicate
<1> QED
  BY <1>1, <1>2, <1>3, MeshFrame

\* Until the window of seen ids is first trimmed no envelope is queued twice,
\* however often and in whatever order AXL delivers it (mesh.py, 138-144).
THEOREM QueuedOnceUntilTrim == Spec => []ReplayOnlyAfterTrim
<1>1. Init => InboxInv
  BY DEF Init, MeshInit, InboxInv
<1>2. InboxInv => ReplayOnlyAfterTrim
  BY DEF InboxInv, ReplayOnlyAfterTrim
<1> QED
  BY <1>1, <1>2, InboxStep, PTL DEF Spec

-----------------------------------------------------------------------------
LEMMA PortStep == PortInv /\ [Next]_vars => PortInv'
<1> SUFFICES ASSUME PortInv, [Next]_vars PROVE PortInv'
  OBVIOUS
<1> USE SupervisorAssumption
<1>1. ASSUME NEW m \in Meshes, Spawn(m) PROVE PortInv'
  <2>1. /\ sup' = [sup EXCEPT ![m] = "waiting"] /\ port' = port /\ sup[m] # "stopped"
        /\ proc' = [proc EXCEPT ![m][SpawnOrder[cursor[m] + 1]] = "live"]
    BY <1>1 DEF Spawn
  <2>2. proc \in [Meshes -> [Index -> {"none", "live", "dead"}]]
    BY DEF PortInv
  <2>3. proc' \in [Meshes -> [Index -> {"none", "live", "dead"}]]
    <3> DEFINE spawned == SpawnOrder[cursor[m] + 1]
               row == [proc[m] EXCEPT ![spawned] = "live"]
    <3>1. row \in [Index -> {"none", "live", "dead"}]
      BY <2>2
    <3>2. proc' = [proc EXCEPT ![m] = row]
      BY <2>1
    <3> HIDE DEF row
    <3> QED
      BY <2>2, <3>1, <3>2
  <2>4. /\ \A n \in Meshes : \A i \in Index : proc[n][i] = "live" => proc'[n][i] = "live"
        /\ \A n \in Meshes \ {m} : proc'[n] = proc[n]
    BY <2>1, <2>2
  <2>5. \A n \in Meshes : \A i \in Index : port'[i] = n => proc'[n][i] = "live"
    BY <2>1, <2>4 DEF PortInv
  <2>6. \A n \in Meshes : sup'[n] = "stopped" => \A i \in Index : proc'[n][i] # "live"
    BY <2>1, <2>4 DEF PortInv
  <2>7. /\ sup' \in [Meshes -> {"new", "waiting", "next", "started", "failed", "stopped"}]
        /\ port' \in [Index -> Meshes \cup {Nobody}]
    BY <2>1 DEF PortInv, Index
  <2> QED
    BY <2>3, <2>5, <2>6, <2>7 DEF PortInv, Index
<1>2. ASSUME NEW m \in Meshes, Poll(m) \/ TopologyAnswers(m) \/ TopologyFails(m) PROVE PortInv'
  <2>1. /\ proc' = proc /\ port' = port
        /\ \/ sup' = sup
           \/ \E s \in {"started", "next", "failed"} : sup' = [sup EXCEPT ![m] = s]
    BY <1>2 DEF Poll, TopologyAnswers, TopologyFails
  <2>2. sup' \in [Meshes -> {"new", "waiting", "next", "started", "failed", "stopped"}]
    BY <2>1 DEF PortInv
  <2>3. \A n \in Meshes : sup'[n] = "stopped" => sup[n] = "stopped"
    BY <2>1 DEF PortInv
  <2> QED
    BY <2>1, <2>2, <2>3 DEF PortInv, Index
<1>3. ASSUME NEW m \in Meshes, Shutdown(m) PROVE PortInv'
  <2>1. /\ sup' = [sup EXCEPT ![m] = "stopped"]
        /\ proc' = [proc EXCEPT ![m] = [i \in Index |-> IF proc[m][i] = "live" THEN "dead" ELSE proc[m][i]]]
        /\ port' = [i \in Index |-> IF port[i] = m /\ proc[m][i] = "live" THEN Nobody ELSE port[i]]
    BY <1>3 DEF Shutdown, Terminated
  <2> QED
    BY <2>1 DEF PortInv, Index
<1>4. ASSUME NEW m \in Meshes, NEW i \in Index, Bind(m, i) PROVE PortInv'
  <2>1. CASE port[i] = Nobody
    BY <1>4, <2>1 DEF Bind, PortInv, Index
  <2>2. CASE port[i] # Nobody
    <3>1. /\ proc' = [proc EXCEPT ![m][i] = "dead"] /\ port' = port /\ sup' = sup
          /\ port[i] # m
      BY <1>4, <2>2 DEF Bind
    <3> QED
      BY <3>1 DEF PortInv, Index
  <2> QED
    BY <2>1, <2>2
<1>5. ASSUME NEW m \in Meshes, NEW i \in Index, NodeCrash(m, i) PROVE PortInv'
  BY <1>5 DEF NodeCrash, PortInv, Index
<1>6. CASE UNCHANGED supVars
  BY <1>6 DEF PortInv, supVars, Index
<1> QED
  BY <1>1, <1>2, <1>3, <1>4, <1>5, <1>6, SupFrame DEF SupNext

\* The key a node is given never comes from the node of a match that was shut
\* down, however many matches share the ports (supervisor.py, 108-158).
THEOREM IdentitiesAreNotStale == Spec => NoStaleIdentity
<1>1. Init => PortInv
  BY SupervisorAssumption DEF Init, SupInit, PortInv
<1>2. PortInv /\ [Next]_vars =>
        [\A m \in Meshes : \A i \in Index :
           peer'[m][i] # peer[m][i] => sup[peer'[m][i]] # "stopped"]_supVars
  <2> SUFFICES ASSUME PortInv, [Next]_vars, NEW m \in Meshes, NEW i \in Index,
                      peer'[m][i] # peer[m][i]
               PROVE  sup[peer'[m][i]] # "stopped"
    OBVIOUS
  <2>1. PICK n \in Meshes : TopologyAnswers(n)
    BY SupFrame DEF SupNext, Spawn, Poll, TopologyFails, Shutdown, Bind, NodeCrash, supVars
  <2> DEFINE i_n == Current(n)
             owner_n == port[i_n]
  <2>2. owner_n # Nobody /\ peer' = [peer EXCEPT ![n][i_n] = owner_n]
    BY <2>1 DEF TopologyAnswers, ApiPort
  <2> HIDE DEF i_n
  <2>3. m = n /\ i = i_n
    BY <2>2
  <2>4. peer'[m][i] = port[i] \/ peer'[m][i] = peer[m][i]
    BY <2>2, <2>3
  <2>5. port[i] \in Meshes /\ proc[port[i]][i] = "live"
    BY <2>2, <2>3 DEF PortInv
  <2> QED
    BY <2>3, <2>4, <2>5 DEF PortInv
<1> QED
  BY <1>1, <1>2, PortStep, PTL DEF Spec, NoStaleIdentity

-----------------------------------------------------------------------------
\* The steps of the runtime, and of main() on its generator.
Reminded == pc \in Yields /\ clock = "out" /\ Abandon /\ UNCHANGED <<messages, turn, usage, history>>
Failed ==
  /\ pc \in {"compress", "stream"} /\ pc' = "raised"
  /\ UNCHANGED <<messages, turn, ran, attempt, text, calls, k, running, usage, history>>

RunNext ==
  \/ Launch /\ turn < MaxTurn /\ clock = "plenty"
  \/ BeginRun \/ BeginTurn \/ Compress \/ NoSummary \/ Compressed
  \/ TextDelta \/ NextDelta \/ ToolCallStart \/ Retry \/ GiveUp
  \/ MessageComplete \/ Spoke \/ NextCall \/ AddToolResults \/ Nudge \/ EndTurn
  \/ RunAtOnce \/ ToolReturns \/ \E tool \in Tools : Await(tool)
  \/ Reminded \/ Failed \/ RunGone

LEMMA RunFrame ==
  ASSUME [Next]_vars
  PROVE  /\ RunNext \/ UNCHANGED runVars
         /\ clock = "out" => clock' = "out"
<1>1. CASE MainStep
  BY <1>1 DEF MainStep, Boot, Idle, Relaunch, MayRelaunch, Break, BreakNow, LeaveLoop, Finally,
              RunNext, Reminded, mainVars
<1>2. CASE RunStep
  <2>1. UNCHANGED clock
    BY <1>2 DEF RunStep, Think, UseTool, Refuse, InspectSelf, PatchRejected, PatchSelf, Probe,
                Exploit, Claim, Handoff, Answered, Quiet, mainVars
  <2>2. CASE Think
    BY <2>1, <2>2 DEF Think, RunNext
  <2>3. CASE Refuse \/ InspectSelf \/ PatchRejected \/ Handoff \/ Answered
    BY <2>1, <2>3 DEF Refuse, InspectSelf, PatchRejected, Handoff, Answered, RunNext
  <2>4. CASE PatchSelf \/ Probe \/ Exploit \/ Claim
    <3>1. \E tool \in Tools : Await(tool)
      BY <2>4, RuntimeAssumption DEF PatchSelf, Probe, Exploit, Claim, Await
    <3> QED
      BY <2>1, <3>1 DEF RunNext
  <2> QED
    BY <1>2, <2>1, <2>2, <2>3, <2>4 DEF RunStep, UseTool
<1>3. CASE Raise \/ Killed
  BY <1>3 DEF Raise, Killed, RunNext, Failed
<1>4. CASE Hear \/ Tick
  BY <1>4 DEF Hear, Fold, Tick, runVars
<1>5. CASE MeshStep \/ SupStep \/ Exited \/ UNCHANGED vars
  BY <1>5 DEF MeshStep, SupStep, Exited, vars, mainVars
<1> QED
  BY <1>1, <1>2, <1>3, <1>4, <1>5 DEF Next

-----------------------------------------------------------------------------
\* Turns.  A run that has begun has taken a turn, and its turns are bounded.
TurnInv ==
  /\ pc \in Yields \cup Awaits \cup {"off", "over", "raised"}
  /\ turn \in 0..(MaxTurn + MaxTurns) /\ ran \in 0..MaxTurns
  /\ pc = "started" => turn < MaxTurn
  /\ pc \in (Yields \cup Awaits) \ {"started"} => ran > 0 /\ turn < MaxTurn + ran

LEMMA TurnStep == ASSUME TurnInv, RunNext PROVE TurnInv'
<1> USE RuntimeAssumption DEF TurnInv, Yields, Awaits
<1>1. CASE (Launch /\ turn < MaxTurn) \/ BeginRun
  BY <1>1 DEF Launch, BeginRun
<1>2. CASE BeginTurn \/ Compress \/ NoSummary \/ Compressed
  BY <1>2 DEF BeginTurn, Compress, NoSummary, Compressed, CallModel
<1>3. CASE TextDelta \/ NextDelta \/ ToolCallStart \/ Retry
  BY <1>3 DEF TextDelta, NextDelta, ToolCallStart, Retry
<1>4. CASE GiveUp \/ Reminded \/ Failed \/ RunGone
  BY <1>4 DEF GiveUp, Reminded, Failed, RunGone, Abandon
<1>5. CASE MessageComplete \/ Spoke
  BY <1>5 DEF MessageComplete, Spoke, Reply, Abandon
<1>6. CASE NextCall \/ AddToolResults \/ Nudge
  BY <1>6 DEF NextCall, AddToolResults, Nudge
<1>7. CASE EndTurn
  BY <1>7 DEF EndTurn, Abandon
<1>8. CASE RunAtOnce \/ ToolReturns \/ \E tool \in Tools : Await(tool)
  BY <1>8 DEF RunAtOnce, ToolReturns, Await
<1> QED
  BY <1>1, <1>2, <1>3, <1>4, <1>5, <1>6, <1>7, <1>8 DEF RunNext

\* The calls of a reply are those of one attempt.
ReplyInv ==
  /\ attempt \in 0..MaxRetries /\ text \subseteq 0..MaxRetries
  /\ calls \in Seq(0..MaxRetries) /\ Len(calls) <= MaxCalls
  /\ k \in 1..MaxCalls /\ running \in Tools \cup {None} /\ usage \in {"low", "high"}
  /\ pc \in {"stream", "delta", "spoke", "call", "tool", "called"} =>
       \A i \in 1..Len(calls) : calls[i] = attempt

LEMMA ReplyStep == ASSUME ReplyInv, RunNext PROVE ReplyInv'
<1> DEFINE Rest == /\ attempt \in 0..MaxRetries /\ text \subseteq 0..MaxRetries
                   /\ k \in 1..MaxCalls /\ running \in Tools \cup {None}
                   /\ usage \in {"low", "high"}
           InReply == pc \in {"stream", "delta", "spoke", "call", "tool", "called"}
<1> USE RuntimeAssumption
<1>a. Rest /\ 0 \in 0..MaxRetries /\ 1 \in 1..MaxCalls
  BY DEF ReplyInv
<1>b. ASSUME Rest', calls' = <<>> PROVE ReplyInv'
  <2>1. calls' \in Seq(0..MaxRetries) /\ Len(calls') = 0
    BY <1>b
  <2> QED
    BY <1>b, <2>1 DEF ReplyInv
<1>c. ASSUME Rest', calls' = calls, InReply' => InReply /\ attempt' = attempt
      PROVE  ReplyInv'
  BY <1>c DEF ReplyInv
<1>1. CASE Launch \/ BeginRun
  BY <1>1, <1>a, <1>c DEF Launch, BeginRun
<1>2. CASE NoSummary \/ Compressed \/ CallModel
  BY <1>2, <1>a, <1>b DEF NoSummary, Compressed, CallModel
<1>3. CASE BeginTurn \/ Compress
  BY <1>2, <1>3, <1>a, <1>c DEF BeginTurn, Compress
<1>4. CASE TextDelta \/ NextDelta
  BY <1>4, <1>a, <1>c DEF TextDelta, NextDelta
<1>5. CASE ToolCallStart
  BY <1>5 DEF ToolCallStart, ReplyInv
<1>6. CASE Retry
  <2>1. attempt' \in 0..MaxRetries
    BY <1>6, <1>a DEF Retry
  <2> QED
    BY <1>6, <1>a, <1>b, <2>1 DEF Retry, Begun
<1>7. CASE GiveUp \/ Reminded \/ RunGone
  BY <1>7, <1>a, <1>b DEF GiveUp, Reminded, RunGone, Abandon
<1>8. CASE MessageComplete \/ Spoke
  <2>1. usage' \in {"low", "high"}
    BY <1>8, <1>a DEF MessageComplete, Spoke
  <2>2. CASE Reply
    <3>1. CASE calls = <<>>
      BY <2>1, <2>2, <3>1, <1>a, <1>b DEF Reply, Abandon
    <3>2. CASE calls # <<>>
      BY <1>8, <2>1, <2>2, <3>2, <1>a, <1>c DEF Reply, MessageComplete, Spoke
    <3> QED
      BY <3>1, <3>2
  <2>3. CASE ~Reply
    BY <1>8, <2>1, <2>3, <1>a, <1>c DEF MessageComplete, Spoke
  <2> QED
    BY <2>2, <2>3
<1>9. CASE NextCall
  <2>1. k' \in 1..MaxCalls
    BY <1>9 DEF NextCall, ReplyInv
  <2> QED
    BY <1>9, <2>1, <1>a, <1>c DEF NextCall
<1>10. CASE AddToolResults
  BY <1>10, <1>a, <1>b DEF AddToolResults
<1>11. CASE EndTurn
  <2>1. CASE Abandon
    BY <1>11, <2>1, <1>a, <1>b DEF EndTurn, Abandon
  <2>2. CASE ~Abandon
    BY <1>11, <2>2, <1>a, <1>c DEF EndTurn
  <2> QED
    BY <2>1, <2>2
<1>12. CASE Nudge \/ Failed
  BY <1>12, <1>a, <1>c DEF Nudge, Failed
<1>13. CASE RunAtOnce \/ ToolReturns \/ \E tool \in Tools : Await(tool)
  BY <1>13, <1>a, <1>c DEF RunAtOnce, ToolReturns, Await
<1> QED
  BY <1>1, <1>2, <1>3, <1>4, <1>5, <1>6, <1>7, <1>8, <1>9, <1>10, <1>11, <1>12, <1>13
  DEF RunNext

\* The calls that are run all come from the attempt that completed, however
\* many attempts had begun calls before they failed, for any number of retries
\* and calls (anthropic_client.py, 128-147 and 149-241).
THEOREM CallsAreFromOneReply == Spec => []CallsFromOneReply
<1>1. Init => ReplyInv
  BY RuntimeAssumption DEF Init, RunInit, ReplyInv
<1>2. ReplyInv /\ [Next]_vars => ReplyInv'
  BY RunFrame, ReplyStep DEF ReplyInv, runVars
<1>3. ReplyInv => CallsFromOneReply
  BY DEF ReplyInv, CallsFromOneReply
<1> QED
  BY <1>1, <1>2, <1>3, PTL DEF Spec

\* The history of the loop detector keeps its maxlen.
HistoryInv == history \in Seq(Requests \cup Lines) /\ Len(history) <= Window

LEMMA WindowIsPositive == Window \in Nat \ {0}
  BY RuntimeAssumption DEF Window

LEMMA RecordKeeps ==
  ASSUME NEW S, NEW h \in Seq(S), Len(h) <= Window, NEW action \in S
  PROVE  Record(h, action) \in Seq(S) /\ Len(Record(h, action)) <= Window
<1> DEFINE all == Append(h, action)
<1>1. all \in Seq(S) /\ Len(all) = Len(h) + 1 /\ Len(h) \in Nat
  OBVIOUS
<1>2. all # <<>>
  BY <1>1
<1> HIDE DEF all
<1>3. Tail(all) \in Seq(S) /\ Len(Tail(all)) = Len(all) - 1
  BY <1>1, <1>2
<1>4. Record(h, action) = IF Len(all) <= Window THEN all ELSE Tail(all)
  BY DEF Record, all
<1> QED
  BY <1>1, <1>3, <1>4, WindowIsPositive

LEMMA HistoryStep == ASSUME HistoryInv, RunNext PROVE HistoryInv'
<1>1. CASE UNCHANGED history
  BY <1>1 DEF HistoryInv
<1>2. CASE Spoke
  <2>1. PICK line \in Lines : history' = Record(history, line)
    BY <1>2 DEF Spoke
  <2> QED
    BY <2>1, RecordKeeps DEF HistoryInv
<1>3. CASE RunAtOnce \/ \E tool \in Tools : Await(tool)
  <2>1. PICK request \in Requests : history' = Record(history, request)
    BY <1>3 DEF RunAtOnce, Await, RecordCall
  <2> QED
    BY <2>1, RecordKeeps DEF HistoryInv
<1>4. CASE RunGone
  BY <1>4, WindowIsPositive DEF RunGone, HistoryInv
<1>5. CASE Launch \/ BeginRun \/ BeginTurn \/ Compress \/ NoSummary \/ Compressed
  BY <1>1, <1>5 DEF Launch, BeginRun, BeginTurn, Compress, NoSummary, Compressed, CallModel
<1>6. CASE TextDelta \/ NextDelta \/ ToolCallStart \/ Retry \/ GiveUp \/ MessageComplete
  BY <1>1, <1>6 DEF TextDelta, NextDelta, ToolCallStart, Retry, GiveUp, MessageComplete
<1>7. CASE NextCall \/ AddToolResults \/ Nudge \/ EndTurn \/ ToolReturns \/ Reminded \/ Failed
  BY <1>1, <1>7 DEF NextCall, AddToolResults, Nudge, EndTurn, ToolReturns, Reminded, Failed
<1> QED
  BY <1>2, <1>3, <1>4, <1>5, <1>6, <1>7 DEF RunNext

-----------------------------------------------------------------------------
\* The conversation.
Message == [kind : {"user", "summary", "text", "uses", "results"}, turn : Nat]

\* Calls are followed by their results, but for those of a last message that
\* may still be open.
Paired(ms, open) ==
  \A i \in 1..Len(ms) : ms[i].kind = "uses" =>
    \/ i < Len(ms) /\ ms[i + 1] = Results(ms[i].turn)
    \/ i = Len(ms) /\ open

\* Results follow their calls, or a summary of more than what a compression
\* keeps: the next compression then drops them or leaves them in their place.
Preceded(ms) ==
  \A i \in 1..Len(ms) : ms[i].kind = "results" =>
    \/ i > 1 /\ ms[i - 1] = Uses(ms[i].turn)
    \/ i = 2 /\ ms[1].kind = "summary" /\ Len(ms) > KeepLast

Conversation(ms, open) == ms \in Seq(Message) /\ Paired(ms, open) /\ Preceded(ms)

LEMMA MessageFacts ==
  ASSUME NEW t \in Nat
  PROVE  /\ Uses(t) \in Message /\ Uses(t).kind = "uses" /\ Uses(t).turn = t
         /\ Results(t) \in Message /\ Results(t).kind = "results" /\ Results(t).turn = t
         /\ User \in Message /\ User.kind = "user" /\ User.turn = 0
         /\ Text \in Message /\ Text.kind = "text" /\ Text.turn = 0
         /\ Summary \in Message /\ Summary.kind = "summary" /\ Summary.turn = 0
  BY DEF Message, Uses, Results, User, Text, Summary

LEMMA MessageAt ==
  ASSUME NEW ms \in Seq(Message), NEW i \in 1..Len(ms)
  PROVE  /\ ms[i].turn \in Nat
         /\ ms[i].kind \in {"user", "summary", "text", "uses", "results"}
<1>1. ms[i] \in Message
  <2> HIDE DEF Message
  <2> QED
    OBVIOUS
<1> QED
  BY <1>1 DEF Message

LEMMA AppendMessage ==
  ASSUME NEW ms \in Seq(Message), NEW m \in Message
  PROVE  /\ Append(ms, m) \in Seq(Message) /\ Len(Append(ms, m)) = Len(ms) + 1
         /\ Len(ms) \in Nat /\ Append(ms, m)[Len(ms) + 1] = m
         /\ \A i \in 1..Len(ms) : Append(ms, m)[i] = ms[i]
<1> HIDE DEF Message
<1> QED
  OBVIOUS

\* A message that is no results goes after a conversation with nothing open;
\* then calls may be open.
LEMMA SaySomething ==
  ASSUME NEW ms, Conversation(ms, FALSE), NEW m \in Message, m.kind # "results",
         NEW open \in BOOLEAN, m.kind = "uses" => open
  PROVE  Conversation(Append(ms, m), open)
<1> DEFINE new == Append(ms, m)
           n == Len(ms)
<1>1. /\ ms \in Seq(Message) /\ new \in Seq(Message) /\ Len(new) = n + 1 /\ n \in Nat
      /\ new[n + 1] = m /\ \A i \in 1..n : new[i] = ms[i]
  BY AppendMessage DEF Conversation
<1>2. Paired(ms, FALSE) /\ Preceded(ms)
  BY DEF Conversation
<1> HIDE DEF new
<1>3. ASSUME NEW i \in 1..Len(new), new[i].kind = "uses"
      PROVE  (i < Len(new) /\ new[i + 1] = Results(new[i].turn)) \/ (i = Len(new) /\ open)
  <2>1. CASE i = n + 1
    BY <1>1, <1>3, <2>1
  <2>2. CASE i # n + 1
    <3>1. i \in 1..n /\ new[i] = ms[i]
      BY <1>1, <2>2
    <3>2. i < n /\ ms[i + 1] = Results(ms[i].turn)
      BY <1>2, <1>3, <3>1 DEF Paired
    <3>3. i + 1 \in 1..n
      BY <1>1, <3>1, <3>2
    <3> QED
      BY <1>1, <3>1, <3>2, <3>3
  <2> QED
    BY <2>1, <2>2
<1>4. ASSUME NEW i \in 1..Len(new), new[i].kind = "results"
      PROVE  \/ i > 1 /\ new[i - 1] = Uses(new[i].turn)
             \/ i = 2 /\ new[1].kind = "summary" /\ Len(new) > KeepLast
  <2>1. i \in 1..n /\ new[i] = ms[i]
    BY <1>1, <1>4
  <2>2. \/ i > 1 /\ ms[i - 1] = Uses(ms[i].turn)
        \/ i = 2 /\ ms[1].kind = "summary" /\ Len(ms) > KeepLast
    BY <1>2, <1>4, <2>1 DEF Preceded
  <2>3. i > 1 => i - 1 \in 1..n
    BY <1>1, <2>1
  <2> QED
    BY <1>1, <2>1, <2>2, <2>3, RuntimeAssumption
<1> QED
  BY <1>1, <1>3, <1>4 DEF Conversation, Paired, Preceded, new

\* The results go after their calls.
LEMMA AnswerCalls ==
  ASSUME NEW ms, Conversation(ms, TRUE), NEW t \in Nat, Len(ms) > 0, ms[Len(ms)] = Uses(t)
  PROVE  Conversation(Append(ms, Results(t)), FALSE)
<1> DEFINE m == Results(t)
           new == Append(ms, m)
           n == Len(ms)
<1>1. /\ ms \in Seq(Message) /\ new \in Seq(Message) /\ Len(new) = n + 1 /\ n \in Nat
      /\ new[n + 1] = m /\ \A i \in 1..n : new[i] = ms[i]
  BY AppendMessage, MessageFacts DEF Conversation
<1>2. Paired(ms, TRUE) /\ Preceded(ms)
  BY DEF Conversation
<1>3. m.kind = "results" /\ m.turn = t /\ ms[n] = Uses(t) /\ Uses(t).turn = t /\ n \in 1..n
  BY <1>1, MessageFacts
<1> HIDE DEF new, m
<1>4. ASSUME NEW i \in 1..Len(new), new[i].kind = "uses"
      PROVE  i < Len(new) /\ new[i + 1] = Results(new[i].turn)
  <2>1. i \in 1..n /\ new[i] = ms[i]
    BY <1>1, <1>3, <1>4
  <2>2. CASE i = n
    BY <1>1, <1>3, <2>1, <2>2 DEF m
  <2>3. CASE i # n
    <3>1. i < n /\ ms[i + 1] = Results(ms[i].turn)
      BY <1>2, <1>4, <2>1, <2>3 DEF Paired
    <3>2. i + 1 \in 1..n
      BY <1>1, <2>1, <3>1
    <3> QED
      BY <1>1, <2>1, <3>1, <3>2
  <2> QED
    BY <2>2, <2>3
<1>5. ASSUME NEW i \in 1..Len(new), new[i].kind = "results"
      PROVE  \/ i > 1 /\ new[i - 1] = Uses(new[i].turn)
             \/ i = 2 /\ new[1].kind = "summary" /\ Len(new) > KeepLast
  <2>1. CASE i = n + 1
    <3>1. i > 1 /\ i - 1 = n
      BY <1>1, <2>1
    <3> QED
      BY <1>1, <1>3, <2>1, <3>1
  <2>2. CASE i # n + 1
    <3>1. i \in 1..n /\ new[i] = ms[i]
      BY <1>1, <2>2
    <3>2. \/ i > 1 /\ ms[i - 1] = Uses(ms[i].turn)
          \/ i = 2 /\ ms[1].kind = "summary" /\ Len(ms) > KeepLast
      BY <1>2, <1>5, <3>1 DEF Preceded
    <3>3. i > 1 => i - 1 \in 1..n
      BY <1>1, <3>1
    <3> QED
      BY <1>1, <3>1, <3>2, <3>3, RuntimeAssumption
  <2> QED
    BY <2>1, <2>2
<1> QED
  BY <1>1, <1>4, <1>5 DEF Conversation, Paired, Preceded, new, m

\* A compression keeps the newest messages after the summary.
LEMMA SummaryFirst ==
  ASSUME NEW S, NEW m \in S, NEW seq \in Seq(S)
  PROVE  /\ <<m>> \o seq \in Seq(S) /\ Len(<<m>> \o seq) = Len(seq) + 1 /\ Len(seq) \in Nat
         /\ (<<m>> \o seq)[1] = m
         /\ \A j \in 1..Len(seq) : (<<m>> \o seq)[j + 1] = seq[j]
  OBVIOUS

LEMMA NewestKept ==
  ASSUME NEW S, NEW seq \in Seq(S), NEW d \in 0..Len(seq)
  PROVE  /\ SubSeq(seq, d + 1, Len(seq)) \in Seq(S)
         /\ Len(SubSeq(seq, d + 1, Len(seq))) = Len(seq) - d
         /\ \A j \in 1..(Len(seq) - d) : SubSeq(seq, d + 1, Len(seq))[j] = seq[d + j]
  OBVIOUS

LEMMA ReplaceFacts ==
  ASSUME NEW ms \in Seq(Message)
  PROVE  \E d \in 0..Len(ms) :
           /\ d = IF Len(ms) <= KeepLast THEN 0 ELSE Len(ms) - KeepLast
           /\ ReplaceWithSummary(ms) \in Seq(Message)
           /\ Len(ReplaceWithSummary(ms)) = Len(ms) - d + 1
           /\ ReplaceWithSummary(ms)[1] = Summary
           /\ \A j \in 1..(Len(ms) - d) : ReplaceWithSummary(ms)[j + 1] = ms[d + j]
<1> DEFINE n == Len(ms)
           d == IF n <= KeepLast THEN 0 ELSE n - KeepLast
           kept == IF n <= KeepLast THEN ms ELSE SubSeq(ms, n - KeepLast + 1, n)
<1>1. n \in Nat /\ KeepLast \in Nat \ {0} /\ Summary \in Message
  BY RuntimeAssumption, MessageFacts
<1>2. d \in 0..n
  BY <1>1
<1>3. /\ kept \in Seq(Message) /\ Len(kept) = n - d
      /\ \A j \in 1..(n - d) : kept[j] = ms[d + j]
  <2> HIDE DEF Message
  <2>1. CASE n <= KeepLast
    BY <1>1, <2>1
  <2>2. CASE ~(n <= KeepLast)
    <3>1. kept = SubSeq(ms, d + 1, n)
      BY <2>2
    <3> HIDE DEF kept, d
    <3> QED
      BY <1>2, <3>1, NewestKept
  <2> QED
    BY <2>1, <2>2
<1>4. ReplaceWithSummary(ms) = <<Summary>> \o kept
  BY DEF ReplaceWithSummary
<1>5. /\ ReplaceWithSummary(ms) \in Seq(Message)
      /\ Len(ReplaceWithSummary(ms)) = n - d + 1
      /\ ReplaceWithSummary(ms)[1] = Summary
      /\ \A j \in 1..(n - d) : ReplaceWithSummary(ms)[j + 1] = ms[d + j]
  <2> HIDE DEF Message, kept, d
  <2> QED
    BY <1>1, <1>3, <1>4, SummaryFirst
<1> HIDE DEF kept
<1> QED
  BY <1>2, <1>5

LEMMA SummaryKeeps ==
  ASSUME NEW ms, Conversation(ms, FALSE)
  PROVE  Conversation(ReplaceWithSummary(ms), FALSE)
<1> DEFINE new == ReplaceWithSummary(ms)
           n == Len(ms)
<1>1. ms \in Seq(Message) /\ n \in Nat /\ Paired(ms, FALSE) /\ Preceded(ms)
  BY AppendMessage, MessageFacts DEF Conversation
<1>2. PICK d \in 0..n :
        /\ d = IF n <= KeepLast THEN 0 ELSE n - KeepLast
        /\ new \in Seq(Message) /\ Len(new) = n - d + 1 /\ new[1] = Summary
        /\ \A j \in 1..(n - d) : new[j + 1] = ms[d + j]
  BY <1>1, ReplaceFacts
<1>3. Summary.kind = "summary" /\ KeepLast \in Nat \ {0}
  BY MessageFacts, RuntimeAssumption
<1>a. /\ n \in Nat /\ d \in 0..n /\ Len(new) = n - d + 1
      /\ d = 0 => n <= KeepLast
      /\ d # 0 => n > KeepLast /\ n - d = KeepLast
  BY <1>1, <1>2, <1>3
<1> HIDE DEF new, n
<1>4. ASSUME NEW i \in 1..Len(new), i # 1
      PROVE  /\ d + i - 1 \in 1..n /\ new[i] = ms[d + i - 1]
             /\ i # 2 => d + i - 2 \in 1..n /\ new[i - 1] = ms[d + i - 2]
             /\ i < Len(new) => d + i \in 1..n /\ new[i + 1] = ms[d + i]
  <2>1. /\ i - 1 \in 1..(n - d) /\ (i - 1) + 1 = i /\ d + (i - 1) = d + i - 1
        /\ d + i - 1 \in 1..n
    BY <1>a, <1>4
  <2>2. i # 2 => /\ i - 2 \in 1..(n - d) /\ (i - 2) + 1 = i - 1
                 /\ d + (i - 2) = d + i - 2 /\ d + i - 2 \in 1..n
    BY <1>a, <1>4
  <2>3. i < Len(new) => i \in 1..(n - d) /\ d + i \in 1..n
    BY <1>a, <1>4
  <2>4. new[i] = ms[d + i - 1]
    BY <1>2, <2>1
  <2>5. i # 2 => new[i - 1] = ms[d + i - 2]
    BY <1>2, <2>2
  <2>6. i < Len(new) => new[i + 1] = ms[d + i]
    BY <1>2, <2>3
  <2> QED
    BY <2>1, <2>2, <2>3, <2>4, <2>5, <2>6
<1>5. ASSUME NEW i \in 1..Len(new), new[i].kind = "uses"
      PROVE  i < Len(new) /\ new[i + 1] = Results(new[i].turn)
  <2>1. i # 1
    BY <1>2, <1>3, <1>5
  <2> DEFINE j == d + i - 1
  <2>2. j \in 1..n /\ new[i] = ms[j]
    BY <1>4, <2>1
  <2>3. j < n /\ ms[j + 1] = Results(ms[j].turn)
    BY <1>1, <1>5, <2>2 DEF Paired, n
  <2>4. i < Len(new) /\ j + 1 = d + i
    BY <1>a, <1>5, <2>3
  <2> QED
    BY <1>4, <2>1, <2>2, <2>3, <2>4
<1>6. ASSUME NEW i \in 1..Len(new), new[i].kind = "results"
      PROVE  \/ i > 1 /\ new[i - 1] = Uses(new[i].turn)
             \/ i = 2 /\ new[1].kind = "summary" /\ Len(new) > KeepLast
  <2>1. i # 1
    BY <1>2, <1>3, <1>6
  <2> DEFINE j == d + i - 1
  <2>2. j \in 1..n /\ new[i] = ms[j] /\ ms[j].kind = "results"
    BY <1>4, <1>6, <2>1
  <2>3. \/ j > 1 /\ ms[j - 1] = Uses(ms[j].turn)
        \/ j = 2 /\ ms[1].kind = "summary" /\ n > KeepLast
    BY <1>1, <2>2 DEF Preceded, n
  <2>4. CASE i = 2
    <3>1. n > KeepLast
      <4>1. CASE d = 0
        BY <1>a, <2>3, <2>4, <4>1
      <4>2. CASE d # 0
        BY <1>a, <4>2
      <4> QED
        BY <4>1, <4>2
    <3>2. Len(new) > KeepLast
      <4>1. d # 0
        BY <1>a, <1>3, <3>1
      <4> QED
        BY <1>a, <1>3, <4>1
    <3> QED
      BY <1>2, <1>3, <2>4, <3>2
  <2>5. CASE i # 2
    <3>1. i > 2 /\ j - 1 = d + i - 2
      BY <1>a, <1>6, <2>1, <2>5
    <3>2. new[i - 1] = ms[j - 1]
      BY <1>4, <2>1, <2>5, <3>1
    <3>3. ms[j - 1] = Uses(ms[j].turn)
      <4>1. CASE j = 2 /\ n > KeepLast
        <5>1. d > 0
          BY <1>a, <1>3, <4>1
        <5> QED
          BY <1>a, <3>1, <4>1, <5>1
      <4> QED
        BY <2>3, <4>1
    <3> QED
      BY <2>2, <3>1, <3>2, <3>3
  <2> QED
    BY <2>4, <2>5
<1> QED
  BY <1>2, <1>5, <1>6 DEF Conversation, Paired, Preceded, new

\* While calls are run the last message has them.  A generator abandoned there
\* leaves them open for good: the clock is out, and main() will not run again.
Pending == pc \in {"call", "tool", "called"}
Open == Pending \/ (pc = "over" /\ clock = "out")

ConvInv ==
  /\ Conversation(messages, Open)
  /\ Pending => Len(messages) > 0 /\ messages[Len(messages)] = Uses(turn)
  /\ \A i \in 1..Len(messages) : messages[i].turn <= turn

LEMMA ConversationOpens ==
  ASSUME NEW ms, Conversation(ms, FALSE), NEW open
  PROVE  Conversation(ms, open)
  BY DEF Conversation, Paired

LEMMA OpenIsBoolean == Open \in BOOLEAN /\ Open' \in BOOLEAN
  BY DEF Open, Pending

\* The conversation is left alone.
LEMMA ConvStays ==
  ASSUME ConvInv, TurnInv, UNCHANGED messages, turn' \in Nat, turn' >= turn,
         Open => Open', Pending' => Pending /\ turn' = turn
  PROVE  ConvInv'
<1>1. Conversation(messages, Open')
  <2>1. CASE Open
    <3>1. Open = Open'
      BY <2>1, OpenIsBoolean
    <3> QED
      BY <3>1 DEF ConvInv
  <2>2. CASE ~Open
    <3>1. Open = FALSE
      BY <2>2, OpenIsBoolean
    <3> QED
      BY <3>1, ConversationOpens DEF ConvInv
  <2> QED
    BY <2>1, <2>2
<1>2. Conversation(messages, Open)'
  BY <1>1 DEF Conversation, Paired, Preceded, Message
<1>3. \A i \in 1..Len(messages') : messages'[i].turn <= turn'
  <2> SUFFICES ASSUME NEW i \in 1..Len(messages) PROVE messages[i].turn <= turn'
    OBVIOUS
  <2>1. messages[i].turn \in Nat /\ messages[i].turn <= turn
    BY MessageAt DEF ConvInv, Conversation
  <2> QED
    BY <2>1 DEF TurnInv
<1> QED
  BY <1>2, <1>3 DEF ConvInv

\* A message is said while nothing is open.
LEMMA ConvSays ==
  ASSUME ConvInv, TurnInv, ~Open, NEW m \in Message, m.kind # "results",
         messages' = Append(messages, m), turn' \in Nat, turn' >= turn, m.turn <= turn',
         m.kind = "uses" => Open',
         Pending' => m = Uses(turn')
  PROVE  ConvInv'
<1>1. messages \in Seq(Message) /\ Conversation(messages, FALSE)
  <2>1. Open = FALSE
    BY OpenIsBoolean
  <2> QED
    BY <2>1 DEF ConvInv, Conversation
<1>2. Conversation(messages', Open')
  BY <1>1, OpenIsBoolean, SaySomething
<1>3. /\ Len(messages') = Len(messages) + 1 /\ Len(messages) \in Nat
      /\ messages'[Len(messages) + 1] = m
      /\ \A i \in 1..Len(messages) : messages'[i] = messages[i]
  BY <1>1, AppendMessage
<1>4. ASSUME NEW i \in 1..Len(messages') PROVE messages'[i].turn <= turn'
  <2>1. CASE i = Len(messages) + 1
    BY <1>3, <2>1
  <2>2. CASE i # Len(messages) + 1
    <3>1. i \in 1..Len(messages) /\ messages'[i] = messages[i]
      BY <1>3, <2>2
    <3>2. messages[i].turn \in Nat /\ messages[i].turn <= turn
      BY <1>1, <3>1, MessageAt DEF ConvInv
    <3> QED
      BY <3>1, <3>2 DEF TurnInv
  <2> QED
    BY <2>1, <2>2
<1>5. Conversation(messages, Open)'
  BY <1>2 DEF Conversation, Paired, Preceded, Message
<1>6. Pending' => Len(messages') > 0 /\ messages'[Len(messages')] = Uses(turn')
  BY <1>3
<1>7. Pending' => Len(messages') > 0 /\ messages'[Len(messages')] = Uses(turn)'
  BY <1>6 DEF Uses
<1> QED
  BY <1>4, <1>5, <1>7 DEF ConvInv

LEMMA ReplyConv ==
  ASSUME ConvInv, TurnInv, Reply, pc \in {"stream", "spoke"}, turn' = turn
  PROVE  ConvInv'
<1>1. ~Open /\ turn \in Nat
  BY RuntimeAssumption DEF Open, Pending, TurnInv
<1>2. CASE calls # <<>>
  <2>1. messages' = Append(messages, Uses(turn)) /\ pc' = "call"
    BY <1>2 DEF Reply, AddAssistantBlocks
  <2>2. Open'
    BY <2>1 DEF Open, Pending
  <2> QED
    BY <1>1, <2>1, <2>2, MessageFacts, ConvSays
<1>3. CASE calls = <<>>
  <2>1. pc' = "over" /\ ~Pending'
    BY <1>3 DEF Reply, Abandon, Pending
  <2>2. CASE text # {}
    <3>1. messages' = Append(messages, Text)
      BY <1>3, <2>2 DEF Reply, AddAssistantBlocks
    <3> QED
      BY <1>1, <2>1, <3>1, MessageFacts, ConvSays
  <2>3. CASE text = {}
    <3>1. messages' = messages
      BY <1>3, <2>3 DEF Reply, AddAssistantBlocks
    <3> QED
      BY <1>1, <2>1, <3>1, ConvStays
  <2> QED
    BY <2>2, <2>3
<1> QED
  BY <1>2, <1>3

LEMMA CompressConv == ASSUME ConvInv, TurnInv, Compress PROVE ConvInv'
<1>1. /\ messages' = ReplaceWithSummary(messages) /\ turn' = turn /\ turn \in Nat
      /\ ~Open /\ ~Pending'
  BY RuntimeAssumption DEF Compress, Open, Pending, TurnInv
<1>2. messages \in Seq(Message) /\ Conversation(messages, FALSE)
  <2>1. Open = FALSE
    BY <1>1, OpenIsBoolean
  <2> QED
    BY <2>1 DEF ConvInv, Conversation
<1>3. Conversation(messages', Open')
  BY <1>1, <1>2, SummaryKeeps, ConversationOpens
<1>4. \A i \in 1..Len(messages') : messages'[i].turn <= turn'
  <2>1. PICK d \in 0..Len(messages) :
          /\ Len(messages') = Len(messages) - d + 1 /\ messages'[1] = Summary
          /\ \A j \in 1..(Len(messages) - d) : messages'[j + 1] = messages[d + j]
    BY <1>1, <1>2, ReplaceFacts
  <2> SUFFICES ASSUME NEW i \in 1..Len(messages') PROVE messages'[i].turn <= turn
    BY <1>1
  <2>2. CASE i = 1
    BY <1>1, <2>1, <2>2, MessageFacts
  <2>3. CASE i # 1
    <3>1. Len(messages) \in Nat
      BY <1>2
    <3>2. /\ i - 1 \in 1..(Len(messages) - d) /\ (i - 1) + 1 = i
          /\ d + (i - 1) \in 1..Len(messages)
      BY <2>1, <2>3, <3>1
    <3>3. messages'[i] = messages[d + (i - 1)]
      BY <2>1, <3>2
    <3> QED
      BY <3>2, <3>3 DEF ConvInv
  <2> QED
    BY <2>2, <2>3
<1>5. Conversation(messages, Open)'
  BY <1>3 DEF Conversation, Paired, Preceded, Message
<1> QED
  BY <1>1, <1>4, <1>5 DEF ConvInv

LEMMA ResultsConv == ASSUME ConvInv, TurnInv, AddToolResults PROVE ConvInv'
<1>1. /\ messages' = Append(messages, Results(turn)) /\ turn' = turn /\ turn \in Nat
      /\ Pending /\ Open /\ ~Pending' /\ ~Open'
  BY RuntimeAssumption DEF AddToolResults, Open, Pending, TurnInv
<1>2. /\ messages \in Seq(Message) /\ Conversation(messages, TRUE)
      /\ Len(messages) > 0 /\ messages[Len(messages)] = Uses(turn)
  <2>1. Open = TRUE
    BY <1>1, OpenIsBoolean
  <2> QED
    BY <1>1, <2>1 DEF ConvInv, Conversation
<1>3. Conversation(messages', FALSE)
  BY <1>1, <1>2, AnswerCalls
<1>4. Conversation(messages', Open')
  BY <1>3, ConversationOpens
<1>5. /\ Len(messages') = Len(messages) + 1 /\ Len(messages) \in Nat
      /\ messages'[Len(messages) + 1] = Results(turn) /\ Results(turn).turn = turn
      /\ \A i \in 1..Len(messages) : messages'[i] = messages[i]
  BY <1>1, <1>2, AppendMessage, MessageFacts
<1>6. ASSUME NEW i \in 1..Len(messages') PROVE messages'[i].turn <= turn'
  <2>1. CASE i = Len(messages) + 1
    BY <1>1, <1>5, <2>1
  <2>2. CASE i # Len(messages) + 1
    <3>1. i \in 1..Len(messages) /\ messages'[i] = messages[i]
      BY <1>5, <2>2
    <3> QED
      BY <1>1, <3>1 DEF ConvInv
  <2> QED
    BY <2>1, <2>2
<1>7. Conversation(messages, Open)'
  BY <1>4 DEF Conversation, Paired, Preceded, Message
<1> QED
  BY <1>1, <1>6, <1>7 DEF ConvInv

LEMMA EmptyConversation == ASSUME NEW open PROVE Conversation(<<>>, open)
<1>1. <<>> \in Seq(Message) /\ Len(<<>>) = 0
  OBVIOUS
<1> QED
  BY <1>1 DEF Conversation, Paired, Preceded

LEMMA ConvStep ==
  ASSUME ConvInv, TurnInv, RunNext, TurnInv', clock = "out" => clock' = "out"
  PROVE  ConvInv'
<1>0. turn \in Nat /\ turn' \in Nat
  BY RuntimeAssumption DEF TurnInv
<1> USE DEF Open, Pending, Yields, Awaits
<1>1. CASE Launch /\ clock = "plenty"
  BY <1>0, <1>1, ConvStays DEF Launch
<1>2. CASE BeginRun
  <2>1. /\ messages' = Append(messages, User) /\ turn' >= turn /\ ~Open /\ ~Pending'
    BY <1>0, <1>2 DEF BeginRun
  <2>2. User \in Message /\ User.kind = "user" /\ User.turn <= turn'
    BY <1>0, MessageFacts
  <2> QED
    BY <1>0, <2>1, <2>2, ConvSays
<1>3. CASE BeginTurn \/ NoSummary \/ Compressed
  BY <1>0, <1>3, ConvStays DEF BeginTurn, NoSummary, Compressed, CallModel
<1>4. CASE Compress
  BY <1>4, CompressConv
<1>5. CASE TextDelta \/ NextDelta \/ ToolCallStart \/ Retry
  BY <1>0, <1>5, ConvStays DEF TextDelta, NextDelta, ToolCallStart, Retry
<1>6. CASE GiveUp \/ Failed
  BY <1>0, <1>6, ConvStays DEF GiveUp, Failed, Abandon
<1>7. CASE Reminded
  BY <1>0, <1>7, ConvStays DEF Reminded, Abandon
<1>8. CASE MessageComplete
  <2>1. CASE Reply
    BY <1>8, <2>1, ReplyConv DEF MessageComplete
  <2>2. CASE ~Reply
    BY <1>0, <1>8, <2>2, ConvStays DEF MessageComplete
  <2> QED
    BY <2>1, <2>2
<1>9. CASE Spoke
  BY <1>9, ReplyConv DEF Spoke
<1>10. CASE NextCall
  BY <1>0, <1>10, ConvStays DEF NextCall
<1>11. CASE AddToolResults
  BY <1>11, ResultsConv
<1>12. CASE Nudge
  <2>1. messages' = Append(messages, User) /\ turn' = turn /\ ~Open /\ ~Pending'
    BY <1>12 DEF Nudge
  <2>2. User \in Message /\ User.kind = "user" /\ User.turn <= turn'
    BY <1>0, MessageFacts
  <2> QED
    BY <1>0, <2>1, <2>2, ConvSays
<1>13. CASE EndTurn
  BY <1>0, <1>13, ConvStays DEF EndTurn, Abandon
<1>14. CASE RunAtOnce \/ ToolReturns \/ \E tool \in Tools : Await(tool)
  BY <1>0, <1>14, ConvStays DEF RunAtOnce, ToolReturns, Await
<1>15. CASE RunGone
  <2>1. messages' = <<>> /\ ~Pending'
    BY <1>15 DEF RunGone
  <2>2. Conversation(messages', Open')
    BY <2>1, EmptyConversation
  <2>3. Conversation(messages, Open)'
    BY <2>2 DEF Conversation, Paired, Preceded, Message
  <2> QED
    BY <2>1, <2>3 DEF ConvInv
<1> QED
  BY <1>1, <1>2, <1>3, <1>4, <1>5, <1>6, <1>7, <1>8, <1>9, <1>10, <1>11, <1>12, <1>13, <1>14,
     <1>15 DEF RunNext

-----------------------------------------------------------------------------
RunInv == TurnInv /\ ReplyInv /\ HistoryInv /\ ConvInv

LEMMA RunInitInv == Init => RunInv
<1> SUFFICES ASSUME Init PROVE RunInv
  OBVIOUS
<1> USE RuntimeAssumption
<1>1. /\ messages = <<>> /\ turn = 0 /\ ran = 0 /\ pc = "off" /\ history = <<>>
      /\ attempt = 0 /\ text = {} /\ calls = <<>> /\ k = 1 /\ running = None /\ usage = "low"
  BY DEF Init, RunInit
<1>2. TurnInv
  BY <1>1 DEF TurnInv, Yields, Awaits
<1>3. ReplyInv
  BY <1>1 DEF ReplyInv
<1>4. HistoryInv
  BY <1>1, WindowIsPositive DEF HistoryInv
<1>5. ConvInv
  BY <1>1, EmptyConversation DEF ConvInv, Pending
<1> QED
  BY <1>2, <1>3, <1>4, <1>5 DEF RunInv

LEMMA RunInvStep == RunInv /\ [Next]_vars => RunInv'
<1> SUFFICES ASSUME RunInv, [Next]_vars PROVE RunInv'
  OBVIOUS
<1>1. RunNext \/ UNCHANGED runVars
  BY RunFrame
<1>2. clock = "out" => clock' = "out"
  BY RunFrame
<1>3. CASE RunNext
  <2>1. TurnInv' /\ ReplyInv' /\ HistoryInv'
    BY <1>3, TurnStep, ReplyStep, HistoryStep DEF RunInv
  <2>2. ConvInv'
    BY <1>2, <1>3, <2>1, ConvStep DEF RunInv
  <2> QED
    BY <2>1, <2>2 DEF RunInv
<1>4. CASE UNCHANGED runVars
  <2>1. TurnInv' /\ ReplyInv' /\ HistoryInv'
    BY <1>4 DEF RunInv, TurnInv, ReplyInv, HistoryInv, runVars
  <2>2. turn \in Nat /\ turn' = turn /\ messages' = messages /\ pc' = pc
    BY <1>4, RuntimeAssumption DEF RunInv, TurnInv, runVars
  <2>3. ConvInv'
    BY <1>2, <2>2, ConvStays DEF RunInv, Open, Pending
  <2> QED
    BY <2>1, <2>3 DEF RunInv
<1> QED
  BY <1>1, <1>3, <1>4

LEMMA WireFacts ==
  ASSUME NEW ms \in Seq(Message), NEW i \in 1..Len(ms)
  PROVE  /\ Wire(ms)[i].uses = (ms[i].kind = "uses")
         /\ Wire(ms)[i].turn = ms[i].turn
         /\ Wire(ms)[i].role = "tool" <=> ms[i].kind = "results"
<1>1. /\ Wire(ms)[i].uses = (ms[i].kind = "uses") /\ Wire(ms)[i].turn = ms[i].turn
      /\ Wire(ms)[i].role = Role(ms[i])
  BY DEF Wire
<1>2. ms[i].kind \in {"user", "summary", "text", "uses", "results"}
  BY MessageAt
<1>3. Role(ms[i]) = "tool" <=> ms[i].kind = "results"
  BY <1>2 DEF Role
<1> QED
  BY <1>1, <1>3

\* Every request that reaches the model keeps the tool protocol, for any number
\* of turns, calls and compressions, whatever a compression keeps and wherever
\* it cuts: calls are followed by their results, and results follow their calls
\* or the summary (orchestrator.py, 22-145; combatant/main.py, 203-212).
THEOREM ToolUseIsAnswered == Spec => []ToolUseAnswered
<1>1. RunInv => ToolUseAnswered
  <2> SUFFICES ASSUME RunInv, pc = "stream"
               PROVE  LET request == Wire(messages) IN
                      /\ \A i \in 1..Len(request) : request[i].uses =>
                           /\ i < Len(request)
                           /\ request[i + 1].role = "tool" /\ request[i + 1].turn = request[i].turn
                      /\ \A i \in 1..Len(request) : request[i].role = "tool" =>
                           \/ i > 1 /\ request[i - 1].uses /\ request[i - 1].turn = request[i].turn
                           \/ i = 2 /\ messages[1].kind = "summary"
    BY DEF ToolUseAnswered
  <2> DEFINE request == Wire(messages)
             n == Len(messages)
  <2>1. ~Open
    BY DEF Open, Pending
  <2>2. /\ messages \in Seq(Message) /\ Paired(messages, FALSE) /\ Preceded(messages)
        /\ n \in Nat
    BY <2>1 DEF RunInv, ConvInv, Conversation, Paired
  <2>3. Len(request) = n
    BY <2>2 DEF Wire
  <2>4. \A i \in 1..n : /\ request[i].uses = (messages[i].kind = "uses")
                        /\ request[i].turn = messages[i].turn /\ messages[i].turn \in Nat
                        /\ request[i].role = "tool" <=> messages[i].kind = "results"
    BY <2>2, WireFacts, MessageAt
  <2> HIDE DEF request
  <2>5. ASSUME NEW i \in 1..n, request[i].uses
        PROVE  i < n /\ request[i + 1].role = "tool" /\ request[i + 1].turn = request[i].turn
    <3>1. i < n /\ messages[i + 1] = Results(messages[i].turn)
      BY <2>2, <2>4, <2>5 DEF Paired
    <3>2. i + 1 \in 1..n
      BY <2>2, <3>1
    <3>3. messages[i + 1].kind = "results" /\ messages[i + 1].turn = messages[i].turn
      BY <2>4, <3>1, MessageFacts
    <3> QED
      BY <2>4, <3>1, <3>2, <3>3
  <2>6. ASSUME NEW i \in 1..n, request[i].role = "tool"
        PROVE  \/ i > 1 /\ request[i - 1].uses /\ request[i - 1].turn = request[i].turn
               \/ i = 2 /\ messages[1].kind = "summary"
    <3>1. \/ i > 1 /\ messages[i - 1] = Uses(messages[i].turn)
          \/ i = 2 /\ messages[1].kind = "summary"
      BY <2>2, <2>4, <2>6 DEF Preceded
    <3>2. CASE i > 1 /\ messages[i - 1] = Uses(messages[i].turn)
      <4>1. i - 1 \in 1..n
        BY <2>2, <3>2
      <4>2. messages[i - 1].kind = "uses" /\ messages[i - 1].turn = messages[i].turn
        BY <2>4, <3>2, MessageFacts
      <4> QED
        BY <2>4, <3>2, <4>1, <4>2
    <3> QED
      BY <3>1, <3>2
  <2> QED
    BY <2>3, <2>5, <2>6 DEF request
<1> QED
  BY <1>1, RunInitInv, RunInvStep, PTL DEF Spec

-----------------------------------------------------------------------------
\* The types of the mesh: only an envelope that was broadcast is on its way.
MeshInv == MeshTypeOK /\ \A id \in Envelope : wire[id] > 0 => id <= spoken

LEMMA LongerSeq ==
  ASSUME NEW n \in Nat, NEW seq \in Seq(1..n)
  PROVE  seq \in Seq(1..(n + 1))
  OBVIOUS

LEMMA TakeTypes ==
  ASSUME MeshInv, NEW x, Take(x), x \in Envelope \cup {Garbage, Foreign}
  PROVE  /\ wire' \in [Envelope \cup {Garbage, Foreign} -> 0..2]
         /\ \A id \in Envelope : wire'[id] > 0 => id <= spoken
         /\ x \in Envelope => x \in 1..spoken
<1>1. /\ wire \in [Envelope \cup {Garbage, Foreign} -> 0..2] /\ spoken \in Nat
      /\ wire' = [wire EXCEPT ![x] = wire[x] - 1] /\ wire[x] > 0
  BY MeshAssumption DEF MeshInv, MeshTypeOK, Take
<1>2. wire[x] - 1 \in 0..2
  BY <1>1
<1>3. wire' \in [Envelope \cup {Garbage, Foreign} -> 0..2]
  BY <1>1, <1>2
<1>4. ASSUME NEW id \in Envelope, wire'[id] > 0 PROVE wire[id] > 0
  BY <1>1, <1>4
<1>5. x \in Envelope => x \in 1..spoken
  BY <1>1 DEF MeshInv, Envelope
<1> QED
  BY <1>3, <1>4, <1>5 DEF MeshInv

LEMMA MeshInvStep == ASSUME MeshInv, MeshNext PROVE MeshInv'
<1> DEFINE Stays == UNCHANGED <<spoken, seen, inbox, trimmed>>
<1>a. ASSUME NEW x, x \in Envelope \cup {Garbage, Foreign}, Take(x), Stays,
             loop' \in {"off", "on", "dead", "stopped"}
      PROVE  MeshInv'
  BY <1>a, TakeTypes DEF MeshInv, MeshTypeOK, Envelope, Garbage, Foreign
<1>1. CASE OpponentBroadcasts
  <2>1. PICK copies \in 0..2 : wire' = [wire EXCEPT ![spoken + 1] = copies]
    BY <1>1 DEF OpponentBroadcasts
  <2>2. spoken \in Nat /\ spoken + 1 \in Envelope /\ spoken' = spoken + 1
    BY <1>1, MeshAssumption DEF OpponentBroadcasts, MeshInv, MeshTypeOK, Envelope
  <2>3. wire \in [Envelope \cup {Garbage, Foreign} -> 0..2]
    BY DEF MeshInv, MeshTypeOK
  <2>4. wire' \in [Envelope \cup {Garbage, Foreign} -> 0..2]
    BY <2>1, <2>2, <2>3
  <2>5. \A id \in Envelope : wire'[id] > 0 => id <= spoken'
    BY <2>1, <2>2, <2>3 DEF MeshInv, Envelope
  <2>6. inbox \in Seq(1..spoken) /\ seen \subseteq 1..spoken
    BY DEF MeshInv, MeshTypeOK
  <2>7. inbox' \in Seq(1..spoken') /\ seen' \subseteq 1..spoken'
    BY <1>1, <2>2, <2>6, LongerSeq DEF OpponentBroadcasts
  <2>8. spoken' \in 0..MaxEnvelopes
    BY <2>2, MeshAssumption DEF Envelope
  <2>9. loop' = loop /\ trimmed' = trimmed
    BY <1>1 DEF OpponentBroadcasts
  <2> QED
    BY <2>4, <2>5, <2>7, <2>8, <2>9 DEF MeshInv, MeshTypeOK, Envelope, Garbage, Foreign
<1>2. CASE StrangerSends
  BY <1>2, MeshAssumption
  DEF StrangerSends, MeshInv, MeshTypeOK, Envelope, Garbage, Foreign
<1>3. CASE Malformed \/ UnexpectedFields
  BY <1>3, <1>a DEF Malformed, UnexpectedFields, MeshInv, MeshTypeOK
<1>4. ASSUME NEW id \in Envelope, Duplicate(id) PROVE MeshInv'
  BY <1>4, <1>a DEF Duplicate, MeshInv, MeshTypeOK
<1>5. ASSUME NEW id \in Envelope, Accepted(id) PROVE MeshInv'
  <2>1. Take(id) /\ spoken' = spoken /\ loop' = loop /\ inbox' = Append(inbox, id)
        /\ trimmed' \in BOOLEAN
    BY <1>5 DEF Accepted, MeshInv, MeshTypeOK
  <2>2. /\ wire' \in [Envelope \cup {Garbage, Foreign} -> 0..2] /\ id \in 1..spoken
        /\ \A x \in Envelope : wire'[x] > 0 => x <= spoken
    BY <2>1, TakeTypes
  <2>3. inbox' \in Seq(1..spoken)
    BY <2>1, <2>2 DEF MeshInv, MeshTypeOK
  <2>4. seen' \subseteq 1..spoken
    BY <1>5, <2>2 DEF Accepted, Remember, MeshInv, MeshTypeOK
  <2> QED
    BY <2>1, <2>2, <2>3, <2>4 DEF MeshInv, MeshTypeOK, Envelope, Garbage, Foreign
<1> QED
  BY <1>1, <1>2, <1>3, <1>4, <1>5 DEF MeshNext

\* Which steps of the process touch its receive loop.
LEMMA LoopFrame ==
  ASSUME [Next]_vars
  PROVE  \/ MeshNext \/ UNCHANGED meshVars
         \/ /\ UNCHANGED <<spoken, wire, seen, inbox, trimmed>>
            /\ Listen \/ StopListening
<1>1. CASE MainStep
  BY <1>1 DEF MainStep, Boot, Listen, Idle, Relaunch, Break, LeaveLoop, Finally
<1>2. CASE RunStep
  BY <1>2 DEF RunStep, Think, UseTool, Refuse, InspectSelf, PatchRejected, PatchSelf, Probe,
              Exploit, Claim, Handoff, Answered, Quiet
<1>3. CASE Raise \/ Killed \/ Hear \/ Tick
  BY <1>3 DEF Raise, Killed, Hear, Tick
<1>4. CASE MeshStep \/ SupStep
  BY <1>4 DEF MeshStep, SupStep
<1>5. CASE Exited \/ UNCHANGED vars
  BY <1>5 DEF Exited, vars
<1> QED
  BY <1>1, <1>2, <1>3, <1>4, <1>5 DEF Next

LEMMA LoopStep == MeshInv /\ [Next]_vars => MeshInv'
<1> SUFFICES ASSUME MeshInv, [Next]_vars PROVE MeshInv'
  OBVIOUS
<1>1. CASE MeshNext
  BY <1>1, MeshInvStep
<1>2. CASE /\ UNCHANGED <<spoken, wire, seen, inbox, trimmed>>
           /\ loop' = loop \/ Listen \/ StopListening
  <2>1. loop' \in {"off", "on", "dead", "stopped"}
    BY <1>2 DEF Listen, StopListening, MeshInv, MeshTypeOK
  <2> QED
    BY <1>2, <2>1 DEF MeshInv, MeshTypeOK, Envelope, Garbage, Foreign
<1> QED
  BY <1>1, <1>2, LoopFrame DEF meshVars

-----------------------------------------------------------------------------
\* Writing one place of a row keeps its type, also when the place is not there.
LEMMA RowWrite ==
  ASSUME NEW D, NEW S, NEW f \in [D -> S], NEW i, NEW v, i \in D => v \in S
  PROVE  [f EXCEPT ![i] = v] \in [D -> S]
OBVIOUS

\* The types of the supervisors.
LEMMA SupTypesStep == SupTypeOK /\ [Next]_vars => SupTypeOK'
<1> SUFFICES ASSUME SupTypeOK, [Next]_vars PROVE SupTypeOK'
  OBVIOUS
<1>0. Len(Specs) \in Nat
  BY SupervisorAssumption
<1>1. ASSUME NEW m \in Meshes, Spawn(m) PROVE SupTypeOK'
  <2> DEFINE i == SpawnOrder[cursor[m] + 1]
             row == [proc[m] EXCEPT ![i] = "live"]
  <2>1. row \in [Index -> {"none", "live", "dead"}]
    BY DEF SupTypeOK
  <2>2. /\ sup' = [sup EXCEPT ![m] = "waiting"] /\ cursor' = [cursor EXCEPT ![m] = cursor[m] + 1]
        /\ proc' = [proc EXCEPT ![m] = row] /\ UNCHANGED <<polled, port, peer>>
        /\ cursor[m] < Len(Specs)
    BY <1>1 DEF Spawn
  <2> HIDE DEF row
  <2>3. cursor' \in [Meshes -> 0..Len(Specs)]
    <3>1. cursor[m] + 1 \in 0..Len(Specs)
      BY <1>0, <2>2 DEF SupTypeOK
    <3> QED
      BY <2>2, <3>1 DEF SupTypeOK
  <2> QED
    BY <2>1, <2>2, <2>3 DEF SupTypeOK, Index
<1>2. ASSUME NEW m \in Meshes, Poll(m) PROVE SupTypeOK'
  BY <1>2 DEF Poll, SupTypeOK, Index
<1>3. ASSUME NEW m \in Meshes, TopologyAnswers(m) PROVE SupTypeOK'
  <2> DEFINE i == Current(m)
             row == [peer[m] EXCEPT ![i] = port[i]]
  <2>1. row \in [Index -> Meshes \cup {Nobody}]
    <3>1. peer[m] \in [Index -> Meshes \cup {Nobody}] /\ port \in [Index -> Meshes \cup {Nobody}]
      BY DEF SupTypeOK
    <3> QED
      BY <3>1, RowWrite
  <2>2. /\ peer' = [peer EXCEPT ![m] = row] /\ polled' = [polled EXCEPT ![m] = FALSE]
        /\ UNCHANGED <<cursor, proc, port>>
    BY <1>3 DEF TopologyAnswers, ApiPort
  <2>3. PICK s \in {"started", "next"} : sup' = [sup EXCEPT ![m] = s]
    BY <1>3 DEF TopologyAnswers
  <2> HIDE DEF row
  <2> QED
    BY <2>1, <2>2, <2>3 DEF SupTypeOK, Index
<1>4. ASSUME NEW m \in Meshes, TopologyFails(m) PROVE SupTypeOK'
  BY <1>4 DEF TopologyFails, SupTypeOK, Index
<1>5. ASSUME NEW m \in Meshes, Shutdown(m) PROVE SupTypeOK'
  <2> DEFINE row == [i \in Index |-> IF i \in Terminated(m) THEN "dead" ELSE proc[m][i]]
             held == [i \in Index |-> IF port[i] = m /\ i \in Terminated(m) THEN Nobody ELSE port[i]]
  <2>1. row \in [Index -> {"none", "live", "dead"}] /\ held \in [Index -> Meshes \cup {Nobody}]
    BY DEF SupTypeOK
  <2>2. /\ sup' = [sup EXCEPT ![m] = "stopped"] /\ proc' = [proc EXCEPT ![m] = row]
        /\ port' = held /\ UNCHANGED <<cursor, polled, peer>>
    BY <1>5 DEF Shutdown
  <2> HIDE DEF row, held
  <2> QED
    BY <2>1, <2>2 DEF SupTypeOK, Index
<1>6. ASSUME NEW m \in Meshes, NEW i \in Index, Bind(m, i) \/ NodeCrash(m, i) PROVE SupTypeOK'
  <2> DEFINE row == [proc[m] EXCEPT ![i] = "dead"]
  <2>1. row \in [Index -> {"none", "live", "dead"}]
    BY DEF SupTypeOK
  <2>2. UNCHANGED <<sup, cursor, polled, peer>>
    BY <1>6 DEF Bind, NodeCrash
  <2>3. proc' = proc \/ proc' = [proc EXCEPT ![m] = row]
    BY <1>6 DEF Bind, NodeCrash
  <2>4. port' \in [Index -> Meshes \cup {Nobody}]
    BY <1>6 DEF Bind, NodeCrash, SupTypeOK
  <2> HIDE DEF row
  <2>5. proc' \in [Meshes -> [Index -> {"none", "live", "dead"}]]
    BY <2>1, <2>3 DEF SupTypeOK
  <2> QED
    BY <2>2, <2>4, <2>5 DEF SupTypeOK, Index
<1>7. CASE UNCHANGED supVars
  BY <1>7 DEF SupTypeOK, supVars, Index
<1> QED
  BY <1>1, <1>2, <1>3, <1>4, <1>5, <1>6, <1>7, SupFrame DEF SupNext

-----------------------------------------------------------------------------
MainInv ==
  /\ stage \in {"boot", "idle", "fight", "finally", "exited"}
  /\ clock \in {"plenty", "low", "out"} /\ crosstalk \in 0..MaxHeard

LEMMA MainInvStep == MainInv /\ [Next]_vars => MainInv'
<1> SUFFICES ASSUME MainInv, [Next]_vars PROVE MainInv'
  OBVIOUS
<1> USE CombatantAssumption DEF MainInv
<1>1. CASE MainStep
  BY <1>1 DEF MainStep, Boot, Idle, Relaunch, Break, LeaveLoop, Finally, mainVars
<1>2. CASE RunStep
  BY <1>2 DEF RunStep, Think, UseTool, Refuse, InspectSelf, PatchRejected, PatchSelf, Probe,
              Exploit, Claim, Handoff, Answered, Quiet, mainVars
<1>3. CASE Raise \/ Killed \/ Hear \/ Tick
  BY <1>3 DEF Raise, Killed, Hear, Fold, Tick
<1>4. CASE MeshStep \/ SupStep \/ Exited \/ UNCHANGED vars
  BY <1>4 DEF MeshStep, SupStep, Exited, vars, mainVars
<1> QED
  BY <1>1, <1>2, <1>3, <1>4 DEF Next

\* Every variable of a combatant, of its mesh and of the supervisors keeps its
\* type: turns, calls, retries and the window of the loop detector are bounded,
\* and only what was broadcast is received (combatant/main.py, orchestrator.py,
\* mesh.py, supervisor.py).
THEOREM CombatantTypes == Spec => []TypeOK
<1> DEFINE IInv == RunInv /\ MeshInv /\ SupTypeOK /\ MainInv
<1>1. Init => IInv
  <2> SUFFICES ASSUME Init PROVE IInv
    OBVIOUS
  <2>1. MeshInv
    <3>1. inbox \in Seq(1..spoken)
      BY DEF Init, MeshInit
    <3>2. spoken = 0 /\ 0 \in 0..MaxEnvelopes /\ seen \subseteq 1..spoken
      BY MeshAssumption DEF Init, MeshInit
    <3>3. wire \in [Envelope \cup {Garbage, Foreign} -> 0..2] /\ \A id \in Envelope : wire[id] = 0
      BY DEF Init, MeshInit
    <3>4. loop = "off" /\ trimmed = FALSE
      BY DEF Init, MeshInit
    <3>5. MeshTypeOK
      BY <3>1, <3>2, <3>3, <3>4 DEF MeshTypeOK
    <3>6. \A id \in Envelope : ~(wire[id] > 0)
      BY <3>3
    <3> QED
      BY <3>5, <3>6 DEF MeshInv
  <2>2. SupTypeOK
    BY SupervisorAssumption DEF Init, SupInit, SupTypeOK
  <2>3. MainInv
    BY CombatantAssumption DEF Init, MainInit, MainInv
  <2> QED
    BY <2>1, <2>2, <2>3, RunInitInv
<1>2. IInv /\ [Next]_vars => IInv'
  BY RunInvStep, LoopStep, SupTypesStep, MainInvStep
<1>3. IInv => TypeOK
  <2> SUFFICES ASSUME IInv PROVE TypeOK
    OBVIOUS
  <2>1. ASSUME NEW i \in 1..Len(messages)
        PROVE  /\ messages[i].kind \in {"user", "summary", "text", "uses", "results"}
               /\ messages[i].turn \in 0..turn
    <3>1. messages \in Seq(Message) /\ messages[i].turn <= turn /\ turn \in Nat
      BY RuntimeAssumption DEF RunInv, TurnInv, ConvInv, Conversation
    <3> QED
      BY <3>1, MessageAt
  <2>2. RunTypeOK
    BY <2>1 DEF RunInv, TurnInv, ReplyInv, HistoryInv, RunTypeOK
  <2> QED
    BY <2>2 DEF MeshInv, MainInv, TypeOK
<1> QED
  BY <1>1, <1>2, <1>3, PTL DEF Spec
=============================================================================
