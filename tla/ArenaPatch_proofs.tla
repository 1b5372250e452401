------------------------- MODULE ArenaPatch_proofs -------------------------
(***************************************************************************)
(* Theorems about the patches of Arena, for any number of overlapping      *)
(* calls: which subprocesses no handle knows, and which patches a bug      *)
(* module holds.  Both need to know what the calls in flight have done to  *)
(* the process and to the file of their agent.                             *)
(***************************************************************************)
EXTENDS Arena_proofs

\* Calls of apply_patch come after the start of the match, and two that are in
\* flight for one agent are remembered.
OneAtATime ==
  /\ \A p \in Patches : patch[p].stage # "new" => start = "done"
  /\ \A p, q \in Patches :
       /\ p # q /\ patch[p].of = patch[q].of
       /\ patch[p].stage \in InFlight /\ patch[q].stage \in InFlight
       => patch[p].of \in overlapped

\* Who spawned a process, and for whom.
Belongs(t) ==
  \/ t.by = "start" /\ ~t.again
  \/ /\ t.by \in Patches /\ t.of = patch[t.by].of
     /\ patch[t.by].stage \notin {"new", "rejected"}

\* A second process of a patch runs after a revert and is registered at its end.
Again(t) == t.again => patch[t.by].stage \in {"reverting", "wedged", "broke"}
AgainKnown(t) == t.again => patch[t.by].stage = "broke"

\* What runs before start_match has registered it.
Starting ==
  /\ start = "idle" => live = {}
  /\ start = "targets" => \A t \in live : t.of \in Combatants
  /\ start = "nodes" => \A t \in live \ registered : t = Mesh

\* While a call waits for its restart, what the handles of its agent hold is dead.
Replaced ==
  \A p \in Patches :
    patch[p].stage \in {"restarting", "reverting"} /\ patch[p].of \notin overlapped =>
      \A t \in live \cap registered : t.of # patch[p].of

\* The inductive invariant of the subprocesses.
ProcInv ==
  /\ OneAtATime
  /\ \A t \in live \cup registered : Belongs(t)
  /\ \A t \in live : Again(t)
  /\ \A t \in registered : AgainKnown(t)
  /\ Starting
  /\ Replaced
  /\ OrphansAccounted

-----------------------------------------------------------------------------
\* What Move does to the calls.
LEMMA MoveFacts ==
  ASSUME TypeOK, NEW p \in Patches, NEW s, Move(p, s)
  PROVE  /\ patch'[p].stage = s /\ patch'[p].of = patch[p].of
         /\ \A q \in Patches : patch'[q].of = patch[q].of
         /\ \A q \in Patches \ {p} : patch'[q] = patch[q]
BY DEF TypeOK, PatchState, Move

\* Names of processes.
LEMMA ProcessNames ==
  /\ \A c, p : /\ PatchedTarget(c, p).of = c /\ PatchedTarget(c, p).by = p
               /\ ~PatchedTarget(c, p).again
  /\ \A c, p : /\ RevertedTarget(c, p).of = c /\ RevertedTarget(c, p).by = p
               /\ RevertedTarget(c, p).again
  /\ \A c : Target(c).of = c /\ Target(c).by = "start" /\ ~Target(c).again
  /\ Mesh.of = "mesh" /\ Mesh.by = "start" /\ ~Mesh.again
  /\ Agents.of = "agents" /\ Agents.by = "start" /\ ~Agents.again
  /\ \A t \in Process : /\ ~t.again => t = PatchedTarget(t.of, t.by)
                        /\ t.again => t = RevertedTarget(t.of, t.by)
  /\ "start" \notin Patches /\ "mesh" \notin Combatants
<1>1. ASSUME NEW t \in Process
      PROVE  /\ ~t.again => t = PatchedTarget(t.of, t.by)
             /\ t.again => t = RevertedTarget(t.of, t.by)
  BY DEF PatchedTarget, RevertedTarget, Process
<1>2. "start" \notin Patches /\ "mesh" \notin Combatants
  BY ArenaAssumption
<1> QED
  BY <1>1, <1>2 DEF PatchedTarget, RevertedTarget, Target, Mesh, Agents

LEMMA InitProcInv == Init => ProcInv
<1> SUFFICES ASSUME Init PROVE ProcInv OBVIOUS
<1>1. /\ live = {} /\ registered = {} /\ start = "idle"
      /\ \A p \in Patches : patch[p].stage = "new"
  BY DEF Init
<1> QED BY <1>1 DEF ProcInv, OneAtATime, Starting, Replaced, OrphansAccounted, InFlight

\* A step that leaves the calls, the handles and the start alone, and at most
\* ends processes.
LEMMA ProcFrame ==
  ASSUME TypeOK, ProcInv, live' \subseteq live,
         UNCHANGED <<registered, patch, overlapped, start>>
  PROVE  ProcInv'
<1>1. OneAtATime' BY DEF ProcInv, OneAtATime
<1>2. /\ \A t \in live' \cup registered' : Belongs(t)'
      /\ \A t \in live' : Again(t)'
      /\ \A t \in registered' : AgainKnown(t)'
  BY DEF ProcInv, Belongs, Again, AgainKnown
<1>3. Starting' BY DEF ProcInv, Starting
<1>4. Replaced' BY DEF ProcInv, Replaced
<1>5. OrphansAccounted' BY DEF ProcInv, OrphansAccounted
<1> QED BY <1>1, <1>2, <1>3, <1>4, <1>5 DEF ProcInv

\* shutdown_match ends every registered process; nothing of the start is left
\* then, or the start has just failed.
LEMMA ShutdownProcs ==
  ASSUME TypeOK, ProcInv, NEW by, NEW lifecycle, Shutdown(by, lifecycle),
         start' = start \/ (start = "nodes" /\ start' = "failed")
  PROVE  ProcInv'
<1>1. live' = live \ registered /\ UNCHANGED <<registered, patch, overlapped>>
  BY DEF Shutdown, Survivors, fileVars
<1>2. CASE start' = start
  BY <1>1, <1>2, ProcFrame
<1>3. CASE start = "nodes" /\ start' = "failed"
  <2>1. \A p \in Patches : patch[p].stage = "new"
    BY <1>3 DEF ProcInv, OneAtATime
  <2>2. OneAtATime' /\ Replaced'
    BY <1>1, <1>3, <2>1 DEF OneAtATime, Replaced, InFlight
  <2>3. /\ \A t \in live' \cup registered' : Belongs(t)'
        /\ \A t \in live' : Again(t)'
        /\ \A t \in registered' : AgainKnown(t)'
    BY <1>1 DEF ProcInv, Belongs, Again, AgainKnown
  <2>4. Starting' BY <1>3 DEF Starting
  <2>5. OrphansAccounted'
    BY <1>1, <1>3 DEF ProcInv, OrphansAccounted
  <2> QED BY <2>2, <2>3, <2>4, <2>5 DEF ProcInv
<1> QED BY <1>2, <1>3

\* A step of start_match: no patch has been called yet.
LEMMA StartProcs ==
  ASSUME TypeOK, ProcInv, start # "done",
         \/ StartMatch \/ FirstTargetHealthy \/ SecondTargetHealthy
         \/ TargetNeverHealthy \/ NodesReady
  PROVE  ProcInv'
<1>1. \A p \in Patches : patch[p].stage = "new"
  BY DEF ProcInv, OneAtATime
<1>2. UNCHANGED <<patch, overlapped>>
  BY DEF StartMatch, FirstTargetHealthy, SecondTargetHealthy, TargetNeverHealthy,
         NodesReady, fileVars
<1>3. OneAtATime' /\ Replaced'
  BY <1>1, <1>2 DEF OneAtATime, Replaced, InFlight
<1>4. \A t \in live \cup registered : t.by = "start" /\ ~t.again
  BY <1>1 DEF ProcInv, Belongs
<1>5. Chosen[1] \in Combatants /\ Chosen[2] \in Combatants
  BY DEF Combatants
<1>6. \A t \in live' \cup registered' : t.by = "start" /\ ~t.again
  <2>1. CASE StartMatch
    BY <1>4, <2>1, ProcessNames DEF StartMatch
  <2>2. CASE FirstTargetHealthy
    BY <1>4, <2>2, ProcessNames DEF FirstTargetHealthy
  <2>3. CASE SecondTargetHealthy
    <3>1. /\ registered' = registered \cup {Target(c) : c \in Combatants}
          /\ live' \subseteq live \cup {Mesh}
      BY <2>3 DEF SecondTargetHealthy
    <3> QED BY <1>4, <3>1, ProcessNames
  <2>4. CASE TargetNeverHealthy
    BY <1>4, <2>4 DEF TargetNeverHealthy, procVars
  <2>5. CASE NodesReady
    BY <1>4, <2>5, ProcessNames DEF NodesReady
  <2> QED BY <2>1, <2>2, <2>3, <2>4, <2>5
<1>7. /\ \A t \in live' \cup registered' : Belongs(t)'
      /\ \A t \in live' : Again(t)'
      /\ \A t \in registered' : AgainKnown(t)'
  BY <1>6 DEF Belongs, Again, AgainKnown
<1>8. Starting' /\ OrphansAccounted'
  <2>1. CASE StartMatch
    <3>1. start' = "targets" /\ live' = {Target(Chosen[1])}
      BY <2>1 DEF StartMatch, ProcInv, Starting
    <3> QED BY <1>5, <1>6, <3>1, ProcessNames DEF Starting, OrphansAccounted
  <2>2. CASE FirstTargetHealthy
    <3>1. start = "targets" /\ start' = "targets" /\ live' = live \cup {Target(Chosen[2])}
      BY <2>2 DEF FirstTargetHealthy
    <3> QED BY <1>5, <1>6, <3>1, ProcessNames DEF ProcInv, Starting, OrphansAccounted
  <2>3. CASE SecondTargetHealthy
    <3>1. /\ start = "targets" /\ start' \in {"nodes", "failed"}
          /\ registered' = registered \cup {Target(c) : c \in Combatants}
          /\ start' = "nodes" => live' = live \cup {Mesh}
      BY <2>3 DEF SecondTargetHealthy
    <3>2. \A t \in live : t = Target(t.of) /\ t.of \in Combatants
      <4>1. \A t \in live : t \in Process BY DEF TypeOK, ProcType
      <4> QED BY <1>4, <3>1, <4>1, ProcessNames DEF ProcInv, Starting, Target, PatchedTarget
    <3>3. live \subseteq registered' BY <3>1, <3>2
    <3> QED BY <1>6, <3>1, <3>3 DEF Starting, OrphansAccounted
  <2>4. CASE TargetNeverHealthy
    <3>1. start' = "failed" BY <2>4 DEF TargetNeverHealthy
    <3> QED BY <1>6, <3>1 DEF Starting, OrphansAccounted
  <2>5. CASE NodesReady
    <3>1. /\ start = "nodes" /\ start' = "done" /\ live' = live \cup {Agents}
          /\ registered' = registered \cup {Mesh, Agents}
      BY <2>5 DEF NodesReady
    <3>2. live' \subseteq registered'
      BY <3>1 DEF ProcInv, Starting
    <3> QED BY <3>1, <3>2 DEF Starting, OrphansAccounted
  <2> QED BY <2>1, <2>2, <2>3, <2>4, <2>5
<1> QED BY <1>3, <1>7, <1>8 DEF ProcInv

LEMMA MatchProcs == TypeOK /\ ProcInv /\ MatchNext => ProcInv'
<1> SUFFICES ASSUME TypeOK, ProcInv, MatchNext PROVE ProcInv' OBVIOUS
<1>1. CASE StartMatch \/ FirstTargetHealthy \/ SecondTargetHealthy
           \/ TargetNeverHealthy \/ NodesReady
  <2>1. start # "done"
    BY <1>1 DEF StartMatch, FirstTargetHealthy, SecondTargetHealthy, TargetNeverHealthy, NodesReady
  <2> QED BY <1>1, <2>1, StartProcs
<1>2. CASE NodesFailed
  BY <1>2, ShutdownProcs DEF NodesFailed
<1>3. CASE AutoFinish
  <2>1. CASE StillRunning
    BY <1>3, <2>1, ShutdownProcs DEF AutoFinish
  <2>2. CASE ~StillRunning
    BY <1>3, <2>2, ProcFrame DEF AutoFinish, procVars, fileVars
  <2> QED BY <2>1, <2>2
<1>4. CASE LifespanShutdown
  BY <1>4, ShutdownProcs DEF LifespanShutdown
<1>5. CASE StopServer \/ Exit
  BY <1>5, ProcFrame DEF StopServer, Exit, procVars, fileVars
<1>6. CASE \E by \in Closer : CloseReturns(by) \/ CloseRaises(by) \/ SettlementDone(by)
  BY <1>6, ProcFrame DEF CloseReturns, CloseRaises, SettlementDone, lifeVars, procVars, fileVars
<1>7. CASE \E t \in payments :
             PaymentFails(t) \/ PaymentSent(t) \/ PaymentRecorded(t) \/ PaymentLost(t)
  BY <1>7, ProcFrame DEF PaymentFails, PaymentSent, PaymentRecorded, PaymentLost,
     MovePayment, lifeVars, procVars, fileVars
<1>8. CASE \E t \in live : TargetExits(t)
  BY <1>8, ProcFrame DEF TargetExits, lifeVars, fileVars
<1> QED BY <1>1, <1>2, <1>3, <1>4, <1>5, <1>6, <1>7, <1>8 DEF MatchNext

-----------------------------------------------------------------------------
\* A call whose answer is due moves on: nobody but its own agent is concerned.
LEMMA OneAtATimeMoves ==
  ASSUME TypeOK, ProcInv, NEW p \in Patches, NEW s \in PatchStage, Move(p, s),
         patch[p].stage \in InFlight, UNCHANGED <<start, overlapped>>
  PROVE  OneAtATime'
<1>1. /\ patch'[p].of = patch[p].of
      /\ \A q \in Patches : patch'[q].of = patch[q].of
      /\ \A q \in Patches \ {p} : patch'[q] = patch[q]
  BY MoveFacts
<1>2. patch[p].stage # "new" BY DEF InFlight
<1> QED BY <1>1, <1>2 DEF ProcInv, OneAtATime

\* No other call in flight, unless the agent is known for overlapping calls.
LEMMA NoOther ==
  ASSUME ProcInv, NEW p \in Patches, NEW q \in Patches, p # q,
         patch[p].stage \in InFlight, patch[q].stage \in InFlight,
         patch[q].of \notin overlapped
  PROVE  patch[q].of # patch[p].of
BY DEF ProcInv, OneAtATime

LEMMA PatchCallProcs ==
  ASSUME TypeOK, ProcInv, NEW p \in Patches, NEW c \in Combatants, PatchCall(p, c)
  PROVE  ProcInv'
<1> DEFINE n == PatchedTarget(c, p)
<1>1. /\ patch[p].stage = "new" /\ start = "done"
      /\ overlapped' = IF Busy(c) THEN overlapped \cup {c} ELSE overlapped
      /\ live' = (live \ {t \in registered : t.of = c}) \cup {n}
      /\ UNCHANGED <<registered, start>>
  BY DEF PatchCall, MayCall, Respawn, lifeVars
<1>2. /\ patch'[p].stage = "restarting" /\ patch'[p].of = c
      /\ \A q \in Patches \ {p} : patch'[q] = patch[q]
  BY DEF PatchCall, TypeOK
<1>3. n.of = c /\ n.by = p /\ ~n.again BY ProcessNames
<1> HIDE DEF n
<1>4. \A t \in live \cup registered : t.by # p
  BY <1>1, ProcessNames DEF ProcInv, Belongs
<1>5. OneAtATime'
  <2>1. \A q \in Patches \ {p} :
          patch[q].stage \in InFlight /\ patch[q].of = c => c \in overlapped'
    BY <1>1 DEF Busy
  <2> QED BY <1>1, <1>2, <2>1 DEF ProcInv, OneAtATime
<1>6. /\ \A t \in live' \cup registered' : Belongs(t)'
      /\ \A t \in live' : Again(t)'
      /\ \A t \in registered' : AgainKnown(t)'
  <2>1. ASSUME NEW t \in live \cup registered
        PROVE  Belongs(t)' /\ (Again(t) => Again(t)') /\ (AgainKnown(t) => AgainKnown(t)')
    <3>1. Belongs(t) /\ t.by # p BY <1>4 DEF ProcInv
    <3> QED BY <1>2, <3>1 DEF Belongs, Again, AgainKnown
  <2>2. Belongs(n)' /\ Again(n)'
    BY <1>2, <1>3 DEF Belongs, Again
  <2> QED BY <1>1, <2>1, <2>2 DEF ProcInv
<1>7. Starting' BY <1>1 DEF Starting
<1>8. Replaced'
  <2>1. n \notin registered BY <1>3, <1>4
  <2>2. ASSUME NEW q \in Patches, patch'[q].stage \in {"restarting", "reverting"},
               patch'[q].of \notin overlapped', NEW t \in live' \cap registered'
        PROVE  t.of # patch'[q].of
    <3>1. t \in live \cap registered /\ t.of # c BY <1>1, <2>1
    <3>2. CASE q = p BY <1>2, <3>1, <3>2
    <3>3. CASE q # p BY <1>1, <1>2, <2>2, <3>1, <3>3 DEF ProcInv, Replaced
    <3> QED BY <3>2, <3>3
  <2> QED BY <2>2 DEF Replaced
<1>9. OrphansAccounted'
  <2>1. ASSUME NEW t \in live' \ registered'
        PROVE  \/ t.of \in overlapped'
               \/ t.by = "start" /\ start' \in {"targets", "nodes", "failed"}
               \/ /\ t.by \in Patches
                  /\ patch'[t.by].stage \in IF t.again THEN {"reverting", "wedged"}
                                                       ELSE {"restarting", "timedout"}
    <3>1. CASE t = n BY <1>2, <1>3, <3>1
    <3>2. CASE t # n
      <4>1. t \in live \ registered /\ t.by # p BY <1>1, <1>4, <3>2
      <4> QED BY <1>1, <1>2, <4>1 DEF ProcInv, OrphansAccounted
    <3> QED BY <3>1, <3>2
  <2> QED BY <2>1 DEF OrphansAccounted
<1> QED BY <1>5, <1>6, <1>7, <1>8, <1>9 DEF ProcInv

LEMMA PatchWriteFailsProcs ==
  ASSUME TypeOK, ProcInv, NEW p \in Patches, NEW c \in Combatants, PatchWriteFails(p, c)
  PROVE  ProcInv'
<1>1. /\ patch[p].stage = "new" /\ start = "done"
      /\ overlapped \subseteq overlapped'
      /\ UNCHANGED <<live, registered, start>>
  BY DEF PatchWriteFails, MayCall, lifeVars, procVars
<1>2. /\ patch'[p].stage = "rejected"
      /\ \A q \in Patches \ {p} : patch'[q] = patch[q]
  BY DEF PatchWriteFails, TypeOK
<1>3. \A t \in live \cup registered : t.by # p
  BY <1>1, ProcessNames DEF ProcInv, Belongs
<1>4. OneAtATime' BY <1>1, <1>2 DEF ProcInv, OneAtATime, InFlight
<1>5. /\ \A t \in live' \cup registered' : Belongs(t)'
      /\ \A t \in live' : Again(t)'
      /\ \A t \in registered' : AgainKnown(t)'
  <2>1. ASSUME NEW t \in live \cup registered
        PROVE  Belongs(t)' /\ (Again(t) => Again(t)') /\ (AgainKnown(t) => AgainKnown(t)')
    <3>1. Belongs(t) /\ t.by # p BY <1>3 DEF ProcInv
    <3> QED BY <1>2, <3>1 DEF Belongs, Again, AgainKnown
  <2> QED BY <1>1, <2>1 DEF ProcInv
<1>6. Starting' BY <1>1 DEF Starting
<1>7. Replaced' BY <1>1, <1>2 DEF ProcInv, Replaced
<1>8. OrphansAccounted' BY <1>1, <1>2, <1>3 DEF ProcInv, OrphansAccounted
<1> QED BY <1>4, <1>5, <1>6, <1>7, <1>8 DEF ProcInv

\* A call that ends without touching a process: it is in no smoke test, or its
\* process is registered.
LEMMA EndsProcs ==
  ASSUME TypeOK, ProcInv, NEW p \in Patches, NEW s \in PatchStage \ InFlight, Move(p, s),
         patch[p].stage \in InFlight, s \notin {"new", "rejected"},
         \/ patch[p].stage = "restarting" /\ s = "timedout"
         \/ patch[p].stage = "smoke"
         \/ patch[p].stage = "reverting" /\ s = "wedged",
         UNCHANGED <<procVars, start, overlapped>>
  PROVE  ProcInv'
<1>1. UNCHANGED <<live, registered>> BY DEF procVars
<1>2. /\ patch'[p].stage = s
      /\ \A q \in Patches : patch'[q].of = patch[q].of
      /\ \A q \in Patches \ {p} : patch'[q] = patch[q]
  BY MoveFacts
<1>3. OneAtATime' BY OneAtATimeMoves
<1>4. ASSUME NEW t \in live \cup registered
      PROVE  /\ Belongs(t)'
             /\ t \in live => Again(t)'
             /\ t \in registered => AgainKnown(t)'
  <2>1. /\ Belongs(t) /\ (t \in live => Again(t)) /\ (t \in registered => AgainKnown(t))
    BY DEF ProcInv
  <2>2. CASE t.by = p
    BY <1>2, <2>1, <2>2 DEF Belongs, Again, AgainKnown, InFlight
  <2>3. CASE t.by # p
    BY <1>2, <2>1, <2>3 DEF Belongs, Again, AgainKnown
  <2> QED BY <2>2, <2>3
<1>5. Starting' BY <1>1 DEF ProcInv, Starting
<1>6. Replaced'
  <2>1. s \notin {"restarting", "reverting"} BY DEF InFlight
  <2> QED BY <1>1, <1>2, <2>1 DEF ProcInv, Replaced
<1>7. OrphansAccounted' BY <1>1, <1>2 DEF ProcInv, OrphansAccounted
<1> QED BY <1>1, <1>3, <1>4, <1>5, <1>6, <1>7 DEF ProcInv

\* The process a call has spawned joins the handles, in the place of the others
\* of its agent.
LEMMA AdoptsProcs ==
  ASSUME TypeOK, ProcInv, NEW p \in Patches, NEW s \in PatchStage, Move(p, s), NEW n \in Process,
         \/ /\ patch[p].stage = "restarting" /\ s \in {"smoke", "lost"}
            /\ n = PatchedTarget(patch[p].of, p)
         \/ /\ patch[p].stage = "reverting" /\ s = "broke"
            /\ n = RevertedTarget(patch[p].of, p),
         registered' = Registered(patch[p].of, n),
         UNCHANGED <<live, start, overlapped>>
  PROVE  ProcInv'
<1> DEFINE c == patch[p].of
<1>1. /\ n.of = c /\ n.by = p
      /\ registered' = {t \in registered : t.of # c} \cup {n}
      /\ patch[p].stage \in InFlight
  BY ProcessNames DEF Registered, InFlight
<1>2. /\ patch'[p].stage = s
      /\ \A q \in Patches : patch'[q].of = patch[q].of
      /\ \A q \in Patches \ {p} : patch'[q] = patch[q]
  BY MoveFacts
<1>3. OneAtATime' BY <1>1, OneAtATimeMoves
<1>4. n.again <=> s = "broke" BY ProcessNames
<1>5. ASSUME NEW t \in live \cup registered, t # n
      PROVE  /\ Belongs(t)'
             /\ t \in live => Again(t)'
             /\ t \in registered => AgainKnown(t)'
  <2>1. /\ Belongs(t) /\ (t \in live => Again(t)) /\ (t \in registered => AgainKnown(t))
    BY DEF ProcInv
  <2>2. CASE t.by = p
    BY <1>2, <2>1, <2>2 DEF Belongs, Again, AgainKnown
  <2>3. CASE t.by # p
    BY <1>2, <2>1, <2>3 DEF Belongs, Again, AgainKnown
  <2> QED BY <2>2, <2>3
<1>6. Belongs(n)' /\ AgainKnown(n)' /\ Again(n)'
  BY <1>1, <1>2, <1>4 DEF Belongs, AgainKnown, Again
<1>7. Starting'
  <2>1. start = "done" BY <1>1 DEF ProcInv, OneAtATime, InFlight
  <2> QED BY <2>1 DEF Starting
<1>8. Replaced'
  <2>1. ASSUME NEW q \in Patches, patch'[q].stage \in {"restarting", "reverting"},
               patch'[q].of \notin overlapped', NEW t \in live' \cap registered'
        PROVE  t.of # patch'[q].of
    <3>1. q # p BY <1>2, <2>1
    <3>2. /\ patch[q].stage \in InFlight /\ patch'[q] = patch[q]
          /\ patch[q].of \notin overlapped
      BY <1>2, <2>1, <3>1 DEF InFlight
    <3>3. patch[q].of # c BY <1>1, <3>1, <3>2, NoOther
    <3>4. CASE t = n BY <1>1, <3>2, <3>3, <3>4
    <3>5. CASE t # n
      <4>1. t \in live \cap registered BY <1>1, <2>1, <3>5
      <4> QED BY <2>1, <3>2, <4>1 DEF ProcInv, Replaced
    <3> QED BY <3>4, <3>5
  <2> QED BY <2>1 DEF Replaced
<1>9. OrphansAccounted'
  <2>1. ASSUME NEW t \in live' \ registered'
        PROVE  \/ t.of \in overlapped'
               \/ t.by = "start" /\ start' \in {"targets", "nodes", "failed"}
               \/ /\ t.by \in Patches
                  /\ patch'[t.by].stage \in IF t.again THEN {"reverting", "wedged"}
                                                       ELSE {"restarting", "timedout"}
    <3>1. t \in live /\ t # n /\ t \in Process
      BY <1>1, <2>1 DEF TypeOK, ProcType
    <3>2. CASE t \in registered
      <4>1. t.of = c BY <1>1, <2>1, <3>2
      <4>2. c \in overlapped BY <3>1, <3>2, <4>1 DEF ProcInv, Replaced
      <4> QED BY <4>1, <4>2
    <3>3. CASE t \notin registered /\ t.by # p
      BY <1>2, <3>1, <3>3 DEF ProcInv, OrphansAccounted
    <3>4. CASE t \notin registered /\ t.by = p
      <4>1. t.of = c /\ Belongs(t) BY <3>1, <3>4, ProcessNames DEF ProcInv, Belongs
      <4>2. \/ c \in overlapped
            \/ patch[p].stage = "restarting" /\ ~t.again
            \/ patch[p].stage = "reverting" /\ t.again
        BY <3>1, <3>4, <4>1, ProcessNames DEF ProcInv, OrphansAccounted
      <4>3. c \notin overlapped => t = n
        BY <3>1, <3>4, <4>1, <4>2, ProcessNames
      <4> QED BY <3>1, <4>1, <4>3
    <3> QED BY <3>2, <3>3, <3>4
  <2> QED BY <2>1 DEF OrphansAccounted
<1>10. /\ \A t \in live' \cup registered' : Belongs(t)'
       /\ \A t \in live' : Again(t)'
       /\ \A t \in registered' : AgainKnown(t)'
  BY <1>1, <1>5, <1>6
<1> QED BY <1>3, <1>7, <1>8, <1>9, <1>10 DEF ProcInv

\* A call takes its patch back: the process it had registered ends, the one of
\* the original module starts.
LEMMA RevertsProcs ==
  ASSUME TypeOK, ProcInv, NEW p \in Patches, Move(p, "reverting"),
         \/ /\ patch[p].stage = "restarting"
            /\ PatchedTarget(patch[p].of, p) \notin live
            /\ registered' = Registered(patch[p].of, PatchedTarget(patch[p].of, p))
         \/ patch[p].stage = "smoke" /\ registered' = registered,
         live' = (live \ {t \in registered' : t.of = patch[p].of})
                   \cup {RevertedTarget(patch[p].of, p)},
         UNCHANGED <<start, overlapped>>
  PROVE  ProcInv'
<1> DEFINE c == patch[p].of
           n == PatchedTarget(c, p)
           r == RevertedTarget(c, p)
<1>1. /\ n.of = c /\ n.by = p /\ ~n.again /\ r.of = c /\ r.by = p /\ r.again
      /\ n # r
  BY ProcessNames
<1>a. /\ patch[p].stage \in InFlight /\ patch[p].stage \in {"restarting", "smoke"}
      /\ registered' \subseteq registered \cup {n}
      /\ \A t \in registered : t.of # c => t \in registered'
  BY DEF Registered, InFlight
<1>b. /\ live' \subseteq live \cup {r}
      /\ \A t \in live' : t # r => t \notin registered' \/ t.of # c
  OBVIOUS
<1>2. /\ patch'[p].stage = "reverting"
      /\ \A q \in Patches : patch'[q].of = patch[q].of
      /\ \A q \in Patches \ {p} : patch'[q] = patch[q]
  BY MoveFacts
<1>3. OneAtATime'
  <2>1. "reverting" \in PatchStage BY DEF PatchStage
  <2> QED BY <1>a, <2>1, OneAtATimeMoves
<1>c. PatchedTarget(patch[p].of, p) = n /\ RevertedTarget(patch[p].of, p) = r OBVIOUS
<1>d. patch[p].of = c OBVIOUS
<1> HIDE DEF n, r, c
<1>4. ASSUME NEW t \in live \cup registered
      PROVE  /\ Belongs(t)' /\ t # r
             /\ t \in live => Again(t)'
             /\ t \in registered => AgainKnown(t)'
  <2>1. /\ Belongs(t) /\ (t \in live => Again(t)) /\ (t \in registered => AgainKnown(t))
    BY DEF ProcInv
  <2>2. CASE t.by = p
    BY <1>1, <1>a, <1>2, <2>1, <2>2, ProcessNames DEF Belongs, Again, AgainKnown
  <2>3. CASE t.by # p
    BY <1>1, <1>2, <2>1, <2>3 DEF Belongs, Again, AgainKnown
  <2> QED BY <2>2, <2>3
<1>5. ASSUME NEW t, t = r PROVE Belongs(t)' /\ Again(t)'
  BY <1>1, <1>2, <1>5, <1>d DEF Belongs, Again
<1>6. ASSUME NEW t, t = n PROVE Belongs(t)' /\ AgainKnown(t)'
  BY <1>1, <1>2, <1>6, <1>d DEF Belongs, AgainKnown
<1>7. Starting'
  <2>1. start = "done" BY <1>a DEF ProcInv, OneAtATime, InFlight
  <2> QED BY <2>1 DEF Starting
<1>8. Replaced'
  <2>1. ASSUME NEW q \in Patches, patch'[q].stage \in {"restarting", "reverting"},
               patch'[q].of \notin overlapped', NEW t \in live' \cap registered'
        PROVE  t.of # patch'[q].of
    <3>0. r \notin registered' BY <1>1, <1>a, <1>4
    <3>1. t # r /\ t \in live /\ t.of # c BY <1>b, <2>1, <3>0
    <3>2. CASE q = p BY <1>2, <1>d, <3>1, <3>2
    <3>3. CASE q # p
      <4>1. patch'[q] = patch[q] /\ patch[q].of \notin overlapped BY <1>2, <2>1, <3>3
      <4>2. t \in registered BY <1>1, <1>a, <2>1, <3>1
      <4> QED BY <2>1, <3>1, <4>1, <4>2 DEF ProcInv, Replaced
    <3> QED BY <3>2, <3>3
  <2> QED BY <2>1 DEF Replaced
<1>9. OrphansAccounted'
  <2>1. ASSUME NEW t \in live' \ registered', t # r
        PROVE  \/ t.of \in overlapped'
               \/ t.by = "start" /\ start' \in {"targets", "nodes", "failed"}
               \/ /\ t.by \in Patches
                  /\ patch'[t.by].stage \in IF t.again THEN {"reverting", "wedged"}
                                                       ELSE {"restarting", "timedout"}
    <3>1. t \in live /\ t \in Process BY <1>b, <2>1 DEF TypeOK, ProcType
    <3>2. CASE t \in registered
      <4>1. t.of = c /\ patch[p].stage = "restarting"
        BY <1>a, <2>1, <3>2
      <4>2. c \in overlapped BY <1>d, <3>1, <3>2, <4>1 DEF ProcInv, Replaced
      <4> QED BY <4>1, <4>2
    <3>3. CASE t \notin registered /\ t.by # p
      BY <1>2, <3>1, <3>3 DEF ProcInv, OrphansAccounted
    <3>4. CASE t \notin registered /\ t.by = p
      <4>1. t.of = c BY <1>d, <3>1, <3>4, ProcessNames DEF ProcInv, Belongs
      <4>2. c \in overlapped \/ (patch[p].stage = "restarting" /\ ~t.again)
        BY <1>a, <3>1, <3>4, <4>1, ProcessNames DEF ProcInv, OrphansAccounted
      <4>3. c \notin overlapped => t = n
        BY <3>1, <3>4, <4>1, <4>2, ProcessNames DEF n
      <4>4. patch[p].stage = "restarting" => n \notin live BY <1>c
      <4> QED BY <3>1, <4>1, <4>2, <4>3, <4>4
    <3> QED BY <3>2, <3>3, <3>4
  <2>2. r.by \in Patches /\ patch'[r.by].stage = "reverting" /\ r.again BY <1>1, <1>2
  <2> QED BY <2>1, <2>2 DEF OrphansAccounted
<1>10. /\ \A t \in live' \cup registered' : Belongs(t)'
       /\ \A t \in live' : Again(t)'
       /\ \A t \in registered' : AgainKnown(t)'
  BY <1>a, <1>b, <1>4, <1>5, <1>6
<1> QED BY <1>3, <1>7, <1>8, <1>9, <1>10 DEF ProcInv

LEMMA PatchProcs == TypeOK /\ ProcInv /\ PatchNext => ProcInv'
<1> SUFFICES ASSUME TypeOK, ProcInv, PatchNext PROVE ProcInv' OBVIOUS
<1>1. \A p \in Patches : /\ PatchedTarget(patch[p].of, p) \in Process
                         /\ RevertedTarget(patch[p].of, p) \in Process
  BY TargetsAreProcesses DEF TypeOK, PatchState
<1>2. ASSUME NEW p \in Patches, NEW c \in Combatants, PatchCall(p, c) \/ PatchWriteFails(p, c)
      PROVE  ProcInv'
  BY <1>2, PatchCallProcs, PatchWriteFailsProcs
<1>3. ASSUME NEW p \in Patches, RestartHealthy(p) PROVE ProcInv'
  <2> DEFINE c == patch[p].of
             n == PatchedTarget(c, p)
  <2>1. /\ patch[p].stage = "restarting" /\ registered' = Registered(c, n)
        /\ start' = start
    BY <1>3 DEF RestartHealthy, lifeVars
  <2>2. CASE Move(p, "smoke") /\ UNCHANGED <<fileVars, live>>
    BY <1>1, <2>1, <2>2, AdoptsProcs DEF fileVars, PatchStage
  <2>3. CASE n \notin live /\ Revert(p) /\ backup[c] # NoFile
    <3>1. /\ Move(p, "reverting") /\ UNCHANGED overlapped
          /\ live' = (live \ {t \in registered' : t.of = c}) \cup {RevertedTarget(c, p)}
      BY <2>3 DEF Revert, Restore
    <3> QED BY <2>1, <2>3, <3>1, RevertsProcs
  <2>4. CASE n \notin live /\ Revert(p) /\ backup[c] = NoFile
    <3>1. Move(p, "lost") /\ UNCHANGED <<overlapped, live>>
      BY <2>4 DEF Revert, fileVars
    <3> QED BY <1>1, <2>1, <3>1, AdoptsProcs DEF PatchStage
  <2> QED BY <1>3, <2>2, <2>3, <2>4 DEF RestartHealthy
<1>4. ASSUME NEW p \in Patches, SmokeBad(p) PROVE ProcInv'
  <2> DEFINE c == patch[p].of
  <2>1. /\ patch[p].stage = "smoke" /\ registered' = registered /\ Revert(p)
        /\ start' = start
    BY <1>4 DEF SmokeBad, lifeVars
  <2>2. CASE backup[c] # NoFile
    <3>1. /\ Move(p, "reverting") /\ UNCHANGED overlapped
          /\ live' = (live \ {t \in registered' : t.of = c}) \cup {RevertedTarget(c, p)}
      BY <2>1, <2>2 DEF Revert, Restore
    <3> QED BY <2>1, <3>1, RevertsProcs
  <2>3. CASE backup[c] = NoFile
    <3>1. Move(p, "lost") /\ UNCHANGED <<overlapped, live>>
      BY <2>1, <2>3 DEF Revert, fileVars
    <3>2. "lost" \in PatchStage \ InFlight /\ "smoke" \in InFlight BY DEF PatchStage, InFlight
    <3> QED BY <2>1, <3>1, <3>2, EndsProcs DEF procVars
  <2> QED BY <2>2, <2>3
<1>5. ASSUME NEW p \in Patches, NEW d \in Difficulties, SmokeOk(p, d) PROVE ProcInv'
  <2>1. /\ patch[p].stage = "smoke" /\ Move(p, "applied")
        /\ UNCHANGED <<procVars, start, overlapped>>
    BY <1>5 DEF SmokeOk, lifeVars
  <2>2. "applied" \in PatchStage \ InFlight /\ "smoke" \in InFlight BY DEF PatchStage, InFlight
  <2> QED BY <2>1, <2>2, EndsProcs
<1>6. ASSUME NEW p \in Patches, RestartTimesOut(p) PROVE ProcInv'
  <2>1. /\ patch[p].stage = "restarting" /\ Move(p, "timedout")
        /\ UNCHANGED <<procVars, start, overlapped>>
    BY <1>6 DEF RestartTimesOut, lifeVars, fileVars
  <2>2. "timedout" \in PatchStage \ InFlight /\ "restarting" \in InFlight BY DEF PatchStage, InFlight
  <2> QED BY <2>1, <2>2, EndsProcs
<1>7. ASSUME NEW p \in Patches, RevertTimesOut(p) PROVE ProcInv'
  <2>1. /\ patch[p].stage = "reverting" /\ Move(p, "wedged")
        /\ UNCHANGED <<procVars, start, overlapped>>
    BY <1>7 DEF RevertTimesOut, lifeVars, fileVars
  <2>2. "wedged" \in PatchStage \ InFlight /\ "reverting" \in InFlight BY DEF PatchStage, InFlight
  <2> QED BY <2>1, <2>2, EndsProcs
<1>8. ASSUME NEW p \in Patches, RevertHealthy(p) PROVE ProcInv'
  <2>1. /\ patch[p].stage = "reverting" /\ Move(p, "broke")
        /\ registered' = Registered(patch[p].of, RevertedTarget(patch[p].of, p))
        /\ UNCHANGED <<live, start, overlapped>>
    BY <1>8 DEF RevertHealthy, lifeVars, fileVars
  <2> QED BY <1>1, <2>1, AdoptsProcs DEF PatchStage
<1> QED BY <1>2, <1>3, <1>4, <1>5, <1>6, <1>7, <1>8 DEF PatchNext

LEMMA NextProcInv == TypeOK /\ ProcInv /\ [Next]_vars => ProcInv'
<1> SUFFICES ASSUME TypeOK, ProcInv, [Next]_vars PROVE ProcInv' OBVIOUS
<1>1. CASE MatchNext BY <1>1, MatchProcs
<1>2. CASE VerifyNext BY <1>2, VerifyFrame, ProcFrame DEF lifeVars, procVars, fileVars
<1>3. CASE PatchNext BY <1>3, PatchProcs
<1>4. CASE UNCHANGED vars BY <1>4, ProcFrame DEF vars, lifeVars, procVars, fileVars
<1> QED BY <1>1, <1>2, <1>3, <1>4 DEF Next

\* However calls of apply_patch, exits of targets, shutdowns and the start of
\* the match interleave: a subprocess that no handle knows belongs to a start
\* under way or to one that failed, unless its agent had two patch calls at once
\* (manager.py, _restart_target).
THEOREM NoLostProcess == Spec => []OrphansAccounted
<1>1. Spec => []ProcInv BY InitProcInv, NextProcInv, TypesHold, PTL DEF Spec
<1>2. ProcInv => OrphansAccounted BY DEF ProcInv
<1> QED BY <1>1, <1>2, PTL

-----------------------------------------------------------------------------
\* The module text s holds the patch p.
Holds(s, p) == \E i \in 1 .. Len(s) : s[i] = p

\* What a revert relies on: a patch in flight is the last one of its module and
\* the backup is the module without it; a patch not called yet is nowhere.
Recoverable ==
  \A p \in Patches :
    /\ patch[p].stage = "new" =>
         \A c \in Combatants : ~Holds(file[c], p) /\ ~Holds(backup[c], p)
    /\ patch[p].stage \in {"restarting", "smoke"} /\ patch[p].of \notin overlapped =>
         /\ backup[patch[p].of] # NoFile
         /\ ~Holds(backup[patch[p].of], p)
         /\ file[patch[p].of] = Append(backup[patch[p].of], p)

\* The inductive invariant of the bug modules.
FileInv == Recoverable /\ FileMatchesVerdicts

LEMMA HoldsAppend ==
  ASSUME NEW s \in Module, NEW p \in Patches, NEW q \in Patches
  PROVE  Holds(Append(s, p), q) <=> Holds(s, q) \/ q = p
<1>1. /\ s \in Seq(Patches) /\ Len(s) \in Nat /\ Len(Append(s, p)) = Len(s) + 1
      /\ Append(s, p)[Len(s) + 1] = p
      /\ \A i \in 1 .. Len(s) : Append(s, p)[i] = s[i]
  BY DEF Module
<1>2. ASSUME Holds(Append(s, p), q) PROVE Holds(s, q) \/ q = p
  <2>1. PICK i \in 1 .. Len(s) + 1 : Append(s, p)[i] = q BY <1>1, <1>2 DEF Holds
  <2>2. CASE i = Len(s) + 1 BY <1>1, <2>1, <2>2
  <2>3. CASE i \in 1 .. Len(s) BY <1>1, <2>1, <2>3 DEF Holds
  <2> QED BY <1>1, <2>2, <2>3
<1>3. ASSUME Holds(s, q) PROVE Holds(Append(s, p), q)
  <2>1. PICK i \in 1 .. Len(s) : s[i] = q BY <1>3 DEF Holds
  <2>2. i \in 1 .. Len(s) + 1 /\ Append(s, p)[i] = q BY <1>1, <2>1
  <2> QED BY <1>1, <2>2 DEF Holds
<1>4. ASSUME q = p PROVE Holds(Append(s, p), q)
  <2>1. Len(s) + 1 \in 1 .. Len(Append(s, p)) BY <1>1
  <2> QED BY <1>1, <1>4, <2>1 DEF Holds
<1> QED BY <1>2, <1>3, <1>4

LEMMA ElementOfSeq ==
  ASSUME NEW S, NEW s \in Seq(S), NEW i \in 1 .. Len(s)
  PROVE  s[i] \in S
OBVIOUS

\* A module is never mistaken for the missing one, which holds no patch either.
LEMMA NoFileFacts ==
  /\ \A s \in Module : s # NoFile
  /\ \A p \in Patches : ~Holds(NoFile, p)
<1>1. "no file" \notin Patches BY ArenaAssumption
<1>2. Len(NoFile) = 1 BY DEF NoFile
<1>a. NoFile[1] = "no file" BY DEF NoFile
<1>3. ASSUME NEW s \in Seq(Patches), Len(s) = 1 PROVE s[1] # "no file"
  <2>1. s[1] \in Patches BY <1>3, ElementOfSeq
  <2> QED BY <1>1, <2>1
<1>4. ASSUME NEW p \in Patches PROVE ~Holds(NoFile, p)
  <2>1. ASSUME NEW i \in 1 .. Len(NoFile) PROVE NoFile[i] # p
    <3>1. i = 1 BY <1>2
    <3> QED BY <1>1, <1>a, <3>1
  <2> QED BY <2>1 DEF Holds
<1>5. ASSUME NEW s \in Module PROVE s # NoFile
  BY <1>2, <1>3, <1>a DEF Module
<1> QED BY <1>4, <1>5

LEMMA InFileHolds == \A p \in Patches : InFile(p) <=> Holds(file[patch[p].of], p)
BY DEF InFile, Holds

\* The verdict on one call, as FileMatchesVerdicts states it.
Matches(p) ==
  \/ patch[p].stage = "new"
  \/ patch[p].of \in overlapped
  \/ /\ patch[p].stage # "lost"
     /\ Holds(file[patch[p].of], p) <=> patch[p].stage \in {"restarting", "smoke", "applied", "timedout"}

LEMMA MatchesAll == FileMatchesVerdicts <=> \A p \in Patches : Matches(p)
BY InFileHolds DEF FileMatchesVerdicts, Matches

LEMMA InitFileInv == Init => FileInv
<1> SUFFICES ASSUME Init PROVE FileInv OBVIOUS
<1>1. /\ \A p \in Patches : patch[p].stage = "new"
      /\ \A c \in Combatants : file[c] = <<>> /\ backup[c] = NoFile
  BY DEF Init
<1>2. \A p \in Patches : ~Holds(<<>>, p) BY DEF Holds
<1> QED BY <1>1, <1>2, NoFileFacts DEF FileInv, Recoverable, FileMatchesVerdicts

LEMMA FileFrame ==
  ASSUME FileInv, UNCHANGED <<fileVars, patch>>
  PROVE  FileInv'
BY DEF FileInv, Recoverable, FileMatchesVerdicts, InFile, Holds, fileVars

LEMMA PatchCallFiles ==
  ASSUME TypeOK, FileInv, NEW p \in Patches, NEW c \in Combatants, PatchCall(p, c)
  PROVE  FileInv'
<1>1. /\ patch[p].stage = "new"
      /\ overlapped' = IF Busy(c) THEN overlapped \cup {c} ELSE overlapped
      /\ patch'[p].stage = "restarting" /\ patch'[p].of = c
      /\ \A q \in Patches \ {p} : patch'[q] = patch[q]
      /\ backup' = [backup EXCEPT ![c] = file[c]]
      /\ file' = [file EXCEPT ![c] = Append(file[c], p)]
  BY DEF PatchCall, MayCall, Original, TypeOK
<1>2. /\ file \in [Combatants -> Module] /\ file[c] \in Module
      /\ backup \in [Combatants -> Module \cup {NoFile}]
  BY DEF TypeOK, FileType
<1>3. /\ backup'[c] = file[c] /\ file'[c] = Append(file[c], p)
      /\ \A e \in Combatants \ {c} : backup'[e] = backup[e] /\ file'[e] = file[e]
  BY <1>1, <1>2
<1>4. \A q \in Patches \ {p} :
        patch[q].stage \in InFlight /\ patch[q].of = c => c \in overlapped'
  BY <1>1 DEF Busy
<1>5. \A q \in Patches \ {p}, e \in Combatants : Holds(file'[e], q) <=> Holds(file[e], q)
  <2>1. ASSUME NEW q \in Patches \ {p} PROVE Holds(Append(file[c], p), q) <=> Holds(file[c], q)
    BY <1>2, HoldsAppend
  <2>2. ASSUME NEW q \in Patches \ {p}, NEW e \in Combatants
        PROVE  Holds(file'[e], q) <=> Holds(file[e], q)
    <3>1. CASE e = c BY <1>3, <2>1, <3>1
    <3>2. CASE e # c BY <1>3, <3>2
    <3> QED BY <3>1, <3>2
  <2> QED BY <2>2
<1>6. Recoverable'
  <2>1. ASSUME NEW q \in Patches, patch'[q].stage = "new", NEW e \in Combatants
        PROVE  ~Holds(file'[e], q) /\ ~Holds(backup'[e], q)
    <3>1. q # p /\ patch[q].stage = "new" BY <1>1, <2>1
    <3>2. ~Holds(file[e], q) /\ ~Holds(backup[e], q)
      BY <3>1 DEF FileInv, Recoverable
    <3> QED BY <1>3, <1>5, <3>1, <3>2
  <2>2. ASSUME NEW q \in Patches, patch'[q].stage \in {"restarting", "smoke"},
               patch'[q].of \notin overlapped'
        PROVE  /\ backup'[patch'[q].of] # NoFile
               /\ ~Holds(backup'[patch'[q].of], q)
               /\ file'[patch'[q].of] = Append(backup'[patch'[q].of], q)
    <3>1. CASE q = p
      BY <1>1, <1>2, <1>3, <3>1, NoFileFacts DEF FileInv, Recoverable
    <3>2. CASE q # p
      <4>1. /\ patch'[q] = patch[q] /\ patch[q].of \in Combatants
            /\ patch[q].of \notin overlapped
        BY <1>1, <2>2, <3>2 DEF TypeOK, PatchState
      <4>2. patch[q].of # c BY <1>4, <2>2, <3>2, <4>1 DEF InFlight
      <4> QED BY <1>3, <2>2, <4>1, <4>2 DEF FileInv, Recoverable
    <3> QED BY <3>1, <3>2
  <2> QED BY <2>1, <2>2 DEF Recoverable, Holds
<1>7. FileMatchesVerdicts'
  <2>1. ASSUME NEW q \in Patches PROVE Matches(q)'
    <3>1. CASE q = p
      BY <1>1, <1>2, <1>3, <3>1, HoldsAppend DEF Matches, Holds
    <3>2. CASE q # p
      <4>1. patch'[q] = patch[q] /\ patch[q].of \in Combatants
            /\ overlapped \subseteq overlapped'
        BY <1>1, <3>2 DEF TypeOK, PatchState
      <4>2. Matches(q) BY MatchesAll DEF FileInv
      <4>3. Holds(file'[patch'[q].of], q) <=> Holds(file[patch[q].of], q)
        BY <1>5, <3>2, <4>1
      <4> QED BY <4>1, <4>2, <4>3 DEF Matches, Holds
    <3> QED BY <3>1, <3>2
  <2> QED BY <2>1 DEF FileMatchesVerdicts, Matches, InFile, Holds
<1> QED BY <1>6, <1>7 DEF FileInv

LEMMA PatchWriteFailsFiles ==
  ASSUME TypeOK, FileInv, NEW p \in Patches, NEW c \in Combatants, PatchWriteFails(p, c)
  PROVE  FileInv'
<1>1. /\ patch[p].stage = "new"
      /\ overlapped' = IF Busy(c) THEN overlapped \cup {c} ELSE overlapped
      /\ patch'[p].stage = "rejected" /\ patch'[p].of = c
      /\ \A q \in Patches \ {p} : patch'[q] = patch[q]
      /\ backup' = [backup EXCEPT ![c] = NoFile]
      /\ file' = file
  BY DEF PatchWriteFails, MayCall, TypeOK
<1>2. backup \in [Combatants -> Module \cup {NoFile}]
  BY DEF TypeOK, FileType
<1>3. /\ backup'[c] = NoFile
      /\ \A e \in Combatants \ {c} : backup'[e] = backup[e]
  BY <1>1, <1>2
<1>4. \A q \in Patches \ {p} :
        patch[q].stage \in InFlight /\ patch[q].of = c => c \in overlapped'
  BY <1>1 DEF Busy
<1>5. Recoverable'
  <2>1. ASSUME NEW q \in Patches, patch'[q].stage = "new", NEW e \in Combatants
        PROVE  ~Holds(file'[e], q) /\ ~Holds(backup'[e], q)
    <3>1. q # p /\ patch[q].stage = "new" BY <1>1, <2>1
    <3>2. ~Holds(file[e], q) /\ ~Holds(backup[e], q)
      BY <3>1 DEF FileInv, Recoverable
    <3> QED BY <1>1, <1>3, <3>2, NoFileFacts
  <2>2. ASSUME NEW q \in Patches, patch'[q].stage \in {"restarting", "smoke"},
               patch'[q].of \notin overlapped'
        PROVE  /\ backup'[patch'[q].of] # NoFile
               /\ ~Holds(backup'[patch'[q].of], q)
               /\ file'[patch'[q].of] = Append(backup'[patch'[q].of], q)
    <3>1. /\ q # p /\ patch'[q] = patch[q] /\ patch[q].of \in Combatants
          /\ patch[q].of \notin overlapped
      BY <1>1, <2>2 DEF TypeOK, PatchState
    <3>2. patch[q].of # c BY <1>4, <2>2, <3>1 DEF InFlight
    <3> QED BY <1>1, <1>3, <2>2, <3>1, <3>2 DEF FileInv, Recoverable
  <2> QED BY <2>1, <2>2 DEF Recoverable, Holds
<1>6. FileMatchesVerdicts'
  <2>1. ASSUME NEW q \in Patches PROVE Matches(q)'
    <3>1. CASE q = p
      <4>1. ~Holds(file[c], p) BY <1>1 DEF FileInv, Recoverable
      <4> QED BY <1>1, <3>1, <4>1 DEF Matches, Holds
    <3>2. CASE q # p
      <4>1. patch'[q] = patch[q] /\ overlapped \subseteq overlapped'
        BY <1>1, <3>2
      <4>2. Matches(q) BY MatchesAll DEF FileInv
      <4> QED BY <1>1, <4>1, <4>2 DEF Matches, Holds
    <3> QED BY <3>1, <3>2
  <2> QED BY <2>1 DEF FileMatchesVerdicts, Matches, InFile, Holds
<1> QED BY <1>5, <1>6 DEF FileInv

\* A call moves on and leaves the module as it is.  It may drop its backup, but
\* not before the smoke test.
LEMMA MovesFiles ==
  ASSUME TypeOK, ProcInv, FileInv, NEW p \in Patches, NEW s \in PatchStage, Move(p, s),
         \/ patch[p].stage = "restarting" /\ s \in {"smoke", "timedout"}
         \/ patch[p].stage = "smoke" /\ s = "applied"
         \/ patch[p].stage = "reverting" /\ s \in {"broke", "wedged"},
         UNCHANGED <<file, overlapped>>,
         \/ backup' = backup
         \/ s # "smoke" /\ backup' = [backup EXCEPT ![patch[p].of] = NoFile]
  PROVE  FileInv'
<1>1. /\ patch'[p].stage = s /\ patch'[p].of = patch[p].of
      /\ \A q \in Patches \ {p} : patch'[q] = patch[q]
  BY MoveFacts
<1>2. /\ backup \in [Combatants -> Module \cup {NoFile}]
      /\ \A q \in Patches : patch[q].of \in Combatants
  BY DEF TypeOK, FileType, PatchState
<1>3. /\ patch[p].stage \in InFlight
      /\ \A e \in Combatants : backup'[e] = backup[e] \/ (e = patch[p].of /\ backup'[e] = NoFile)
      /\ s = "smoke" => backup' = backup
  BY <1>2 DEF InFlight
<1>4. Recoverable'
  <2>1. ASSUME NEW q \in Patches, patch'[q].stage = "new", NEW e \in Combatants
        PROVE  ~Holds(file'[e], q) /\ ~Holds(backup'[e], q)
    <3>1. patch[q].stage = "new" BY <1>1, <2>1
    <3>2. ~Holds(file[e], q) /\ ~Holds(backup[e], q)
      BY <3>1 DEF FileInv, Recoverable
    <3> QED BY <1>3, <3>2, NoFileFacts
  <2>2. ASSUME NEW q \in Patches, patch'[q].stage \in {"restarting", "smoke"},
               patch'[q].of \notin overlapped'
        PROVE  /\ backup'[patch'[q].of] # NoFile
               /\ ~Holds(backup'[patch'[q].of], q)
               /\ file'[patch'[q].of] = Append(backup'[patch'[q].of], q)
    <3>1. CASE q = p
      <4>1. s = "smoke" /\ patch[p].stage = "restarting" BY <1>1, <2>2, <3>1
      <4> QED BY <1>1, <1>3, <2>2, <3>1, <4>1 DEF FileInv, Recoverable
    <3>2. CASE q # p
      <4>1. patch'[q] = patch[q] /\ patch[q].of \notin overlapped BY <1>1, <2>2, <3>2
      <4>2. patch[q].of # patch[p].of BY <1>3, <2>2, <3>2, <4>1, NoOther DEF InFlight
      <4>3. backup'[patch[q].of] = backup[patch[q].of] BY <1>2, <1>3, <4>2
      <4> QED BY <2>2, <4>1, <4>3 DEF FileInv, Recoverable
    <3> QED BY <3>1, <3>2
  <2> QED BY <2>1, <2>2 DEF Recoverable, Holds
<1>5. FileMatchesVerdicts'
  <2>1. ASSUME NEW q \in Patches PROVE Matches(q)'
    <3>1. Matches(q) BY MatchesAll DEF FileInv
    <3>2. CASE q = p
      BY <1>1, <3>1, <3>2 DEF Matches, Holds
    <3>3. CASE q # p
      BY <1>1, <3>1, <3>3 DEF Matches, Holds
    <3> QED BY <3>2, <3>3
  <2> QED BY <2>1 DEF FileMatchesVerdicts, Matches, InFile, Holds
<1> QED BY <1>4, <1>5 DEF FileInv

\* A revert that finds its backup takes back its own patch and no other; one
\* that finds none has another call to blame.
LEMMA RevertFiles ==
  ASSUME TypeOK, ProcInv, FileInv, NEW p \in Patches, Revert(p),
         patch[p].stage \in {"restarting", "smoke"}
  PROVE  FileInv'
<1> DEFINE c == patch[p].of
<1>1. /\ backup \in [Combatants -> Module \cup {NoFile}] /\ file \in [Combatants -> Module]
      /\ c \in Combatants /\ patch[p].stage \in InFlight
      /\ \A q \in Patches : patch[q].of \in Combatants
  BY DEF TypeOK, FileType, PatchState, InFlight
<1>2. c \notin overlapped =>
        backup[c] # NoFile /\ ~Holds(backup[c], p) /\ file[c] = Append(backup[c], p)
  BY DEF FileInv, Recoverable
<1>3. CASE backup[c] # NoFile
  <2>1. /\ Move(p, "reverting") /\ UNCHANGED overlapped
        /\ file' = [file EXCEPT ![c] = backup[c]]
        /\ backup' = [backup EXCEPT ![c] = NoFile]
    BY <1>3 DEF Revert, Restore
  <2>2. /\ patch'[p].stage = "reverting" /\ patch'[p].of = c
        /\ \A q \in Patches \ {p} : patch'[q] = patch[q]
    BY <2>1, MoveFacts
  <2>3. /\ file'[c] = backup[c] /\ backup'[c] = NoFile /\ backup[c] \in Module
        /\ \A e \in Combatants \ {c} : file'[e] = file[e] /\ backup'[e] = backup[e]
    BY <1>1, <1>3, <2>1
  <2>4. Recoverable'
    <3>1. ASSUME NEW q \in Patches, patch'[q].stage = "new", NEW e \in Combatants
          PROVE  ~Holds(file'[e], q) /\ ~Holds(backup'[e], q)
      <4>1. patch[q].stage = "new" BY <2>2, <3>1
      <4>2. \A f \in Combatants : ~Holds(file[f], q) /\ ~Holds(backup[f], q)
        BY <4>1 DEF FileInv, Recoverable
      <4>3. CASE e = c BY <1>1, <2>3, <4>2, <4>3, NoFileFacts
      <4>4. CASE e # c BY <2>3, <4>2, <4>4
      <4> QED BY <4>3, <4>4
    <3>2. ASSUME NEW q \in Patches, patch'[q].stage \in {"restarting", "smoke"},
                 patch'[q].of \notin overlapped'
          PROVE  /\ backup'[patch'[q].of] # NoFile
                 /\ ~Holds(backup'[patch'[q].of], q)
                 /\ file'[patch'[q].of] = Append(backup'[patch'[q].of], q)
      <4>1. q # p /\ patch'[q] = patch[q] /\ patch[q].of \notin overlapped
        BY <2>1, <2>2, <3>2
      <4>2. patch[q].of # c BY <1>1, <3>2, <4>1, NoOther DEF InFlight
      <4>3. /\ backup'[patch[q].of] = backup[patch[q].of]
            /\ file'[patch[q].of] = file[patch[q].of]
        BY <1>1, <2>3, <4>2
      <4> QED BY <3>2, <4>1, <4>3 DEF FileInv, Recoverable
    <3> QED BY <3>1, <3>2 DEF Recoverable, Holds
  <2>5. FileMatchesVerdicts'
    <3>1. ASSUME NEW q \in Patches PROVE Matches(q)'
      <4>1. Matches(q) BY MatchesAll DEF FileInv
      <4>2. CASE q = p
        BY <1>2, <2>1, <2>2, <2>3, <4>2 DEF Matches, Holds
      <4>3. CASE q # p /\ patch[q].of = c /\ c \notin overlapped
        <5>1. Holds(file[c], q) <=> Holds(backup[c], q)
          <6>1. Holds(Append(backup[c], p), q) <=> Holds(backup[c], q)
            BY <2>3, <4>3, HoldsAppend
          <6> QED BY <1>2, <4>3, <6>1
        <5>2. Holds(file'[c], q) <=> Holds(file[c], q) BY <2>3, <5>1
        <5>3. patch'[q] = patch[q] BY <2>2, <4>3
        <5> QED BY <2>1, <4>1, <4>3, <5>2, <5>3 DEF Matches, Holds
      <4>4. CASE q # p /\ patch[q].of = c /\ c \in overlapped
        BY <2>1, <2>2, <4>4 DEF Matches
      <4>5. CASE q # p /\ patch[q].of # c
        <5>1. file'[patch[q].of] = file[patch[q].of] /\ patch'[q] = patch[q]
          BY <1>1, <2>2, <2>3, <4>5
        <5> QED BY <2>1, <4>1, <5>1 DEF Matches, Holds
      <4> QED BY <4>2, <4>3, <4>4, <4>5
    <3> QED BY <3>1 DEF FileMatchesVerdicts, Matches, InFile, Holds
  <2> QED BY <2>4, <2>5 DEF FileInv
<1>4. CASE backup[c] = NoFile
  <2>1. Move(p, "lost") /\ UNCHANGED fileVars BY <1>4 DEF Revert
  <2>2. /\ patch'[p].stage = "lost" /\ patch'[p].of = c
        /\ \A q \in Patches \ {p} : patch'[q] = patch[q]
    BY <2>1, MoveFacts
  <2>3. UNCHANGED <<file, backup, overlapped>> BY <2>1 DEF fileVars
  <2>4. Recoverable'
    <3>1. ASSUME NEW q \in Patches, patch'[q].stage = "new", NEW e \in Combatants
          PROVE  ~Holds(file'[e], q) /\ ~Holds(backup'[e], q)
      <4>1. patch[q].stage = "new" BY <2>2, <3>1
      <4> QED BY <2>3, <4>1 DEF FileInv, Recoverable
    <3>2. ASSUME NEW q \in Patches, patch'[q].stage \in {"restarting", "smoke"},
                 patch'[q].of \notin overlapped'
          PROVE  /\ backup'[patch'[q].of] # NoFile
                 /\ ~Holds(backup'[patch'[q].of], q)
                 /\ file'[patch'[q].of] = Append(backup'[patch'[q].of], q)
      <4>1. patch'[q] = patch[q] BY <2>2, <3>2
      <4> QED BY <2>3, <3>2, <4>1 DEF FileInv, Recoverable
    <3> QED BY <3>1, <3>2 DEF Recoverable, Holds
  <2>5. FileMatchesVerdicts'
    <3>1. ASSUME NEW q \in Patches PROVE Matches(q)'
      <4>1. Matches(q) BY MatchesAll DEF FileInv
      <4>2. CASE q = p BY <1>2, <1>4, <2>2, <2>3, <4>2 DEF Matches
      <4>3. CASE q # p BY <2>2, <2>3, <4>1, <4>3 DEF Matches, Holds
      <4> QED BY <4>2, <4>3
    <3> QED BY <3>1 DEF FileMatchesVerdicts, Matches, InFile, Holds
  <2> QED BY <2>4, <2>5 DEF FileInv
<1> QED BY <1>3, <1>4

LEMMA NextFileInv == TypeOK /\ ProcInv /\ FileInv /\ [Next]_vars => FileInv'
<1> SUFFICES ASSUME TypeOK, ProcInv, FileInv, [Next]_vars PROVE FileInv' OBVIOUS
<1>1. CASE MatchNext BY <1>1, MatchFrame, FileFrame
<1>2. CASE VerifyNext BY <1>2, VerifyFrame, FileFrame
<1>3. CASE UNCHANGED vars BY <1>3, FileFrame DEF vars
<1>4. ASSUME NEW p \in Patches, NEW c \in Combatants, PatchCall(p, c) \/ PatchWriteFails(p, c)
      PROVE  FileInv'
  BY <1>4, PatchCallFiles, PatchWriteFailsFiles
<1>5. ASSUME NEW p \in Patches, RestartHealthy(p) PROVE FileInv'
  <2>1. /\ patch[p].stage = "restarting"
        /\ \/ Move(p, "smoke") /\ UNCHANGED fileVars
           \/ Revert(p)
    BY <1>5 DEF RestartHealthy
  <2>2. "smoke" \in PatchStage BY DEF PatchStage
  <2> QED BY <2>1, <2>2, MovesFiles, RevertFiles DEF fileVars
<1>6. ASSUME NEW p \in Patches, SmokeBad(p) PROVE FileInv'
  BY <1>6, RevertFiles DEF SmokeBad
<1>7. ASSUME NEW p \in Patches, NEW d \in Difficulties, SmokeOk(p, d) PROVE FileInv'
  <2>1. /\ patch[p].stage = "smoke" /\ Move(p, "applied") /\ UNCHANGED <<file, overlapped>>
        /\ backup' = [backup EXCEPT ![patch[p].of] = NoFile]
    BY <1>7 DEF SmokeOk
  <2>2. "applied" \in PatchStage BY DEF PatchStage
  <2> QED BY <2>1, <2>2, MovesFiles
<1>8. ASSUME NEW p \in Patches, RestartTimesOut(p) \/ RevertTimesOut(p) \/ RevertHealthy(p)
      PROVE  FileInv'
  <2>1. {"timedout", "wedged", "broke"} \subseteq PatchStage BY DEF PatchStage
  <2>2. UNCHANGED <<file, backup, overlapped>>
    BY <1>8 DEF RestartTimesOut, RevertTimesOut, RevertHealthy, fileVars
  <2> QED BY <1>8, <2>1, <2>2, MovesFiles DEF RestartTimesOut, RevertTimesOut, RevertHealthy
<1>9. CASE PatchNext BY <1>4, <1>5, <1>6, <1>7, <1>8, <1>9 DEF PatchNext
<1> QED BY <1>1, <1>2, <1>3, <1>9 DEF Next

\* As long as an agent patches one at a time, its module holds the patches the
\* arena accepted, is trying or gave up on, and no revert takes back another
\* patch than its own, whatever exits or times out meanwhile (manager.py,
\* apply_patch).
THEOREM ModuleHoldsVerdicts == Spec => []FileMatchesVerdicts
<1>1. Spec => []ProcInv BY InitProcInv, NextProcInv, TypesHold, PTL DEF Spec
<1>2. Spec => []FileInv
  BY <1>1, InitFileInv, NextFileInv, TypesHold, PTL DEF Spec
<1>3. FileInv => FileMatchesVerdicts BY DEF FileInv
<1> QED BY <1>2, <1>3, PTL
=============================================================================
