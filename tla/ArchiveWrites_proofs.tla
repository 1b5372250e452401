------------------------ MODULE ArchiveWrites_proofs ------------------------
(***************************************************************************)
(* What the archive says of its writes is true of the chain, and the       *)
(* registrar owns the parent name it writes below: for any tasks,          *)
(* operations, agents, labels, crashes and largest nonce.                  *)
(***************************************************************************)
EXTENDS Archive_proofs

\* The keystore keeps its types.
LEMMA UnlockTypes ==
  ASSUME KeystoreTypeOK, NEW p \in Process, NEW a \in Agents, Unlock(p, a)
  PROVE  KeystoreTypeOK'
  BY DEF KeystoreTypeOK, Unlock

LEMMA GenerateTypes ==
  ASSUME KeystoreTypeOK, NEW p \in Process, NEW a \in Agents, Generate(p, a)
  PROVE  KeystoreTypeOK'
<1> DEFINE x == [stage |-> "encrypting", agent |-> a]
<1>1. x \in Making
  BY DEF Making
<1>2. making' = [making EXCEPT ![p] = x] /\ UNCHANGED <<keyfile, wallet>>
  BY DEF Generate
<1> HIDE DEF x
<1> QED
  BY <1>1, <1>2 DEF KeystoreTypeOK

LEMMA GenerateStepTypes ==
  ASSUME KeystoreTypeOK, NEW p \in Process, GenerateStep(p)
  PROVE  KeystoreTypeOK'
<1>1. making[p] \in Making \cup {Idle}
  BY DEF KeystoreTypeOK
<1>2. making[p].stage \in {"encrypting", "writing"}
  BY DEF GenerateStep, OpenKeyfile, WriteKeyfile
<1>3. making[p] \in Making
  BY <1>1, <1>2 DEF Idle
<1>4. making[p].agent \in Agents
  BY <1>3 DEF Making
<1>5. CASE OpenKeyfile(p)
  <2> DEFINE x == [making[p] EXCEPT !.stage = "writing"]
  <2>1. x \in Making
    BY <1>3 DEF Making
  <2>2. making' = [making EXCEPT ![p] = x]
    BY <1>5 DEF OpenKeyfile
  <2> HIDE DEF x
  <2> QED
    BY <1>4, <1>5, <2>1, <2>2 DEF KeystoreTypeOK, OpenKeyfile
<1>6. CASE WriteKeyfile(p)
  BY <1>4, <1>6 DEF KeystoreTypeOK, WriteKeyfile
<1> QED
  BY <1>5, <1>6 DEF GenerateStep

LEMMA KeystoreDieTypes ==
  ASSUME KeystoreTypeOK, NEW p \in Process, KeystoreDie(p)
  PROVE  KeystoreTypeOK'
  BY DEF KeystoreTypeOK, KeystoreDie

LEMMA KeystoreInitTypes == KeystoreInit => KeystoreTypeOK
  BY DEF KeystoreInit, KeystoreTypeOK

\* A wallet is ensured for an agent, and never as the last step.
LEMMA EnsureSteps ==
  ASSUME TasksOK, NEW t \in Tasks, Step(t).kind = "ensure"
  PROVE  Step(t).name \in Agents /\ task[t].step # Len(Op(t))
<1>1. GoodTask(t, task[t])
  BY DEF TasksOK
<1>2. Proper(Op(t)) /\ task[t].step \in 1..Len(Op(t))
  BY <1>1, ProgramAssumption DEF GoodTask, Op
<1> QED
  BY <1>2 DEF Proper, Step

LEMMA KeystoreStepTypes ==
  ASSUME TasksOK, KeystoreTypeOK, [Next]_vars
  PROVE  KeystoreTypeOK'
<1>1. CASE UNCHANGED keyVars
  BY <1>1 DEF KeystoreTypeOK, keyVars
<1>2. CASE Boot \/ Block \/ Script \/ Done \/ UNCHANGED vars
  BY <1>1, <1>2 DEF Boot, Block, Script, Done, vars
<1>3. CASE Crash
  BY <1>3, KeystoreDieTypes, ArenaIsProcess DEF Crash
<1>4. CASE ArenaGenerates
  BY <1>4, GenerateStepTypes, ArenaIsProcess DEF ArenaGenerates
<1>5. ASSUME NEW t \in Tasks, Start(t) \/ TaskStep(t)
      PROVE  KeystoreTypeOK'
  <2>1. CASE TaskEnsure(t)
    <3>1. Step(t).kind = "ensure"
      BY <2>1 DEF TaskEnsure, Ready
    <3>2. Step(t).name \in Agents
      BY <3>1, EnsureSteps
    <3>3. UNCHANGED keyVars \/ Unlock("arena", Step(t).name) \/ Generate("arena", Step(t).name)
      BY <2>1 DEF TaskEnsure
    <3> QED
      BY <1>1, <3>2, <3>3, UnlockTypes, GenerateTypes, ArenaIsProcess
  <2>2. CASE ~TaskEnsure(t)
    BY <1>1, <1>5, <2>2 DEF Start, TaskStep, NotConfigured, TakeNonce, CannotSend, SendReturns,
                            SendRefused, Receipt, ConfirmationTimeout, PollRaises
  <2> QED
    BY <2>1, <2>2
<1>6. ASSUME NEW a \in Agents, AgentEnsure(a) \/ AgentDies(a)
      PROVE  KeystoreTypeOK'
  <2>1. a \in Process
    BY ArenaIsProcess
  <2>2. Unlock(a, a) \/ Generate(a, a) \/ GenerateStep(a) \/ KeystoreDie(a)
    BY <1>6 DEF AgentEnsure, AgentDies
  <2> QED
    BY <2>1, <2>2, UnlockTypes, GenerateTypes, GenerateStepTypes, KeystoreDieTypes
<1> QED
  BY <1>2, <1>3, <1>4, <1>5, <1>6 DEF Next

-----------------------------------------------------------------------------
\* The bootstrap script.  .env and the registry agree between two runs of it,
\* and up to the first of its two writes.
EnvSound == env.key = MissingKey \/ owner[env.parent] = env.key

ScriptInv ==
  /\ ScriptTypeOK
  /\ ~cut /\ stage # "parent" => EnvSound
  /\ stage \in {"landing", "key", "parent"} => owner[label] = acct
  /\ stage = "parent" => env.key = acct
  /\ stage # "exited" => ~cut

LEMMA ScriptInitInv == ScriptInit => ScriptInv
<1> SUFFICES ASSUME ScriptInit PROVE ScriptInv
  OBVIOUS
<1>1. PICK key \in {OldKey, MissingKey} :
        /\ env = [key |-> key, parent |-> FirstLabel]
        /\ owner = [x \in Labels |-> IF x = FirstLabel THEN key ELSE MissingKey]
  BY DEF ScriptInit
<1>2. /\ env \in [key : Keys \cup {MissingKey}, parent : Labels]
      /\ owner \in [Labels -> Keys \cup {MissingKey}]
  BY <1>1, ScriptAssumption DEF Keys
<1>3. EnvSound
  BY <1>1, ScriptAssumption DEF EnvSound
<1> QED
  BY <1>2, <1>3, ScriptAssumption DEF ScriptInit, ScriptInv, ScriptTypeOK, RunStage, Over

LEMMA ScriptStepInv == ASSUME ScriptInv, ScriptNext PROVE ScriptInv'
<1> USE ScriptAssumption
<1>1. ASSUME NEW reuse \in BOOLEAN, NEW l \in Labels, Begin(reuse, l)
      PROVE  ScriptInv'
  BY <1>1 DEF ScriptInv, ScriptTypeOK, EnvSound, RunStage, Over, Keys, Begin, Exit
<1>2. CASE Fund \/ Age
  BY <1>2 DEF ScriptInv, ScriptTypeOK, EnvSound, RunStage, Over, Keys, Fund, Age, Move
<1>3. CASE Commit \/ Land
  BY <1>3 DEF ScriptInv, ScriptTypeOK, EnvSound, RunStage, Over, Keys, Commit, Land, Move,
              Leave, Exit
<1>4. CASE Register
  <2>1. CASE Leave("registering")
    BY <2>1 DEF ScriptInv, ScriptTypeOK, EnvSound, RunStage, Over, Keys, Leave, Exit
  <2>2. CASE ~Leave("registering")
    <3>1. /\ stage = "registering" /\ owner[label] = MissingKey
          /\ owner' = [owner EXCEPT ![label] = acct] /\ stage' = "landing"
          /\ UNCHANGED <<acct, label, env, cut>>
      BY <1>4, <2>2 DEF Register, Available
    <3>2. ScriptTypeOK'
      BY <3>1 DEF ScriptInv, ScriptTypeOK, RunStage
    <3>3. owner'[label] = acct
      BY <3>1 DEF ScriptInv, ScriptTypeOK
    <3>4. ~cut => EnvSound'
      BY <3>1 DEF ScriptInv, ScriptTypeOK, EnvSound
    <3> QED
      BY <3>1, <3>2, <3>3, <3>4 DEF ScriptInv
  <2> QED
    BY <2>1, <2>2
<1>5. CASE WriteKey
  BY <1>5 DEF ScriptInv, ScriptTypeOK, EnvSound, RunStage, Over, Keys, WriteKey
<1>6. CASE WriteParent
  BY <1>6 DEF ScriptInv, ScriptTypeOK, EnvSound, RunStage, Over, Keys, WriteParent, Exit
<1>7. CASE Abort
  <2>1. /\ stage \in RunStage /\ cut' = (stage = "parent") /\ UNCHANGED <<env, owner>>
        /\ stage' = "exited" /\ acct' = MissingKey /\ label' = FirstLabel
    BY <1>7 DEF Abort, Exit
  <2>2. cut' \in BOOLEAN /\ (~cut' => stage # "parent")
    BY <2>1
  <2>3. ScriptTypeOK'
    BY <2>1, <2>2 DEF ScriptInv, ScriptTypeOK, Over
  <2>4. ~cut' => EnvSound'
    <3>1. stage # "parent" /\ ~cut => EnvSound
      BY DEF ScriptInv
    <3>2. stage # "exited" => ~cut
      BY DEF ScriptInv
    <3> QED
      BY <2>1, <2>2, <3>1, <3>2 DEF EnvSound, RunStage
  <2> QED
    BY <2>1, <2>3, <2>4 DEF ScriptInv
<1> QED
  BY <1>1, <1>2, <1>3, <1>4, <1>5, <1>6, <1>7 DEF ScriptNext, ScriptStep

-----------------------------------------------------------------------------
\* The chain only grows, so what is on it stays.
Grows == \A i \in 1..Len(chain) : i \in 1..Len(chain') /\ chain'[i] = chain[i]

OnChain(x) ==
  \E i \in 1..Len(chain) :
    chain[i].ok /\ chain[i].tx.kind = "mint" /\ chain[i].tx.name = x

\* The step's transaction worked, on a name that exists.
OnRecord(t, step) == Written(t, step) /\ OnChain(step.name)

LEMMA MintedBelow == ASSUME NEW x \in Names PROVE Minted(x) <=> OnChain(x)
  BY RegistrarAssumption DEF Minted, OnChain

LEMMA OnChainStays == ASSUME Grows, NEW x, OnChain(x) PROVE OnChain(x)'
  BY DEF Grows, OnChain

LEMMA OnRecordStays ==
  ASSUME Grows, NEW t, NEW step, OnRecord(t, step)
  PROVE  OnRecord(t, step)'
<1>1. Written(t, step)'
  BY DEF Grows, OnRecord, Written
<1>2. OnChain(step.name)'
  BY OnChainStays DEF OnRecord
<1> QED
  BY <1>1, <1>2 DEF OnRecord

\* What Mine does, with the types it keeps.
LEMMA MineAppends ==
  ASSUME RegTypeOK, Mine
  PROVE  /\ Len(chain') = Len(chain) + 1 /\ Len(chain) \in Nonce
         /\ pool[Len(chain)] \in Tx
         /\ \A i \in 1..Len(chain) : chain'[i] = chain[i]
         /\ chain'[Len(chain) + 1] = [tx |-> pool[Len(chain)], ok |-> Succeeds(pool[Len(chain)])]
         /\ pool' = [pool EXCEPT ![Len(chain)] = NoTx]
         /\ Grows
<1> DEFINE n == Len(chain)
           mined == [tx |-> pool[n], ok |-> Succeeds(pool[n])]
<1>1. /\ n \in Nonce /\ n \in Nat /\ pool[n] # NoTx /\ pool \in [Nonce -> Tx \cup {NoTx}]
      /\ chain' = Append(chain, mined) /\ chain \in Seq([tx : Tx, ok : BOOLEAN])
      /\ pool' = [pool EXCEPT ![n] = NoTx]
  BY DEF RegTypeOK, Mine, Nonce
<1>2. pool[n] \in Tx
  BY <1>1
<1>3. mined \in [tx : Tx, ok : BOOLEAN]
  BY <1>2, SuccessIsBoolean
<1> HIDE DEF mined
<1>4. /\ Len(chain') = n + 1 /\ chain'[n + 1] = mined
      /\ \A i \in 1..n : chain'[i] = chain[i]
  BY <1>1, <1>3
<1>5. Grows
  BY <1>1, <1>4 DEF Grows
<1> QED
  BY <1>1, <1>2, <1>4, <1>5 DEF mined

LEMMA ChainGrows == ASSUME RegTypeOK, [Next]_vars PROVE Grows
<1>1. CASE UNCHANGED chain
  BY <1>1 DEF Grows, RegTypeOK
<1>2. CASE Block
  BY <1>2, MineAppends DEF Block
<1>3. CASE Boot \/ Crash \/ Script \/ ArenaGenerates \/ Done \/ UNCHANGED vars
  BY <1>1, <1>3 DEF Boot, Crash, Die, Script, ArenaGenerates, Outside, Done, vars, regVars
<1>4. CASE \E t \in Tasks : Start(t) \/ TaskStep(t)
  <2>1. UNCHANGED chain
    BY <1>4 DEF Start, TaskStep, NotConfigured, TaskEnsure, TakeNonce, Allocate, CannotSend,
                BuildFails, SendReturns, Submitted, SendRefused, Refused, Receipt,
                ConfirmationTimeout, PollRaises, regVars
  <2> QED
    BY <1>1, <2>1
<1>5. CASE \E a \in Agents : AgentEnsure(a) \/ AgentDies(a)
  BY <1>1, <1>5 DEF AgentEnsure, AgentDies, Outside, regVars
<1> QED
  BY <1>2, <1>3, <1>4, <1>5 DEF Next

\* Records are set under names that exist.
ChainSound ==
  \A i \in 1..Len(chain) :
    chain[i].ok /\ chain[i].tx.kind = "set" => OnChain(chain[i].tx.name)

LEMMA MineSound == ASSUME RegTypeOK, ChainSound, Mine PROVE ChainSound'
<1> DEFINE n == Len(chain)
           tx == pool[n]
<1>1. /\ Len(chain') = n + 1 /\ n \in Nat /\ tx \in Tx /\ Grows
      /\ \A i \in 1..n : chain'[i] = chain[i]
      /\ chain'[n + 1].tx = tx /\ chain'[n + 1].ok = Succeeds(tx)
  BY MineAppends DEF Nonce
<1>2. ASSUME NEW i \in 1..Len(chain'), chain'[i].ok, chain'[i].tx.kind = "set",
             NEW x, x = chain'[i].tx.name
      PROVE  OnChain(x)'
  <2>1. CASE i # n + 1
    <3>1. i \in 1..Len(chain) /\ chain'[i] = chain[i]
      BY <1>1, <2>1
    <3>2. OnChain(x)
      BY <1>2, <3>1 DEF ChainSound
    <3> QED
      BY <1>1, <3>2, OnChainStays
  <2>2. CASE i = n + 1
    <3>1. Succeeds(tx) /\ tx.kind = "set" /\ tx.name \in Names /\ x = tx.name
      BY <1>1, <1>2, <2>2 DEF Tx
    <3>2. OnChain(x)
      BY <3>1, MintedBelow DEF Succeeds
    <3> QED
      BY <1>1, <3>2, OnChainStays
  <2> QED
    BY <2>1, <2>2
<1>3. ASSUME NEW i \in 1..Len(chain'), chain'[i].ok, chain'[i].tx.kind = "set"
      PROVE  \E j \in 1..Len(chain') :
               /\ chain'[j].ok /\ chain'[j].tx.kind = "mint"
               /\ chain'[j].tx.name = chain'[i].tx.name
  BY <1>2, <1>3 DEF OnChain
<1> QED
  BY <1>3 DEF ChainSound, OnChain

-----------------------------------------------------------------------------
\* What the tasks have in flight.  Who waits has a nonce and waits for a write;
\* who sends has a configuration.
FlightOf(t, r) ==
  /\ r.stage = "waiting" =>
       r.nonce \in Nonce /\ Program[t][r.op][r.step].kind \in {"mint", "set"}
  /\ r.stage = "sending" => arena = "up" /\ Configured

FlightInv == \A t \in Tasks : FlightOf(t, task[t])

LEMMA GoLeavesOthers ==
  ASSUME TasksOK, NEW t \in Tasks, NEW r, Go(t, r)
  PROVE  task'[t] = r /\ \A u \in Tasks \ {t} : task'[u] = task[u]
  BY DEF Go, TasksOK

LEMMA GoFlight ==
  ASSUME TasksOK, FlightInv, NEW t \in Tasks, NEW r, Go(t, r), UNCHANGED <<arena, env>>,
         FlightOf(t, r)
  PROVE  FlightInv'
<1>1. task'[t] = r /\ \A u \in Tasks \ {t} : task'[u] = task[u]
  BY GoLeavesOthers
<1>2. ASSUME NEW u \in Tasks, NEW q, q = task'[u] PROVE FlightOf(u, q)'
  <2>1. FlightOf(u, q)
    BY <1>1, <1>2 DEF FlightInv
  <2> QED
    BY <2>1 DEF FlightOf, Configured
<1> QED
  BY <1>2 DEF FlightInv, FlightOf, Configured

\* A step that ends leaves nothing in flight.
LEMMA StepEnds ==
  ASSUME TasksOK, NEW t \in Tasks, NEW status,
         Report(t, status) \/ StepDone(t, status) \/ StepFailed(t)
  PROVE  \E r : Go(t, r) /\ r.stage \in {"ready", "over"}
<1>1. task[t] \in TaskRecord
  BY DEF TasksOK
<1>2. ASSUME NEW a, Report(t, a) PROVE \E r : Go(t, r) /\ r.stage \in {"ready", "over"}
  <2> DEFINE r == [task[t] EXCEPT !.stage = IF task[t].op = Len(Program[t]) THEN "over" ELSE "ready",
                                  !.op = IF @ = Len(Program[t]) THEN @ ELSE @ + 1,
                                  !.step = 1]
  <2>1. Go(t, r)
    BY <1>2 DEF Report
  <2>2. r.stage \in {"ready", "over"}
    BY <1>1 DEF TaskRecord
  <2> HIDE DEF r
  <2> QED
    BY <2>1, <2>2
<1>3. ASSUME NEW a, StepDone(t, a) PROVE \E r : Go(t, r) /\ r.stage \in {"ready", "over"}
  <2> DEFINE r == [task[t] EXCEPT !.stage = "ready", !.step = @ + 1]
  <2>1. Report(t, a) \/ Go(t, r)
    BY <1>3 DEF StepDone
  <2>2. r.stage = "ready"
    BY <1>1 DEF TaskRecord
  <2> HIDE DEF r
  <2> QED
    BY <1>2, <2>1, <2>2
<1> QED
  BY <1>2, <1>3 DEF StepFailed

LEMMA EndsFlight ==
  ASSUME TasksOK, FlightInv, NEW t \in Tasks, NEW status, UNCHANGED <<arena, env>>,
         Report(t, status) \/ StepDone(t, status) \/ StepFailed(t)
  PROVE  FlightInv'
<1>1. PICK r : Go(t, r) /\ r.stage \in {"ready", "over"}
  BY StepEnds
<1>2. FlightOf(t, r)
  BY <1>1 DEF FlightOf
<1> QED
  BY <1>1, <1>2, GoFlight

LEMMA MoveFlight ==
  ASSUME TasksOK, FlightInv, NEW t \in Tasks, UNCHANGED <<arena, env>>,
         NEW s, s \notin {"waiting", "sending"}, Go(t, [task[t] EXCEPT !.stage = s])
  PROVE  FlightInv'
<1> DEFINE r == [task[t] EXCEPT !.stage = s]
<1>1. r.stage = s
  BY DEF TasksOK, TaskRecord
<1>2. Go(t, r)
  OBVIOUS
<1> HIDE DEF r
<1>3. FlightOf(t, r)
  BY <1>1 DEF FlightOf
<1> QED
  BY <1>2, <1>3, GoFlight

LEMMA TaskStepFlight ==
  ASSUME ArchiveInv, FlightInv, NEW t \in Tasks, Start(t) \/ TaskStep(t)
  PROVE  FlightInv'
<1>a. TasksOK /\ RegTypeOK /\ task[t] \in TaskRecord
  BY DEF ArchiveInv, RegInv, TasksOK
<1>b. UNCHANGED <<arena, env>>
  BY DEF Start, TaskStep, NotConfigured, TaskEnsure, TakeNonce, CannotSend, SendReturns,
         SendRefused, Receipt, ConfirmationTimeout, PollRaises, scriptVars
<1>c. ASSUME NEW status, Report(t, status) \/ StepDone(t, status) \/ StepFailed(t)
      PROVE  FlightInv'
  BY <1>a, <1>b, <1>c, EndsFlight
<1>d. ASSUME Go(t, [task[t] EXCEPT !.stage = "ready"])
             \/ Go(t, [task[t] EXCEPT !.stage = "raised"])
      PROVE  FlightInv'
  BY <1>a, <1>b, <1>d, MoveFlight
<1>1. CASE Start(t) \/ PollRaises(t)
  BY <1>1, <1>d DEF Start, PollRaises
<1>2. CASE NotConfigured(t) \/ CannotSend(t) \/ SendRefused(t) \/ ConfirmationTimeout(t)
  BY <1>2, <1>c DEF NotConfigured, CannotSend, SendRefused, ConfirmationTimeout
<1>3. CASE TaskEnsure(t)
  <2>1. \/ StepDone(t, "confirmed")
        \/ UNCHANGED task
        \/ Go(t, [task[t] EXCEPT !.stage = "raised"])
    BY <1>3 DEF TaskEnsure
  <2>2. CASE UNCHANGED task
    BY <2>2, <1>b DEF FlightInv, FlightOf, Configured
  <2> QED
    BY <2>1, <2>2, <1>c, <1>d
<1>4. CASE TakeNonce(t)
  <2> DEFINE r == [task[t] EXCEPT !.stage = "sending"]
  <2>1. Go(t, r) /\ arena = "up" /\ Configured
    BY <1>4 DEF TakeNonce, Ready, At
  <2>2. r.stage = "sending"
    BY <1>a DEF TaskRecord
  <2> HIDE DEF r
  <2>3. FlightOf(t, r)
    BY <2>1, <2>2 DEF FlightOf
  <2> QED
    BY <2>1, <2>3, <1>a, <1>b, GoFlight
<1>5. CASE SendReturns(t)
  <2>1. CASE StepDone(t, "sent") \/ StepFailed(t)
    BY <2>1, <1>c
  <2>2. CASE ~(StepDone(t, "sent") \/ StepFailed(t))
    <3> DEFINE r == [task[t] EXCEPT !.stage = "waiting", !.nonce = held[t]]
    <3>1. /\ Go(t, r) /\ Step(t).kind # "pay" /\ task[t].stage = "sending"
          /\ held[t] # None
      BY <1>5, <2>2 DEF SendReturns, At, Submitted
    <3>2. held[t] \in Nonce
      BY <1>a, <3>1 DEF RegTypeOK
    <3>3. Step(t).kind \in {"mint", "set"}
      <4>1. GoodTask(t, task[t])
        BY <1>a DEF TasksOK
      <4> QED
        BY <3>1, <4>1 DEF GoodTask, TxKinds, Step, Op
    <3>4. /\ r.stage = "waiting" /\ r.nonce = held[t]
          /\ r.op = task[t].op /\ r.step = task[t].step
      BY <1>a DEF TaskRecord
    <3> HIDE DEF r
    <3>5. FlightOf(t, r)
      BY <3>2, <3>3, <3>4 DEF FlightOf, Step, Op
    <3> QED
      BY <3>1, <3>5, <1>a, <1>b, GoFlight
  <2> QED
    BY <2>1, <2>2
<1>6. CASE Receipt(t)
  <2>1. \E status : StepFailed(t) \/ StepDone(t, status)
    BY <1>6 DEF Receipt
  <2> QED
    BY <2>1, <1>c
<1> QED
  BY <1>1, <1>2, <1>3, <1>4, <1>5, <1>6 DEF TaskStep

LEMMA FlightStep ==
  ASSUME ArchiveInv, FlightInv, [Next]_vars
  PROVE  FlightInv'
<1>1. CASE \E t \in Tasks : Start(t) \/ TaskStep(t)
  BY <1>1, TaskStepFlight
<1>2. CASE Boot
  BY <1>2 DEF Boot, scriptVars, FlightInv, FlightOf, Configured
<1>3. CASE Crash
  <2>1. \A t \in Tasks : task[t] \in TaskRecord
    BY DEF ArchiveInv, TasksOK
  <2>2. /\ UNCHANGED env
        /\ task' = [t \in Tasks |-> IF task[t].stage \in {"ready", "sending", "waiting"}
                                      THEN [task[t] EXCEPT !.stage = "raised"] ELSE task[t]]
    BY <1>3 DEF Crash, scriptVars
  <2>3. \A t \in Tasks : task'[t].stage \notin {"sending", "waiting"}
    BY <2>1, <2>2 DEF TaskRecord
  <2> QED
    BY <2>3 DEF FlightInv, FlightOf
<1>4. CASE Script
  BY <1>4 DEF Script, archiveVars, FlightInv, FlightOf
<1>5. CASE UNCHANGED <<arena, env, task>>
  BY <1>5 DEF FlightInv, FlightOf, Configured
<1>6. CASE Block \/ ArenaGenerates \/ Done \/ UNCHANGED vars
  BY <1>5, <1>6 DEF Block, ArenaGenerates, Outside, Done, vars, archiveVars, scriptVars
<1>7. CASE \E a \in Agents : AgentEnsure(a) \/ AgentDies(a)
  BY <1>5, <1>7 DEF AgentEnsure, AgentDies, Outside, archiveVars, scriptVars
<1> QED
  BY <1>1, <1>2, <1>3, <1>4, <1>6, <1>7 DEF Next

-----------------------------------------------------------------------------
\* Once the arena has started, the script is over and the arena has read its
\* configuration; before that, nothing was sent.
Booted == arena = "up" \/ crashes > 0

OwnerInv ==
  /\ ScriptInv
  /\ arena \in {"down", "up"} /\ crashes \in 0..MaxCrashes
  /\ Booted => stage \in Over /\ owned = Owned
  /\ \A n \in Nonce : pool[n] # NoTx => Booted /\ Configured
  /\ \A i \in 1..Len(chain) : Booted
  /\ ParentIsOwned

LEMMA OwnerStays ==
  ASSUME OwnerInv, UNCHANGED <<scriptVars, arena, crashes, owned, pool, chain>>
  PROVE  OwnerInv'
<1>1. ScriptInv'
  BY DEF OwnerInv, ScriptInv, ScriptTypeOK, EnvSound, scriptVars
<1>2. ParentIsOwned'
  BY DEF OwnerInv, ParentIsOwned, scriptVars
<1> QED
  BY <1>1, <1>2 DEF OwnerInv, Booted, Owned, Configured, scriptVars

LEMMA SubmittedOwner ==
  ASSUME ArchiveInv, FlightInv, OwnerInv, NEW t \in Tasks, SendReturns(t)
  PROVE  OwnerInv'
<1>1. /\ UNCHANGED <<scriptVars, arena, crashes, owned, chain>>
      /\ held[t] # None /\ pool' = [pool EXCEPT ![held[t]] = StepTx(t)]
      /\ task[t].stage = "sending"
  BY DEF SendReturns, At, Submitted
<1>2. Booted /\ Configured
  BY <1>1 DEF FlightInv, FlightOf, Booted
<1>3. pool \in [Nonce -> Tx \cup {NoTx}]
  BY DEF ArchiveInv, RegInv, RegTypeOK
<1>4. \A n \in Nonce : pool'[n] # NoTx => Booted' /\ Configured'
  BY <1>1, <1>2 DEF Booted, Configured, scriptVars
<1>5. ScriptInv'
  BY <1>1 DEF OwnerInv, ScriptInv, ScriptTypeOK, EnvSound, scriptVars
<1>6. ParentIsOwned'
  BY <1>1 DEF OwnerInv, ParentIsOwned, scriptVars
<1> QED
  BY <1>1, <1>4, <1>5, <1>6 DEF OwnerInv, Booted, Owned, scriptVars

LEMMA MineOwner ==
  ASSUME ArchiveInv, OwnerInv, Block
  PROVE  OwnerInv'
<1> DEFINE n == Len(chain)
           tx == pool[n]
<1>1. /\ Len(chain') = n + 1 /\ n \in Nonce /\ n \in Nat /\ tx \in Tx
      /\ \A i \in 1..n : chain'[i] = chain[i]
      /\ chain'[n + 1].tx = tx /\ chain'[n + 1].ok = Succeeds(tx)
      /\ pool' = [pool EXCEPT ![n] = NoTx]
  BY MineAppends DEF Nonce, Block, ArchiveInv, RegInv
<1>2. UNCHANGED <<scriptVars, arena, crashes, owned>>
  BY DEF Block, Mine, archiveVars
<1>3. Booted /\ Configured
  BY <1>1, TxIsNotEmpty DEF OwnerInv
<1>4. ASSUME ~Succeeds(tx), tx.kind = "mint", Parent[tx.name] = Root PROVE cut
  <2>1. ~owned
    BY <1>4 DEF Succeeds, Minted
  <2>2. ~Owned /\ stage \in Over
    BY <1>3, <2>1 DEF OwnerInv
  <2>3. ~EnvSound
    BY <1>3, <2>2 DEF Owned, EnvSound, Configured
  <2> QED
    BY <2>2, <2>3 DEF OwnerInv, ScriptInv, Over
<1>5. ASSUME NEW i \in 1..Len(chain'), ~chain'[i].ok, chain'[i].tx.kind = "mint",
             Parent[chain'[i].tx.name] = Root
      PROVE  cut'
  <2>1. CASE i = n + 1
    BY <1>1, <1>2, <1>4, <1>5, <2>1 DEF scriptVars
  <2>2. CASE i # n + 1
    <3>1. i \in 1..Len(chain) /\ chain'[i] = chain[i]
      BY <1>1, <2>2
    <3> QED
      BY <3>1, <1>2, <1>5 DEF OwnerInv, ParentIsOwned, scriptVars
  <2> QED
    BY <2>1, <2>2
<1>6. ParentIsOwned'
  BY <1>5 DEF ParentIsOwned
<1>7. ScriptInv'
  BY <1>2 DEF OwnerInv, ScriptInv, ScriptTypeOK, EnvSound, scriptVars
<1>8. Booted' /\ Configured'
  BY <1>2, <1>3 DEF Booted, Configured, scriptVars
<1> QED
  BY <1>2, <1>6, <1>7, <1>8 DEF OwnerInv, Booted, Owned, scriptVars

LEMMA OwnerStep ==
  ASSUME ArchiveInv, FlightInv, OwnerInv, [Next]_vars
  PROVE  OwnerInv'
<1> DEFINE Kept == UNCHANGED <<scriptVars, arena, crashes, owned, pool, chain>>
<1>1. CASE Kept
  BY <1>1, OwnerStays
<1>2. CASE Boot
  <2>1. /\ stage \in Over /\ owned' = Owned /\ arena' = "up"
        /\ UNCHANGED <<scriptVars, crashes, pool, chain>>
    BY <1>2 DEF Boot
  <2>2. ScriptInv'
    BY <2>1 DEF OwnerInv, ScriptInv, ScriptTypeOK, EnvSound, scriptVars
  <2>3. ParentIsOwned'
    BY <2>1 DEF OwnerInv, ParentIsOwned, scriptVars
  <2> QED
    BY <2>1, <2>2, <2>3 DEF OwnerInv, Booted, Owned, Configured, scriptVars
<1>3. CASE Crash
  <2>1. /\ arena' = "down" /\ crashes' = crashes + 1 /\ crashes < MaxCrashes /\ Booted
        /\ UNCHANGED <<scriptVars, owned, pool, chain>>
    BY <1>3 DEF Crash, Die, Booted
  <2>2. crashes' \in 0..MaxCrashes /\ crashes' > 0
    BY <2>1, ArchiveAssumption DEF OwnerInv
  <2>3. ScriptInv'
    BY <2>1 DEF OwnerInv, ScriptInv, ScriptTypeOK, EnvSound, scriptVars
  <2>4. ParentIsOwned'
    BY <2>1 DEF OwnerInv, ParentIsOwned, scriptVars
  <2> QED
    BY <2>1, <2>2, <2>3, <2>4 DEF OwnerInv, Booted, Owned, Configured, scriptVars
<1>4. CASE Script
  <2>1. ~Booted
    BY <1>4, ArchiveAssumption DEF Script, Booted
  <2>2. /\ ScriptNext
        /\ UNCHANGED <<owned, pool, chain, arena, crashes>>
    BY <1>4 DEF Script, regVars, archiveVars
  <2>3. ScriptInv'
    BY <2>2, ScriptStepInv DEF OwnerInv
  <2>4. ~Booted'
    BY <2>1, <2>2 DEF Booted
  <2>5. /\ \A n \in Nonce : pool'[n] = NoTx
        /\ \A i \in 1..Len(chain') : FALSE
    BY <2>1, <2>2 DEF OwnerInv
  <2>6. ParentIsOwned'
    BY <2>5 DEF ParentIsOwned
  <2> QED
    BY <2>2, <2>3, <2>4, <2>5, <2>6 DEF OwnerInv
<1>5. CASE Block
  BY <1>5, MineOwner
<1>6. ASSUME NEW t \in Tasks, Start(t) \/ TaskStep(t) PROVE OwnerInv'
  <2>1. CASE SendReturns(t)
    BY <2>1, SubmittedOwner
  <2>2. CASE ~SendReturns(t)
    <3>1. Kept
      BY <1>6, <2>2
      DEF Start, TaskStep, NotConfigured, TaskEnsure, TakeNonce, Allocate, CannotSend,
          BuildFails, SendRefused, Refused, Receipt, ConfirmationTimeout, PollRaises, regVars
    <3> QED
      BY <3>1, <1>1
  <2> QED
    BY <2>1, <2>2
<1>7. CASE ArenaGenerates \/ Done \/ UNCHANGED vars
  BY <1>1, <1>7 DEF ArenaGenerates, Outside, Done, vars, archiveVars, regVars
<1>8. CASE \E a \in Agents : AgentEnsure(a) \/ AgentDies(a)
  BY <1>1, <1>8 DEF AgentEnsure, AgentDies, Outside, archiveVars, regVars
<1> HIDE DEF Kept
<1> QED
  BY <1>2, <1>3, <1>4, <1>5, <1>6, <1>7, <1>8 DEF Next

-----------------------------------------------------------------------------
\* What the tasks have reported.
Last(t, i) == Program[t][i][Len(Program[t][i])]

\* A task has reported the operations before the one it is at.
Reported(t, r, rs) ==
  /\ rs \in Seq(Status) /\ Len(rs) <= Len(Program[t])
  /\ r.stage # "over" => Len(rs) = r.op - 1

Recorded(t, rs) ==
  \A i \in 1..Len(rs) : rs[i] = "confirmed" => OnRecord(t, Last(t, i))

ResultInv ==
  /\ results = [t \in Tasks |-> results[t]]
  /\ \A t \in Tasks : Reported(t, task[t], results[t]) /\ Recorded(t, results[t])

LEMMA RecordedStays ==
  ASSUME Grows, NEW t, NEW rs, Recorded(t, rs)
  PROVE  Recorded(t, rs)'
<1>1. ASSUME NEW i \in 1..Len(rs), rs[i] = "confirmed" PROVE OnRecord(t, Last(t, i))'
  BY <1>1, OnRecordStays DEF Recorded
<1> QED
  BY <1>1 DEF Recorded

LEMMA AppendStatus ==
  ASSUME NEW rs \in Seq(Status), NEW status \in Status
  PROVE  /\ Append(rs, status) \in Seq(Status)
         /\ Len(Append(rs, status)) = Len(rs) + 1 /\ Len(rs) \in Nat
         /\ \A i \in 1..Len(rs) : Append(rs, status)[i] = rs[i]
         /\ Append(rs, status)[Len(rs) + 1] = status
  OBVIOUS

\* Nothing is reported.
LEMMA ResultsStay ==
  ASSUME ResultInv, Grows, UNCHANGED results,
         \A t \in Tasks : /\ task'[t].op = task[t].op
                          /\ task'[t].stage # "over" => task[t].stage # "over"
  PROVE  ResultInv'
<1>1. ASSUME NEW t \in Tasks, NEW rs, rs = results[t] PROVE Recorded(t, rs)'
  BY <1>1, RecordedStays DEF ResultInv
<1>2. \A t \in Tasks : Reported(t, task[t], results[t])'
  BY DEF ResultInv, Reported
<1>3. \A t \in Tasks : Recorded(t, results[t])'
  BY <1>1 DEF Recorded, OnRecord, Written, OnChain
<1> QED
  BY <1>2, <1>3 DEF ResultInv

LEMMA MoveResults ==
  ASSUME TasksOK, ResultInv, Grows, NEW t \in Tasks, UNCHANGED results,
         NEW r, Go(t, r), r.op = task[t].op, task[t].stage # "over"
  PROVE  ResultInv'
<1>1. task'[t] = r /\ \A u \in Tasks \ {t} : task'[u] = task[u]
  BY GoLeavesOthers
<1> QED
  BY <1>1, ResultsStay

LEMMA ReportResults ==
  ASSUME TasksOK, ResultInv, Grows, NEW t \in Tasks, task[t].stage # "over",
         NEW status \in Status, Report(t, status),
         status = "confirmed" => OnRecord(t, Last(t, task[t].op))
  PROVE  ResultInv'
<1> DEFINE rs == results[t]
           new == Append(rs, status)
           r == [task[t] EXCEPT !.stage = IF task[t].op = Len(Program[t]) THEN "over" ELSE "ready",
                                !.op = IF @ = Len(Program[t]) THEN @ ELSE @ + 1,
                                !.step = 1]
<1>1. /\ rs \in Seq(Status) /\ Len(rs) = task[t].op - 1 /\ Recorded(t, rs)
      /\ results = [u \in Tasks |-> results[u]]
  BY DEF ResultInv, Reported
<1>2. /\ task[t].op \in 1..Len(Program[t]) /\ Len(Program[t]) \in Nat
      /\ task[t] \in TaskRecord
  BY ProgramStep DEF TasksOK, GoodTask
<1>3. /\ new \in Seq(Status) /\ Len(new) = task[t].op
      /\ \A i \in 1..Len(rs) : new[i] = rs[i]
      /\ new[task[t].op] = status
  BY <1>1, <1>2, AppendStatus
<1>4. /\ Go(t, r) /\ results' = [results EXCEPT ![t] = new]
  BY DEF Report
<1>5. /\ task'[t] = r /\ \A u \in Tasks \ {t} : task'[u] = task[u]
      /\ results'[t] = new /\ \A u \in Tasks \ {t} : results'[u] = results[u]
      /\ results' = [u \in Tasks |-> results'[u]]
  <2>1. /\ task'[t] = r /\ \A u \in Tasks \ {t} : task'[u] = task[u]
    BY <1>4, GoLeavesOthers
  <2> HIDE DEF new, r
  <2> QED
    BY <1>1, <1>4, <2>1
<1>6. Reported(t, r, new)
  <2>1. CASE task[t].op = Len(Program[t])
    <3>1. r.stage = "over"
      BY <1>2, <2>1 DEF TaskRecord
    <3> HIDE DEF new, r
    <3> QED
      BY <1>2, <1>3, <2>1, <3>1 DEF Reported
  <2>2. CASE task[t].op # Len(Program[t])
    <3>1. r.op = task[t].op + 1
      BY <1>2, <2>2 DEF TaskRecord
    <3> HIDE DEF new, r
    <3>2. task[t].op \in Nat /\ task[t].op <= Len(Program[t])
      BY <1>2
    <3> QED
      BY <1>3, <3>1, <3>2 DEF Reported
  <2> QED
    BY <2>1, <2>2
<1>7. Recorded(t, new)
  <2>1. ASSUME NEW i \in 1..Len(new), new[i] = "confirmed" PROVE OnRecord(t, Last(t, i))
    <3> HIDE DEF new
    <3>1. CASE i = task[t].op
      BY <1>3, <2>1, <3>1
    <3>2. CASE i # task[t].op
      <4>1. i \in 1..Len(rs)
        BY <1>1, <1>2, <1>3, <2>1, <3>2
      <4> QED
        BY <1>1, <1>3, <2>1, <4>1 DEF Recorded
    <3> QED
      BY <3>1, <3>2
  <2> QED
    BY <2>1 DEF Recorded
<1> HIDE DEF rs, new, r
<1>8. \A u \in Tasks : Reported(u, task[u], results[u])'
  <2>1. ASSUME NEW u \in Tasks PROVE Reported(u, task'[u], results'[u])
    BY <1>5, <1>6 DEF ResultInv
  <2> QED
    BY <2>1 DEF Reported
<1>9. ASSUME NEW u \in Tasks, NEW q, q = results'[u] PROVE Recorded(u, q)'
  <2>1. Recorded(u, q)
    BY <1>5, <1>7, <1>9 DEF ResultInv
  <2> QED
    BY <2>1, RecordedStays
<1>10. \A u \in Tasks : Recorded(u, results[u])'
  BY <1>9 DEF Recorded, OnRecord, Written, OnChain
<1> QED
  BY <1>5, <1>8, <1>10 DEF ResultInv

LEMMA StepDoneResults ==
  ASSUME TasksOK, ResultInv, Grows, NEW t \in Tasks, task[t].stage # "over",
         NEW status \in Status, StepDone(t, status),
         status = "confirmed" /\ task[t].step = Len(Op(t)) => OnRecord(t, Step(t))
  PROVE  ResultInv'
<1>1. CASE task[t].step = Len(Op(t))
  <2>1. Step(t) = Last(t, task[t].op)
    BY <1>1 DEF Step, Op, Last
  <2> QED
    BY <1>1, <2>1, ReportResults DEF StepDone
<1>2. CASE task[t].step # Len(Op(t))
  <2> DEFINE r == [task[t] EXCEPT !.stage = "ready", !.step = @ + 1]
  <2>1. Go(t, r) /\ UNCHANGED results
    BY <1>2 DEF StepDone
  <2>2. r.op = task[t].op
    BY DEF TasksOK, TaskRecord
  <2> HIDE DEF r
  <2> QED
    BY <2>1, <2>2, MoveResults
<1> QED
  BY <1>1, <1>2

LEMMA StepFailedResults ==
  ASSUME TasksOK, ResultInv, Grows, NEW t \in Tasks, task[t].stage # "over", StepFailed(t)
  PROVE  ResultInv'
<1>1. "failed" \in Status
  BY DEF Status
<1> QED
  BY <1>1, ReportResults, StepDoneResults DEF StepFailed

\* The receipt is that of the task's own transaction, which worked on a name
\* that exists.
LEMMA ReceiptIsOnRecord ==
  ASSUME RegTypeOK, FlightInv, ChainSound, NEW t \in Tasks, task[t].stage = "waiting",
         HasReceipt(t), chain[task[t].nonce + 1].ok
  PROVE  OnRecord(t, Step(t))
<1> DEFINE i == task[t].nonce + 1
<1>1. task[t].nonce \in Nonce /\ Step(t).kind \in {"mint", "set"}
  BY DEF FlightInv, FlightOf, Step, Op
<1>2. i \in 1..Len(chain) /\ chain[i].tx = StepTx(t) /\ chain[i].ok
  BY <1>1 DEF HasReceipt, Nonce, RegTypeOK
<1>3. /\ StepTx(t).kind = Step(t).kind /\ StepTx(t).name = Step(t).name
      /\ StepTx(t) = [kind |-> Step(t).kind, name |-> Step(t).name, by |-> t]
  BY DEF StepTx
<1> HIDE DEF i
<1>4. Written(t, Step(t))
  BY <1>2, <1>3 DEF Written
<1>5. CASE Step(t).kind = "mint"
  BY <1>2, <1>3, <1>4, <1>5 DEF OnRecord, OnChain
<1>6. CASE Step(t).kind = "set"
  <2>1. OnChain(chain[i].tx.name)
    BY <1>2, <1>3, <1>6 DEF ChainSound
  <2> QED
    BY <1>2, <1>3, <1>4, <2>1 DEF OnRecord
<1> QED
  BY <1>1, <1>5, <1>6

LEMMA TaskStepResults ==
  ASSUME ArchiveInv, FlightInv, ChainSound, ResultInv, Grows,
         NEW t \in Tasks, Start(t) \/ TaskStep(t)
  PROVE  ResultInv'
<1>a. TasksOK /\ RegTypeOK /\ task[t] \in TaskRecord
  BY DEF ArchiveInv, RegInv, TasksOK
<1>b. task[t].stage # "over"
  BY DEF Start, TaskStep, NotConfigured, TaskEnsure, TakeNonce, CannotSend, SendReturns,
         SendRefused, Receipt, ConfirmationTimeout, PollRaises, Ready, At
<1>c. ASSUME NEW s, Go(t, [task[t] EXCEPT !.stage = s]), UNCHANGED results
      PROVE  ResultInv'
  <2> DEFINE r == [task[t] EXCEPT !.stage = s]
  <2>1. r.op = task[t].op /\ Go(t, r)
    BY <1>a, <1>c DEF TaskRecord
  <2> HIDE DEF r
  <2> QED
    BY <1>a, <1>b, <1>c, <2>1, MoveResults
<1>d. {"submitted", "confirmed", "failed", "not_configured", "sent"} \subseteq Status
  BY DEF Status
<1>1. CASE Start(t) \/ TakeNonce(t) \/ PollRaises(t)
  BY <1>1, <1>c DEF Start, TakeNonce, PollRaises
<1>2. CASE NotConfigured(t)
  BY <1>2, <1>a, <1>b, <1>d, ReportResults DEF NotConfigured
<1>3. CASE CannotSend(t) \/ SendRefused(t)
  BY <1>3, <1>a, <1>b, StepFailedResults DEF CannotSend, SendRefused
<1>4. CASE ConfirmationTimeout(t)
  BY <1>4, <1>a, <1>b, <1>d, StepDoneResults DEF ConfirmationTimeout
<1>5. CASE TaskEnsure(t)
  <2>1. task[t].step # Len(Op(t))
    BY <1>5, <1>a, EnsureSteps DEF TaskEnsure, Ready
  <2>2. CASE StepDone(t, "confirmed")
    BY <2>1, <2>2, <1>a, <1>b, <1>d, StepDoneResults
  <2>3. CASE UNCHANGED <<task, results>>
    BY <2>3, ResultsStay
  <2>4. CASE Go(t, [task[t] EXCEPT !.stage = "raised"]) /\ UNCHANGED results
    BY <2>4, <1>c
  <2> QED
    BY <1>5, <2>2, <2>3, <2>4 DEF TaskEnsure
<1>6. CASE SendReturns(t)
  <2>1. CASE StepDone(t, "sent")
    BY <2>1, <1>a, <1>b, <1>d, StepDoneResults
  <2>2. CASE StepFailed(t)
    BY <2>2, <1>a, <1>b, StepFailedResults
  <2>3. CASE /\ Go(t, [task[t] EXCEPT !.stage = "waiting", !.nonce = held[t]])
             /\ UNCHANGED results
    <3> DEFINE r == [task[t] EXCEPT !.stage = "waiting", !.nonce = held[t]]
    <3>1. r.op = task[t].op /\ Go(t, r)
      BY <1>a, <2>3 DEF TaskRecord
    <3> HIDE DEF r
    <3> QED
      BY <1>a, <1>b, <2>3, <3>1, MoveResults
  <2> QED
    BY <1>6, <2>1, <2>2, <2>3 DEF SendReturns
<1>7. CASE Receipt(t)
  <2> DEFINE receipt == chain[task[t].nonce + 1]
  <2>1. task[t].stage = "waiting" /\ HasReceipt(t)
    BY <1>7 DEF Receipt, At
  <2>2. CASE StepFailed(t)
    BY <2>2, <1>a, <1>b, StepFailedResults
  <2>3. CASE ~StepFailed(t)
    <3>1. receipt.ok /\ StepDone(t, "confirmed")
      BY <1>7, <2>3 DEF Receipt, ReceiptStatus
    <3>2. OnRecord(t, Step(t))
      BY <1>a, <2>1, <3>1, ReceiptIsOnRecord
    <3> QED
      BY <3>1, <3>2, <1>a, <1>b, <1>d, StepDoneResults
  <2> QED
    BY <2>2, <2>3
<1> QED
  BY <1>1, <1>2, <1>3, <1>4, <1>5, <1>6, <1>7 DEF TaskStep

-----------------------------------------------------------------------------
WriteInv ==
  /\ ArchiveInv /\ KeystoreTypeOK /\ OwnerInv
  /\ FlightInv /\ ChainSound /\ ResultInv

LEMMA WriteInit == Init => WriteInv
<1> SUFFICES ASSUME Init PROVE WriteInv
  OBVIOUS
<1>1. ArchiveInv
  BY ArchiveInit
<1>2. KeystoreTypeOK
  BY KeystoreInitTypes DEF Init
<1>3. chain = <<>> /\ Len(chain) = 0 /\ owned = FALSE /\ pool = [n \in Nonce |-> NoTx]
  BY DEF Init, RegInit
<1>4. OwnerInv
  <2>1. arena = "down" /\ crashes = 0 /\ ScriptInv /\ crashes \in 0..MaxCrashes
    BY ScriptInitInv, ArchiveAssumption DEF Init
  <2> QED
    BY <1>3, <2>1 DEF OwnerInv, Booted, ParentIsOwned
<1>5. FlightInv /\ ChainSound
  BY <1>3 DEF Init, FlightInv, FlightOf, ChainSound
<1>6. ResultInv
  <2>1. results = [t \in Tasks |-> <<>>]
        /\ task = [t \in Tasks |-> [stage |-> "new", op |-> 1, step |-> 1, nonce |-> None]]
    BY DEF Init
  <2>2. <<>> \in Seq(Status) /\ Len(<<>>) = 0
    OBVIOUS
  <2>3. ASSUME NEW t \in Tasks
        PROVE  Reported(t, task[t], results[t]) /\ Recorded(t, results[t])
    <3>1. Len(Program[t]) \in Nat
      BY ProgramAssumption, Element
    <3>2. results[t] = <<>> /\ task[t].op = 1
      BY <2>1
    <3> QED
      BY <2>2, <3>1, <3>2 DEF Reported, Recorded
  <2> QED
    BY <2>1, <2>3 DEF ResultInv
<1> QED
  BY <1>1, <1>2, <1>4, <1>5, <1>6 DEF WriteInv

LEMMA WriteStep == WriteInv /\ [Next]_vars => WriteInv'
<1> SUFFICES ASSUME WriteInv, [Next]_vars PROVE WriteInv'
  OBVIOUS
<1>1. ArchiveInv' /\ KeystoreTypeOK' /\ OwnerInv' /\ FlightInv'
  BY ArchiveStep, KeystoreStepTypes, OwnerStep, FlightStep DEF WriteInv, ArchiveInv
<1>2. Grows
  BY ChainGrows DEF WriteInv, ArchiveInv, RegInv
<1>3. ChainSound'
  <2>1. CASE Block
    BY <2>1, MineSound DEF Block, WriteInv, ArchiveInv, RegInv
  <2>2. CASE UNCHANGED chain
    BY <2>2 DEF WriteInv, ChainSound, OnChain
  <2>3. CASE ~Block
    <3>1. CASE \E t \in Tasks : Start(t) \/ TaskStep(t)
      <4>1. UNCHANGED chain
        BY <3>1 DEF Start, TaskStep, NotConfigured, TaskEnsure, TakeNonce, Allocate, CannotSend,
                    BuildFails, SendReturns, Submitted, SendRefused, Refused, Receipt,
                    ConfirmationTimeout, PollRaises, regVars
      <4> QED
        BY <2>2, <4>1
    <3>2. CASE ~\E t \in Tasks : Start(t) \/ TaskStep(t)
      <4>1. UNCHANGED chain
        BY <2>3, <3>2 DEF Next, Boot, Crash, Die, Script, ArenaGenerates, AgentEnsure, AgentDies,
                          Outside, Done, vars, regVars
      <4> QED
        BY <2>2, <4>1
    <3> QED
      BY <3>1, <3>2
  <2> QED
    BY <2>1, <2>3
<1>4. ResultInv'
  <2>1. CASE \E t \in Tasks : Start(t) \/ TaskStep(t)
    BY <1>2, <2>1, TaskStepResults DEF WriteInv
  <2>2. CASE Crash
    <3>1. \A t \in Tasks : task[t] \in TaskRecord
      BY DEF WriteInv, ArchiveInv, TasksOK
    <3>2. /\ UNCHANGED results
          /\ task' = [t \in Tasks |-> IF task[t].stage \in {"ready", "sending", "waiting"}
                                        THEN [task[t] EXCEPT !.stage = "raised"] ELSE task[t]]
      BY <2>2 DEF Crash
    <3>3. \A t \in Tasks : /\ task'[t].op = task[t].op
                           /\ task'[t].stage # "over" => task[t].stage # "over"
      BY <3>1, <3>2 DEF TaskRecord
    <3> QED
      BY <1>2, <3>2, <3>3, ResultsStay DEF WriteInv
  <2>3. CASE UNCHANGED <<task, results>>
    BY <1>2, <2>3, ResultsStay DEF WriteInv
  <2>4. CASE ~Crash /\ ~\E t \in Tasks : Start(t) \/ TaskStep(t)
    <3>1. UNCHANGED <<task, results>>
      BY <2>4 DEF Next, Boot, Block, Script, ArenaGenerates, AgentEnsure, AgentDies, Outside,
                  Done, vars, archiveVars
    <3> QED
      BY <2>3, <3>1
  <2> QED
    BY <2>1, <2>2, <2>4
<1> QED
  BY <1>1, <1>3, <1>4 DEF WriteInv

\* Every variable of the archive keeps its type: a task stays within its program
\* and every result is a status the events of the arena know (archive.py).
THEOREM ArchiveTypes == Spec => []TypeOK
<1>1. WriteInv => TypeOK
  <2> SUFFICES ASSUME WriteInv PROVE TypeOK
    OBVIOUS
  <2>1. RegTypeOK /\ KeystoreTypeOK /\ ScriptTypeOK
    BY DEF WriteInv, ArchiveInv, RegInv, OwnerInv, ScriptInv
  <2>2. arena \in {"down", "up"} /\ crashes \in 0..MaxCrashes
    BY DEF WriteInv, OwnerInv
  <2>3. ASSUME NEW t \in Tasks
        PROVE  /\ task[t].stage \in Stage /\ task[t].nonce \in Nonce \cup {None}
               /\ task[t].op \in 1..Len(Program[t]) /\ task[t].step \in 1..Len(Op(t))
               /\ results[t] \in Seq(Status)
    <3>1. GoodTask(t, task[t])
      BY DEF WriteInv, ArchiveInv, TasksOK
    <3>2. results[t] \in Seq(Status)
      BY DEF WriteInv, ResultInv, Reported
    <3> QED
      BY <3>1, <3>2 DEF GoodTask, TaskRecord, Op
  <2> QED
    BY <2>1, <2>2, <2>3 DEF TypeOK
<1> QED
  BY WriteInit, WriteStep, <1>1, PTL DEF Spec

\* An operation reported confirmed has its records on the chain, under a name
\* that exists: what is confirmed is the receipt of the task's own transaction,
\* also while other tasks send under the same account, answers get lost and the
\* arena dies in between (archive.py, 52-58 and 323-355).
THEOREM ConfirmedWasWritten == Spec => []ConfirmedIsWritten
<1>1. WriteInv => ConfirmedIsWritten
  <2> SUFFICES ASSUME WriteInv, NEW t \in Tasks, NEW i \in 1..Len(results[t]),
                      results[t][i] = "confirmed"
               PROVE  Written(t, Last(t, i)) /\ Minted(Last(t, i).name)
    BY DEF ConfirmedIsWritten, Last
  <2>1. OnRecord(t, Last(t, i))
    BY DEF WriteInv, ResultInv, Recorded
  <2> QED
    BY <2>1 DEF OnRecord, OnChain, Minted
<1> QED
  BY WriteInit, WriteStep, <1>1, PTL DEF Spec

\* A subname of the parent name reverts only if a run of the bootstrap script
\* was cut between its two writes of .env: otherwise the key and the parent name
\* the arena starts with belong together (register_sepolia_parent.py, 301-306).
THEOREM ParentWasOwned == Spec => []ParentIsOwned
<1>1. WriteInv => ParentIsOwned
  BY DEF WriteInv, OwnerInv
<1> QED
  BY WriteInit, WriteStep, <1>1, PTL DEF Spec
=============================================================================
