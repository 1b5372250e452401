---------------------------- MODULE Archive_proofs ----------------------------
(***************************************************************************)
(* The nonces of the registrar stay accounted for and the keystore         *)
(* settles, in every run of the archive: for any tasks, operations, names, *)
(* agents, crashes and largest nonce.                                      *)
(***************************************************************************)
EXTENDS Archive, TLAPS

TxKinds == {"mint", "set", "pay"}

TaskRecord ==
  [stage : Stage, op : Nat, step : Nat, nonce : Nonce \cup {None}]

\* A task points at a step of its program, and sends only what is a transaction.
GoodTask(t, r) ==
  /\ r \in TaskRecord
  /\ r.op \in 1..Len(Program[t])
  /\ r.step \in 1..Len(Program[t][r.op])
  /\ r.stage = "sending" => Program[t][r.op][r.step].kind \in TxKinds

TasksOK ==
  /\ task \in [Tasks -> TaskRecord]
  /\ \A t \in Tasks : GoodTask(t, task[t])

\* Before a process has asked for its first nonce no worker holds one.
HeldAreCounted == ~counted => \A t \in Tasks : held[t] = None

RegInv == RegTypeOK /\ NoncesAccounted /\ HeldAreCounted
ArchiveInv == RegInv /\ TasksOK

-----------------------------------------------------------------------------
LEMMA Element ==
  ASSUME NEW S, NEW seq \in Seq(S), NEW i \in 1..Len(seq)
  PROVE  seq[i] \in S /\ Len(seq) \in Nat
  OBVIOUS

LEMMA StepFields ==
  ASSUME NEW step \in OperationStep
  PROVE  step.kind \in TxKinds \cup {"ensure"} /\ step.name \in Names
  BY DEF OperationStep, TxKinds

\* What the program of a task holds at a position it can be at.
LEMMA ProgramStep ==
  ASSUME NEW t \in Tasks, NEW i \in 1..Len(Program[t])
  PROVE  /\ Len(Program[t]) \in Nat /\ Len(Program[t][i]) \in Nat \ {0}
         /\ \A j \in 1..Len(Program[t][i]) :
              /\ Program[t][i][j].kind \in TxKinds \cup {"ensure"}
              /\ Program[t][i][j].name \in Names
<1>1. Program[t] \in Seq(Operation)
  BY ProgramAssumption
<1>2. Program[t][i] \in Operation /\ Len(Program[t]) \in Nat
  BY <1>1, Element
<1>3. Program[t][i] \in Seq(OperationStep)
  BY <1>2 DEF Operation
<1>4. Len(Program[t][i]) > 0
  BY ProgramAssumption DEF Proper
<1>5. Len(Program[t][i]) \in Nat
  BY <1>3
<1>6. ASSUME NEW j \in 1..Len(Program[t][i])
      PROVE  /\ Program[t][i][j].kind \in TxKinds \cup {"ensure"}
             /\ Program[t][i][j].name \in Names
  <2>1. Program[t][i][j] \in OperationStep
    BY <1>3, Element
  <2> QED
    BY <2>1, StepFields
<1> QED
  BY <1>2, <1>4, <1>5, <1>6

\* A transaction is not the empty slot of the pool.
LEMMA TxIsNotEmpty == ASSUME NEW tx \in Tx PROVE tx # NoTx
<1>1. tx.kind # "none"
  BY DEF Tx
<1> QED
  BY <1>1 DEF NoTx

LEMMA SuccessIsBoolean == ASSUME NEW tx PROVE Succeeds(tx) \in BOOLEAN
  BY DEF Succeeds, Minted

-----------------------------------------------------------------------------
\* The steps of the account.
LEMMA AllocateKeeps ==
  ASSUME RegInv, NEW t \in Tasks, NEW n \in Nonce, Allocate(t, n)
  PROVE  RegInv'
<1> USE DEF RegInv, RegTypeOK, Nonce, None, Allocate
<1> USE RegistrarAssumption
<1>1. n \in 0..MaxNonce /\ MaxNonce \in Nat /\ Len(chain) \in Nat
  OBVIOUS
<1>2. /\ held' = [held EXCEPT ![t] = n] /\ held \in [Tasks -> (0..MaxNonce) \cup {-1}]
      /\ next' = n + 1 /\ counted' = TRUE /\ lost' = lost /\ pool' = pool /\ chain' = chain
  OBVIOUS
<1>3. RegTypeOK'
  BY <1>1, <1>2
<1>4. \A u \in Tasks : held[u] < n
  BY <1>1 DEF Allocated, HeldAreCounted, NoncesAccounted
<1>5. \A m \in 0..(n - 1) :
         m < Len(chain) \/ pool[m] # NoTx \/ m \in lost \/ \E u \in Tasks : held[u] = m
  BY <1>1 DEF Allocated, IsPending, NoncesAccounted
<1>6. NoncesDistinct'
  BY <1>2, <1>4 DEF NoncesAccounted, NoncesDistinct
<1>7. \A m \in 0..(next' - 1) :
         m < Len(chain') \/ pool'[m] # NoTx \/ m \in lost' \/ \E u \in Tasks : held'[u] = m
  <2> SUFFICES ASSUME NEW m \in 0..n
               PROVE  m < Len(chain) \/ pool[m] # NoTx \/ m \in lost \/ \E u \in Tasks : held'[u] = m
    BY <1>1, <1>2
  <2>1. CASE m = n
    BY <2>1, <1>2
  <2>2. CASE m # n
    <3>1. m \in 0..(n - 1)
      BY <2>2, <1>1
    <3>2. CASE \E u \in Tasks : held[u] = m
      <4>1. PICK u \in Tasks : held[u] = m
        BY <3>2
      <4>2. u # t
        BY <4>1, <3>1
      <4> QED
        BY <4>1, <4>2, <1>2
    <3> QED
      BY <3>1, <3>2, <1>5
  <2> QED
    BY <2>1, <2>2
<1>8. \A u \in Tasks : held'[u] < next'
  BY <1>1, <1>2, <1>4
<1> QED
  BY <1>2, <1>3, <1>6, <1>7, <1>8 DEF NoncesAccounted, HeldAreCounted

LEMMA SubmittedKeeps ==
  ASSUME RegInv, NEW t \in Tasks, NEW tx \in Tx, Submitted(t, tx)
  PROVE  RegInv'
<1> USE DEF RegInv, RegTypeOK, Nonce, None, Submitted
<1> USE RegistrarAssumption
<1>1. /\ held' = [held EXCEPT ![t] = -1] /\ held \in [Tasks -> (0..MaxNonce) \cup {-1}]
      /\ held[t] \in 0..MaxNonce
      /\ pool' = [pool EXCEPT ![held[t]] = tx] /\ pool \in [0..MaxNonce -> Tx \cup {NoTx}]
      /\ next' = next /\ counted' = counted /\ lost' = lost /\ chain' = chain
      /\ next \in Nat /\ Len(chain) \in Nat
  OBVIOUS
<1>2. RegTypeOK'
  BY <1>1
<1>3. NoncesDistinct'
  BY <1>1 DEF NoncesAccounted, NoncesDistinct
<1>4. ASSUME counted, NEW m \in 0..(next - 1)
      PROVE  m < Len(chain) \/ pool'[m] # NoTx \/ m \in lost \/ \E u \in Tasks : held'[u] = m
  <2>1. CASE m = held[t]
    BY <2>1, <1>1, TxIsNotEmpty
  <2>2. CASE m # held[t] /\ \E u \in Tasks : held[u] = m
    BY <2>2, <1>1
  <2>3. CASE m # held[t] /\ ~\E u \in Tasks : held[u] = m
    <3>1. m < Len(chain) \/ pool[m] # NoTx \/ m \in lost
      BY <2>3, <1>4 DEF NoncesAccounted
    <3>2. m \in 0..MaxNonce
      BY <1>1
    <3> QED
      BY <3>1, <3>2, <2>3, <1>1
  <2> QED
    BY <2>1, <2>2, <2>3
<1>5. counted => \A u \in Tasks : held'[u] < next
  BY <1>1 DEF NoncesAccounted
<1> QED
  BY <1>1, <1>2, <1>3, <1>4, <1>5 DEF NoncesAccounted, HeldAreCounted

LEMMA RefusedKeeps ==
  ASSUME RegInv, NEW t \in Tasks, Refused(t)
  PROVE  RegInv'
<1> USE DEF RegInv, RegTypeOK, Nonce, None, Refused, Forfeit
<1> USE RegistrarAssumption
<1>1. /\ held' = [held EXCEPT ![t] = -1] /\ held \in [Tasks -> (0..MaxNonce) \cup {-1}]
      /\ held[t] \in 0..MaxNonce
      /\ lost' = lost \cup {held[t]}
      /\ pool' = pool /\ next' = next /\ counted' = counted /\ chain' = chain
      /\ next \in Nat /\ Len(chain) \in Nat
  OBVIOUS
<1>2. RegTypeOK'
  BY <1>1
<1>3. NoncesDistinct'
  BY <1>1 DEF NoncesAccounted, NoncesDistinct
<1>4. ASSUME counted, NEW m \in 0..(next - 1)
      PROVE  m < Len(chain) \/ pool[m] # NoTx \/ m \in lost' \/ \E u \in Tasks : held'[u] = m
  <2>1. CASE m = held[t]
    BY <2>1, <1>1
  <2>2. CASE m # held[t] /\ \E u \in Tasks : held[u] = m
    BY <2>2, <1>1
  <2>3. CASE m # held[t] /\ ~\E u \in Tasks : held[u] = m
    BY <2>3, <1>1, <1>4 DEF NoncesAccounted
  <2> QED
    BY <2>1, <2>2, <2>3
<1>5. counted => \A u \in Tasks : held'[u] < next
  BY <1>1 DEF NoncesAccounted
<1> QED
  BY <1>1, <1>2, <1>3, <1>4, <1>5 DEF NoncesAccounted, HeldAreCounted

LEMMA MineKeeps == ASSUME RegInv, Mine PROVE RegInv'
<1> USE DEF RegInv, RegTypeOK, Nonce, None, Mine
<1> USE RegistrarAssumption
<1> DEFINE n == Len(chain)
           mined == [tx |-> pool[n], ok |-> Succeeds(pool[n])]
<1>1. /\ n \in 0..MaxNonce /\ n \in Nat /\ pool[n] # NoTx
      /\ pool' = [pool EXCEPT ![n] = NoTx] /\ pool \in [0..MaxNonce -> Tx \cup {NoTx}]
      /\ chain' = Append(chain, mined)
      /\ held' = held /\ lost' = lost /\ next' = next /\ counted' = counted /\ owned' = owned
  OBVIOUS
<1>2. mined \in [tx : Tx, ok : BOOLEAN]
  BY <1>1, SuccessIsBoolean
<1>3. /\ chain' \in Seq([tx : Tx, ok : BOOLEAN]) /\ Len(chain') = n + 1
  BY <1>1, <1>2
<1>4. RegTypeOK'
  BY <1>1, <1>3
<1>5. \A m \in 0..(next - 1) :
         m < Len(chain) \/ pool[m] # NoTx => m < Len(chain') \/ pool'[m] # NoTx
  BY <1>1, <1>3
<1>6. NoncesDistinct'
  BY <1>1 DEF NoncesAccounted, NoncesDistinct
<1>7. ASSUME counted, NEW m \in 0..(next - 1)
      PROVE  m < Len(chain') \/ pool'[m] # NoTx \/ m \in lost \/ \E u \in Tasks : held[u] = m
  <2> HIDE DEF RegInv, RegTypeOK, Mine, n, mined
  <2>1. m < Len(chain) \/ pool[m] # NoTx \/ m \in lost \/ \E u \in Tasks : held[u] = m
    BY <1>7 DEF RegInv, NoncesAccounted
  <2> QED
    BY <2>1, <1>5
<1>8. NoncesAccounted'
  <2> HIDE DEF RegInv, RegTypeOK, Mine, n, mined
  <2>1. counted => \A u \in Tasks : held[u] < next
    BY DEF RegInv, NoncesAccounted
  <2> QED
    BY <1>1, <1>6, <1>7, <2>1 DEF NoncesAccounted
<1>9. HeldAreCounted'
  BY <1>1 DEF HeldAreCounted
<1> QED
  BY <1>4, <1>8, <1>9

LEMMA DieKeeps == ASSUME RegInv, Die PROVE RegInv'
<1>1. /\ held' = [t \in Tasks |-> None] /\ counted' = FALSE
      /\ \A t \in Tasks : held'[t] = None
  BY DEF Die
<1>2. RegTypeOK'
  BY RegistrarAssumption DEF RegInv, RegTypeOK, Die, Nonce
<1>3. NoncesDistinct'
  BY <1>1 DEF NoncesDistinct
<1>4. NoncesAccounted'
  BY <1>1, <1>3 DEF NoncesAccounted
<1> QED
  BY <1>1, <1>2, <1>4 DEF RegInv, HeldAreCounted

LEMMA RegStutters ==
  ASSUME RegInv, owned' \in BOOLEAN, UNCHANGED <<counted, next, held, lost, pool, chain>>
  PROVE  RegInv'
  BY DEF RegInv, RegTypeOK, NoncesAccounted, NoncesDistinct, HeldAreCounted

-----------------------------------------------------------------------------
\* The steps of the tasks.
LEMMA GoKeeps ==
  ASSUME TasksOK, NEW t \in Tasks, NEW r, GoodTask(t, r), Go(t, r)
  PROVE  TasksOK'
<1>1. /\ task' = [task EXCEPT ![t] = r] /\ r \in TaskRecord
      /\ task \in [Tasks -> TaskRecord] /\ \A u \in Tasks : GoodTask(u, task[u])
  BY DEF Go, TasksOK, GoodTask
<1>2. task' \in [Tasks -> TaskRecord]
  BY <1>1
<1>3. ASSUME NEW u \in Tasks PROVE GoodTask(u, task'[u])
  <2>1. CASE u = t
    BY <2>1, <1>1
  <2>2. CASE u # t
    BY <2>2, <1>1
  <2> QED
    BY <2>1, <2>2
<1> QED
  BY <1>2, <1>3 DEF TasksOK, GoodTask

LEMMA StageChanges ==
  ASSUME NEW t \in Tasks, NEW r, GoodTask(t, r), NEW s \in Stage,
         s = "sending" => Program[t][r.op][r.step].kind \in TxKinds
  PROVE  GoodTask(t, [r EXCEPT !.stage = s])
  BY DEF GoodTask, TaskRecord

\* A task record whose fields are replaced.
Updated(r, s, op, step) == [r EXCEPT !.stage = s, !.op = op, !.step = step]

LEMMA RecordUpdate ==
  ASSUME NEW r \in TaskRecord, NEW s \in Stage, NEW op \in Nat, NEW step \in Nat
  PROVE  /\ Updated(r, s, op, step) \in TaskRecord
         /\ Updated(r, s, op, step).stage = s
         /\ Updated(r, s, op, step).op = op
         /\ Updated(r, s, op, step).step = step
  BY DEF TaskRecord, Updated

LEMMA ReportKeeps ==
  ASSUME TasksOK, NEW t \in Tasks, NEW status, Report(t, status)
  PROVE  TasksOK'
<1> DEFINE r == task[t]
           next_r == [r EXCEPT !.stage = IF r.op = Len(Program[t]) THEN "over" ELSE "ready",
                               !.op = IF r.op = Len(Program[t]) THEN r.op ELSE r.op + 1,
                               !.step = 1]
<1>1. GoodTask(t, r)
  BY DEF TasksOK
<1>2. Go(t, next_r)
  BY DEF Report
<1>3. GoodTask(t, next_r)
  <2>1. r \in TaskRecord /\ r.op \in 1..Len(Program[t]) /\ Len(Program[t]) \in Nat
    BY <1>1, ProgramStep DEF GoodTask
  <2>0. r \in TaskRecord /\ 1 \in Nat
    BY <2>1
  <2>2. \A i \in 1..Len(Program[t]) : 1 \in 1..Len(Program[t][i])
    <3> SUFFICES ASSUME NEW i \in 1..Len(Program[t]) PROVE 1 \in 1..Len(Program[t][i])
      OBVIOUS
    <3>1. Len(Program[t][i]) \in Nat \ {0}
      BY ProgramStep
    <3> QED
      BY <3>1
  <2>3. /\ next_r \in TaskRecord /\ next_r.step = 1 /\ next_r.op \in 1..Len(Program[t])
        /\ next_r.stage # "sending"
    <3>1. CASE r.op = Len(Program[t])
      <4>1. next_r = Updated(r, "over", r.op, 1)
        BY <3>1 DEF Updated
      <4>2. "over" \in Stage /\ r.op \in Nat
        BY <2>1 DEF Stage
      <4> HIDE DEF next_r, r
      <4>3. /\ next_r \in TaskRecord /\ next_r.step = 1 /\ next_r.op = r.op
            /\ next_r.stage = "over"
        BY <2>0, <4>1, <4>2, RecordUpdate, SMT
      <4> QED
        BY <2>1, <4>3
    <3>2. CASE r.op # Len(Program[t])
      <4>1. next_r = Updated(r, "ready", r.op + 1, 1)
        BY <3>2 DEF Updated
      <4>2. "ready" \in Stage /\ r.op + 1 \in Nat /\ r.op + 1 \in 1..Len(Program[t])
        BY <2>1, <3>2 DEF Stage
      <4> HIDE DEF next_r, r
      <4>3. /\ next_r \in TaskRecord /\ next_r.step = 1 /\ next_r.op = r.op + 1
            /\ next_r.stage = "ready"
        <5>1. "ready" \in Stage /\ r.op + 1 \in Nat
          BY <4>2
        <5> QED
          BY <2>0, <4>1, <5>1, RecordUpdate, SMT
      <4> QED
        BY <4>2, <4>3
    <3> QED
      BY <3>1, <3>2
  <2> HIDE DEF next_r
  <2> QED
    BY <2>2, <2>3 DEF GoodTask
<1> HIDE DEF next_r
<1> QED
  BY <1>2, <1>3, GoKeeps

LEMMA StepDoneKeeps ==
  ASSUME TasksOK, NEW t \in Tasks, NEW status, StepDone(t, status)
  PROVE  TasksOK'
<1>1. CASE task[t].step = Len(Op(t))
  BY <1>1, ReportKeeps DEF StepDone
<1>2. CASE task[t].step # Len(Op(t))
  <2> DEFINE r == task[t]
             next_r == [r EXCEPT !.stage = "ready", !.step = r.step + 1]
  <2>1. Go(t, next_r)
    BY <1>2 DEF StepDone
  <2>2. GoodTask(t, r)
    BY DEF TasksOK
  <2>3. Len(Program[t][r.op]) \in Nat
    BY <2>2, ProgramStep DEF GoodTask
  <2>4. /\ next_r \in TaskRecord /\ next_r.op = r.op /\ next_r.step \in 1..Len(Program[t][r.op])
        /\ next_r.stage # "sending" /\ r.op \in 1..Len(Program[t])
    <3>1. /\ r \in TaskRecord /\ r.op \in Nat /\ r.op \in 1..Len(Program[t])
          /\ r.step \in 1..Len(Program[t][r.op]) /\ r.step # Len(Program[t][r.op])
      BY <1>2, <2>2 DEF GoodTask, TaskRecord, Op
    <3>2. "ready" \in Stage /\ r.step + 1 \in Nat /\ r.step + 1 \in 1..Len(Program[t][r.op])
      BY <3>1, <2>3 DEF Stage
    <3>3. next_r = Updated(r, "ready", r.op, r.step + 1)
      BY <3>1 DEF TaskRecord, Updated
    <3> HIDE DEF next_r, r
    <3>4. /\ next_r \in TaskRecord /\ next_r.step = r.step + 1 /\ next_r.op = r.op
          /\ next_r.stage = "ready"
      <4> DEFINE op == r.op
                 step == r.step + 1
      <4>1. r \in TaskRecord /\ op \in Nat
        BY <3>1
      <4>2. "ready" \in Stage /\ step \in Nat
        BY <3>2
      <4>3. next_r = Updated(r, "ready", op, step)
        BY <3>3
      <4>4. /\ next_r \in TaskRecord /\ next_r.step = step /\ next_r.op = op
            /\ next_r.stage = "ready"
        <5> HIDE DEF op, step
        <5> QED
          BY <4>1, <4>2, <4>3, RecordUpdate, SMT
      <4> QED
        BY <4>4
    <3> QED
      BY <3>1, <3>2, <3>4
  <2>5. GoodTask(t, next_r)
    <3> HIDE DEF next_r, r
    <3> QED
      BY <2>4 DEF GoodTask
  <2> HIDE DEF next_r, r
  <2> QED
    BY <2>1, <2>5, GoKeeps
<1> QED
  BY <1>1, <1>2

LEMMA StepFailedKeeps ==
  ASSUME TasksOK, NEW t \in Tasks, StepFailed(t)
  PROVE  TasksOK'
  BY ReportKeeps, StepDoneKeeps DEF StepFailed

\* A task that goes to another stage at the same step.
LEMMA MoveKeeps ==
  ASSUME TasksOK, NEW t \in Tasks, NEW s \in Stage \ {"sending"},
         Go(t, [task[t] EXCEPT !.stage = s])
  PROVE  TasksOK'
<1>1. GoodTask(t, task[t])
  BY DEF TasksOK
<1>2. GoodTask(t, [task[t] EXCEPT !.stage = s])
  BY <1>1, StageChanges
<1> QED
  BY <1>2, GoKeeps

\* What a sending task sends is a transaction.
LEMMA StepIsTx ==
  ASSUME TasksOK, NEW t \in Tasks, task[t].stage = "sending"
  PROVE  StepTx(t) \in Tx
<1>1. GoodTask(t, task[t])
  BY DEF TasksOK
<1>2. Step(t).kind \in TxKinds /\ Step(t).name \in Names
  BY <1>1, ProgramStep DEF GoodTask, Step, Op
<1> QED
  BY <1>2 DEF StepTx, Tx, TxKinds

-----------------------------------------------------------------------------
\* The steps of the archive.
LEMMA NothingChanges == ASSUME ArchiveInv, UNCHANGED <<regVars, task>> PROVE ArchiveInv'
<1>1. RegInv'
  BY RegStutters DEF ArchiveInv, RegInv, RegTypeOK, regVars
<1>2. TasksOK'
  BY DEF ArchiveInv, TasksOK, GoodTask
<1> QED
  BY <1>1, <1>2 DEF ArchiveInv

LEMMA TaskStepKeeps ==
  ASSUME ArchiveInv, NEW t \in Tasks, Start(t) \/ TaskStep(t)
  PROVE  ArchiveInv'
<1> USE DEF ArchiveInv
<1>a. RegInv /\ TasksOK
  OBVIOUS
<1>b. UNCHANGED regVars => RegInv'
  BY <1>a, RegStutters DEF RegInv, RegTypeOK, regVars
<1>c. "ready" \in Stage \ {"sending"} /\ "raised" \in Stage \ {"sending"}
  BY DEF Stage
<1>1. CASE Start(t)
  BY <1>1, <1>a, <1>b, <1>c, MoveKeeps DEF Start
<1>2. CASE NotConfigured(t)
  BY <1>2, <1>a, <1>b, ReportKeeps DEF NotConfigured
<1>3. CASE TaskEnsure(t)
  <2>1. UNCHANGED regVars
    BY <1>3 DEF TaskEnsure
  <2>2. \/ StepDone(t, "confirmed")
        \/ UNCHANGED task
        \/ Go(t, [task[t] EXCEPT !.stage = "raised"])
    BY <1>3 DEF TaskEnsure
  <2>3. TasksOK'
    <3>1. CASE StepDone(t, "confirmed")
      BY <3>1, <1>a, StepDoneKeeps
    <3>2. CASE UNCHANGED task
      BY <3>2, <1>a DEF TasksOK, GoodTask
    <3>3. CASE Go(t, [task[t] EXCEPT !.stage = "raised"])
      BY <3>3, <1>a, <1>c, MoveKeeps
    <3> QED
      BY <2>2, <3>1, <3>2, <3>3
  <2> QED
    BY <2>1, <2>3, <1>b
<1>4. CASE TakeNonce(t)
  <2>1. /\ Step(t).kind \in TxKinds
        /\ Go(t, [task[t] EXCEPT !.stage = "sending"])
    BY <1>4 DEF TakeNonce, Ready, TxKinds
  <2>2. PICK n \in Nonce : Allocate(t, n)
    BY <1>4 DEF TakeNonce
  <2>3. RegInv'
    BY <2>2, <1>a, AllocateKeeps
  <2>4. GoodTask(t, task[t])
    BY <1>a DEF TasksOK
  <2>5. GoodTask(t, [task[t] EXCEPT !.stage = "sending"])
    <3>1. Program[t][task[t].op][task[t].step].kind \in TxKinds
      BY <2>1 DEF Step, Op
    <3>2. "sending" \in Stage
      BY DEF Stage
    <3> QED
      BY <2>4, <3>1, <3>2, StageChanges
  <2> QED
    BY <2>1, <2>3, <2>5, <1>a, GoKeeps
<1>5. CASE CannotSend(t)
  BY <1>5, <1>a, <1>b, StepFailedKeeps DEF CannotSend, BuildFails
<1>6. CASE SendReturns(t)
  <2>1. task[t].stage = "sending" /\ Submitted(t, StepTx(t))
    BY <1>6 DEF SendReturns, At
  <2>2. StepTx(t) \in Tx
    BY <2>1, <1>a, StepIsTx
  <2>3. RegInv'
    BY <2>1, <2>2, <1>a, SubmittedKeeps
  <2>4. \/ StepDone(t, "sent")
        \/ Go(t, [task[t] EXCEPT !.stage = "waiting", !.nonce = held[t]])
        \/ StepFailed(t)
    BY <1>6 DEF SendReturns
  <2>5. TasksOK'
    <3>1. CASE StepDone(t, "sent")
      BY <3>1, <1>a, StepDoneKeeps
    <3>2. CASE Go(t, [task[t] EXCEPT !.stage = "waiting", !.nonce = held[t]])
      <4>1. GoodTask(t, task[t])
        BY <1>a DEF TasksOK
      <4>2. held[t] \in Nonce \cup {None} /\ "waiting" \in Stage
        BY <1>a DEF RegInv, RegTypeOK, Stage
      <4>3. GoodTask(t, [task[t] EXCEPT !.stage = "waiting", !.nonce = held[t]])
        BY <4>1, <4>2 DEF GoodTask, TaskRecord
      <4> QED
        BY <3>2, <4>3, <1>a, GoKeeps
    <3>3. CASE StepFailed(t)
      BY <3>3, <1>a, StepFailedKeeps
    <3> QED
      BY <2>4, <3>1, <3>2, <3>3
  <2> QED
    BY <2>3, <2>5
<1>7. CASE SendRefused(t)
  BY <1>7, <1>a, RefusedKeeps, StepFailedKeeps DEF SendRefused
<1>8. CASE Receipt(t)
  <2>1. UNCHANGED regVars /\ \E status : StepFailed(t) \/ StepDone(t, status)
    BY <1>8 DEF Receipt
  <2> QED
    BY <2>1, <1>a, <1>b, StepFailedKeeps, StepDoneKeeps
<1>9. CASE ConfirmationTimeout(t)
  BY <1>9, <1>a, <1>b, StepDoneKeeps DEF ConfirmationTimeout
<1>10. CASE PollRaises(t)
  BY <1>10, <1>a, <1>b, <1>c, MoveKeeps DEF PollRaises
<1> QED
  BY <1>1, <1>2, <1>3, <1>4, <1>5, <1>6, <1>7, <1>8, <1>9, <1>10 DEF TaskStep

LEMMA CrashKeeps == ASSUME ArchiveInv, Crash PROVE ArchiveInv'
<1>1. RegInv'
  BY DieKeeps DEF ArchiveInv, Crash
<1>2. \A t \in Tasks : GoodTask(t, task[t]) /\ GoodTask(t, [task[t] EXCEPT !.stage = "raised"])
  BY StageChanges DEF ArchiveInv, TasksOK, Stage
<1>3. task' = [t \in Tasks |-> IF task[t].stage \in {"ready", "sending", "waiting"}
                                  THEN [task[t] EXCEPT !.stage = "raised"] ELSE task[t]]
  BY DEF Crash
<1>4. \A t \in Tasks : GoodTask(t, task'[t])
  BY <1>2, <1>3
<1>5. task' \in [Tasks -> TaskRecord]
  BY <1>2, <1>3 DEF GoodTask
<1>6. TasksOK'
  BY <1>4, <1>5 DEF TasksOK, GoodTask
<1> QED
  BY <1>1, <1>6 DEF ArchiveInv

LEMMA ArchiveInit == Init => ArchiveInv
<1> SUFFICES ASSUME Init PROVE ArchiveInv
  OBVIOUS
<1>1. RegTypeOK
  <2>1. /\ owned = FALSE /\ counted = FALSE /\ next = 0 /\ lost = {} /\ chain = <<>>
        /\ held = [t \in Tasks |-> None] /\ pool = [n \in Nonce |-> NoTx]
    BY DEF Init, RegInit
  <2>2. chain \in Seq([tx : Tx, ok : BOOLEAN]) /\ Len(chain) = 0
    BY <2>1
  <2>3. next \in 0..(MaxNonce + 1) /\ Len(chain) <= MaxNonce + 1
    BY <2>1, <2>2, RegistrarAssumption
  <2>4. held \in [Tasks -> Nonce \cup {None}] /\ pool \in [Nonce -> Tx \cup {NoTx}]
    BY <2>1
  <2> QED
    BY <2>1, <2>2, <2>3, <2>4 DEF RegTypeOK
<1>2. NoncesAccounted /\ HeldAreCounted
  BY DEF Init, RegInit, NoncesAccounted, NoncesDistinct, HeldAreCounted
<1>3. ASSUME NEW t \in Tasks
      PROVE  GoodTask(t, [stage |-> "new", op |-> 1, step |-> 1, nonce |-> None])
  <2>1. Len(Program[t]) \in Nat /\ Len(Program[t]) > 0
    BY ProgramAssumption, Element
  <2>2. 1 \in 1..Len(Program[t])
    BY <2>1
  <2>3. Len(Program[t][1]) \in Nat \ {0}
    BY <2>2, ProgramStep
  <2>4. 1 \in 1..Len(Program[t][1])
    BY <2>3
  <2> QED
    BY <2>2, <2>4 DEF GoodTask, TaskRecord, Stage
<1>4. TasksOK
  BY <1>3 DEF Init, TasksOK, GoodTask
<1> QED
  BY <1>1, <1>2, <1>4 DEF ArchiveInv, RegInv

LEMMA ArchiveStep == ArchiveInv /\ [Next]_vars => ArchiveInv'
<1> SUFFICES ASSUME ArchiveInv, [Next]_vars PROVE ArchiveInv'
  OBVIOUS
<1>1. CASE Boot
  <2>1. owned' \in BOOLEAN
    BY <1>1 DEF Boot, Owned
  <2>2. UNCHANGED <<counted, next, held, lost, pool, chain, task>>
    BY <1>1 DEF Boot
  <2>3. RegInv'
    BY <2>1, <2>2, RegStutters DEF ArchiveInv
  <2>4. TasksOK'
    BY <2>2 DEF ArchiveInv, TasksOK, GoodTask
  <2> QED
    BY <2>3, <2>4 DEF ArchiveInv
<1>2. CASE Crash
  BY <1>2, CrashKeeps
<1>3. CASE Block
  <2>1. RegInv'
    BY <1>3, MineKeeps DEF Block, ArchiveInv
  <2>2. TasksOK'
    BY <1>3 DEF Block, archiveVars, ArchiveInv, TasksOK, GoodTask
  <2> QED
    BY <2>1, <2>2 DEF ArchiveInv
<1>4. CASE Script
  BY <1>4, NothingChanges DEF Script, archiveVars
<1>5. CASE ArenaGenerates
  BY <1>5, NothingChanges DEF ArenaGenerates, Outside, archiveVars
<1>6. CASE \E t \in Tasks : Start(t) \/ TaskStep(t)
  BY <1>6, TaskStepKeeps
<1>7. CASE \E a \in Agents : AgentEnsure(a) \/ AgentDies(a)
  BY <1>7, NothingChanges DEF AgentEnsure, AgentDies, Outside, archiveVars
<1>8. CASE Done \/ UNCHANGED vars
  BY <1>8, NothingChanges DEF Done, vars, archiveVars
<1> QED
  BY <1>1, <1>2, <1>3, <1>4, <1>5, <1>6, <1>7, <1>8 DEF Next

\* Two transactions being sent never share a nonce, and every nonce a process
\* of the arena has taken is mined, pooled, held by a worker thread, or was lost
\* by a submission that failed, whatever is archived, paid, lost on the way, and
\* whenever the process dies (chain.py, 99-127; archive.py, 183-355).
THEOREM NoncesStayAccounted == Spec => []NoncesAccounted
<1>1. ArchiveInv => NoncesAccounted
  BY DEF ArchiveInv, RegInv
<1> QED
  BY ArchiveInit, ArchiveStep, <1>1, PTL DEF Spec

-----------------------------------------------------------------------------
\* Who generates a wallet is a user of it.
KeyInv ==
  /\ keyfile = [a \in Agents |-> keyfile[a]]
  /\ making = [p \in Process |-> making[p]]
  /\ \A p \in Process : making[p] # Idle => p \in Users(making[p].agent)

\* What one agent's keystore is promised of a step.
Settled(a) == IsFile(a) /\ Quiet(a) => Quiet(a)' /\ keyfile'[a] = keyfile[a]

LEMMA ArenaIsProcess == "arena" \in Process /\ \A a \in Agents : a \in Process
  BY DEF Process

LEMMA KeyStutters ==
  ASSUME KeyInv, UNCHANGED <<keyfile, making>>
  PROVE  KeyInv' /\ \A a \in Agents : Settled(a)
  BY DEF KeyInv, Settled, Quiet, Users, IsFile

LEMMA MakingChanges ==
  ASSUME KeyInv, NEW p \in Process, NEW x, making' = [making EXCEPT ![p] = x]
  PROVE  /\ making' = [q \in Process |-> making'[q]]
         /\ making'[p] = x
         /\ \A q \in Process \ {p} : making'[q] = making[q]
  BY DEF KeyInv

LEMMA GenerateKeeps ==
  ASSUME KeyInv, NEW p \in Process, NEW a, p \in Users(a), Generate(p, a)
  PROVE  KeyInv' /\ \A b \in Agents : Settled(b)
<1> DEFINE x == [stage |-> "encrypting", agent |-> a]
<1>1. making' = [making EXCEPT ![p] = x] /\ keyfile' = keyfile /\ ~IsFile(a)
  BY DEF Generate, MustGenerate
<1>2. x.agent = a
  OBVIOUS
<1> HIDE DEF x
<1>3. /\ making' = [q \in Process |-> making'[q]] /\ making'[p] = x
      /\ \A q \in Process \ {p} : making'[q] = making[q]
  BY <1>1, MakingChanges
<1>4. KeyInv'
  BY <1>1, <1>2, <1>3 DEF KeyInv, Users
<1>5. ASSUME NEW b \in Agents, IsFile(b), Quiet(b) PROVE Quiet(b)'
  <2>1. b # a
    BY <1>1, <1>5
  <2>2. ASSUME NEW q \in Users(b) PROVE making'[q] = Idle \/ making'[q].agent # b
    <3>1. q \in Process
      BY ArenaIsProcess DEF Users
    <3> QED
      BY <3>1, <1>2, <1>3, <1>5, <2>1 DEF Quiet
  <2> QED
    BY <2>2 DEF Quiet, Users
<1> QED
  BY <1>1, <1>4, <1>5 DEF Settled

\* Going on with a wallet, or having it, concerns the agent it is for.
LEMMA OneWalletChanges ==
  ASSUME KeyInv, NEW p \in Process, making[p] # Idle, NEW a, a = making[p].agent,
         NEW x, making' = [making EXCEPT ![p] = x], x # Idle => x.agent = a,
         NEW y, keyfile' = [keyfile EXCEPT ![a] = y]
  PROVE  KeyInv' /\ \A b \in Agents : Settled(b)
<1>1. p \in Users(a)
  BY DEF KeyInv
<1>2. /\ making' = [q \in Process |-> making'[q]] /\ making'[p] = x
      /\ \A q \in Process \ {p} : making'[q] = making[q]
  BY MakingChanges
<1>3. /\ keyfile' = [b \in Agents |-> keyfile'[b]]
      /\ \A b \in Agents : b # a => keyfile'[b] = keyfile[b]
  BY DEF KeyInv
<1>4. KeyInv'
  BY <1>1, <1>2, <1>3 DEF KeyInv, Users
<1>5. ASSUME NEW b \in Agents, Quiet(b) PROVE Quiet(b)' /\ keyfile'[b] = keyfile[b]
  <2>1. b # a
    BY <1>1, <1>5 DEF Quiet
  <2>2. ASSUME NEW q \in Users(b) PROVE making'[q] = Idle \/ making'[q].agent # b
    <3>1. q \in Process
      BY ArenaIsProcess DEF Users
    <3> QED
      BY <3>1, <1>2, <1>5, <2>1 DEF Quiet
  <2> QED
    BY <2>1, <2>2, <1>3 DEF Quiet, Users
<1> QED
  BY <1>4, <1>5 DEF Settled

LEMMA WriteKeeps ==
  ASSUME KeyInv, NEW p \in Process, GenerateStep(p)
  PROVE  KeyInv' /\ \A b \in Agents : Settled(b)
<1> DEFINE a == making[p].agent
<1>1. making[p].stage \in {"encrypting", "writing"}
  BY DEF GenerateStep, OpenKeyfile, WriteKeyfile
<1>2. making[p] # Idle
  BY <1>1 DEF Idle
<1>3. CASE OpenKeyfile(p)
  <2> DEFINE x == [making[p] EXCEPT !.stage = "writing"]
  <2>1. making' = [making EXCEPT ![p] = x] /\ keyfile' = [keyfile EXCEPT ![a] = "torn"]
    BY <1>3 DEF OpenKeyfile
  <2>2. x.agent = a
    OBVIOUS
  <2> HIDE DEF x
  <2> QED
    BY <1>2, <2>1, <2>2, OneWalletChanges
<1>4. CASE WriteKeyfile(p)
  <2>1. making' = [making EXCEPT ![p] = Idle] /\ keyfile' = [keyfile EXCEPT ![a] = p]
    BY <1>4 DEF WriteKeyfile
  <2> QED
    BY <1>2, <2>1, OneWalletChanges
<1> QED
  BY <1>3, <1>4 DEF GenerateStep

LEMMA KeystoreDieKeeps ==
  ASSUME KeyInv, NEW p \in Process, KeystoreDie(p)
  PROVE  KeyInv' /\ \A b \in Agents : Settled(b)
<1>1. making' = [making EXCEPT ![p] = Idle] /\ keyfile' = keyfile
  BY DEF KeystoreDie
<1>2. /\ making' = [q \in Process |-> making'[q]] /\ making'[p] = Idle
      /\ \A q \in Process \ {p} : making'[q] = making[q]
  BY <1>1, MakingChanges
<1>3. KeyInv'
  BY <1>1, <1>2 DEF KeyInv, Users
<1>4. ASSUME NEW b \in Agents, Quiet(b) PROVE Quiet(b)'
  <2>1. ASSUME NEW q \in Users(b) PROVE making'[q] = Idle \/ making'[q].agent # b
    <3>1. q \in Process
      BY ArenaIsProcess DEF Users
    <3> QED
      BY <3>1, <1>2, <1>4 DEF Quiet
  <2> QED
    BY <2>1 DEF Quiet, Users
<1> QED
  BY <1>1, <1>3, <1>4 DEF Settled

LEMMA KeyStep ==
  ASSUME KeyInv, [Next]_vars
  PROVE  KeyInv' /\ \A a \in Agents : Settled(a)
<1>1. CASE UNCHANGED keyVars
  BY <1>1, KeyStutters DEF keyVars
<1>2. CASE Boot \/ Block \/ Script \/ Done \/ UNCHANGED vars
  BY <1>1, <1>2 DEF Boot, Block, Script, Done, vars
<1>3. CASE Crash
  BY <1>3, KeystoreDieKeeps, ArenaIsProcess DEF Crash
<1>4. CASE ArenaGenerates
  BY <1>4, WriteKeeps, ArenaIsProcess DEF ArenaGenerates
<1>5. ASSUME NEW t \in Tasks, Start(t) \/ TaskStep(t)
      PROVE  KeyInv' /\ \A a \in Agents : Settled(a)
  <2>1. CASE TaskEnsure(t)
    <3>1. \/ UNCHANGED <<keyfile, making>>
          \/ Generate("arena", Step(t).name)
      BY <2>1 DEF TaskEnsure, keyVars, Unlock
    <3>2. "arena" \in Users(Step(t).name)
      BY DEF Users
    <3> QED
      BY <3>1, <3>2, KeyStutters, GenerateKeeps, ArenaIsProcess
  <2>2. CASE ~TaskEnsure(t)
    <3>1. UNCHANGED keyVars
      BY <1>5, <2>2 DEF Start, TaskStep, NotConfigured, TakeNonce, CannotSend, SendReturns,
                        SendRefused, Receipt, ConfirmationTimeout, PollRaises
    <3> QED
      BY <3>1, <1>1
  <2> QED
    BY <2>1, <2>2
<1>6. ASSUME NEW a \in Agents, AgentEnsure(a) \/ AgentDies(a)
      PROVE  KeyInv' /\ \A b \in Agents : Settled(b)
  <2>1. a \in Process /\ a \in Users(a)
    BY ArenaIsProcess DEF Users
  <2>2. \/ UNCHANGED <<keyfile, making>> \/ Generate(a, a) \/ GenerateStep(a) \/ KeystoreDie(a)
    BY <1>6 DEF AgentEnsure, AgentDies, Unlock
  <2> QED
    BY <2>1, <2>2, KeyStutters, GenerateKeeps, WriteKeeps, KeystoreDieKeeps
<1> QED
  BY <1>2, <1>3, <1>4, <1>5, <1>6 DEF Next

\* An agent's keystore that is there while nobody generates one stays as it is,
\* however many processes ask for the wallet and die (wallet.py, 55-71).
THEOREM KeystoreIsSettled == Spec => KeystoreSettles
<1>1. Init => KeyInv
  BY DEF Init, KeystoreInit, KeyInv, Idle
<1>2. KeyInv /\ [Next]_vars => KeyInv'
  BY KeyStep
<1>3. KeyInv /\ [Next]_vars =>
        [\A a \in Agents :
           IsFile(a) /\ Quiet(a) => Quiet(a)' /\ keyfile'[a] = keyfile[a]]_keyVars
  BY KeyStep DEF Settled
<1> QED
  BY <1>1, <1>2, <1>3, PTL DEF Spec, KeystoreSettles
=============================================================================
