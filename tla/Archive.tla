------------------------------- MODULE Archive -------------------------------
(***************************************************************************)
(* The ENS archive of the arena (hostile_mesh_ens/archive.py, resolver.py, *)
(* subnames.py, and the callers in services/arena/manager.py): every       *)
(* operation is a few transactions, each sent and awaited in turn, and     *)
(* ends with a status.  Tasks run operations one after the other: the      *)
(* background task of start_match, the archive write of a claim, the       *)
(* payouts.  The tasks share the registrar's account (Registrar), the      *)
(* keystore with the agents' processes (Keystore), and the configuration   *)
(* the bootstrap script wrote (RegisterParent).                            *)
(***************************************************************************)
EXTENDS Registrar, Keystore, RegisterParent

CONSTANTS
  Program,      \* the operations of each task, in order
  MaxCrashes    \* bound: how often the arena's process dies

ASSUME ArchiveAssumption == MaxCrashes \in Nat /\ Agents \subseteq Names

OperationStep == [kind : {"mint", "set", "pay", "ensure"}, name : Names, strict : BOOLEAN]
Operation == Seq(OperationStep)

\* An operation has a step and ends with a write or a payment; a wallet is
\* ensured for an agent, before its registration.
Proper(op) ==
  /\ Len(op) > 0 /\ op[Len(op)].kind # "ensure"
  /\ \A i \in 1..Len(op) : op[i].kind = "ensure" => op[i].name \in Agents

\* Every task has an operation.
ASSUME ProgramAssumption ==
  /\ Program \in [Tasks -> Seq(Operation)]
  /\ \A t \in Tasks :
       /\ Len(Program[t]) > 0
       /\ \A i \in 1..Len(Program[t]) : Proper(Program[t][i])

VARIABLES
  arena,        \* the arena's process: "down" or "up"
  crashes,
  task,         \* where each task is
  results       \* history: the status of each operation of a task, in order

archiveVars == <<arena, crashes, task, results>>
vars == <<regVars, keyVars, scriptVars, archiveVars>>

-----------------------------------------------------------------------------
\* Steps and operations.  A strict step that fails ends its operation.
Mint(x)   == [kind |-> "mint", name |-> x, strict |-> TRUE]
TryMint(x) == [kind |-> "mint", name |-> x, strict |-> FALSE]
Set(x)    == [kind |-> "set", name |-> x, strict |-> TRUE]
Ensure(a) == [kind |-> "ensure", name |-> a, strict |-> TRUE]
Pay(a)    == [kind |-> "pay", name |-> a, strict |-> TRUE]

OpenMatch(m)      == <<Mint(m), Set(m)>>
CloseMatch(m)     == <<Set(m)>>
RecordEvent(e)    == <<Mint(e), Set(e)>>
GrantSpectator(s) == <<Mint(s), Set(s)>>
RotateEndpoint(a) == <<Set(a)>>

\* The agent id "historian.chorus" mints chorus first, then the leaf.
RegisterAgent(a) ==
  IF Parent[a] = Root THEN <<Ensure(a), Mint(a), Set(a)>>
                      ELSE <<Ensure(a), Mint(Parent[a]), Mint(a), Set(a)>>

\* The results of the subnames are ignored.
ChorusComment(x) ==
  <<TryMint(Parent[Parent[x]]), TryMint(Parent[x]), TryMint(x), Set(x)>>

\* The background task of start_match, and the script register_ens.py.
WriteMatchOpen(m, agents) ==
  <<OpenMatch(m)>> \o [i \in 1..Len(agents) |-> RegisterAgent(agents[i])]

\* _settle_payouts, one task per agent and bounty.
Payout(a) == <<Pay(a)>>

Status == {"submitted", "confirmed", "failed", "not_configured", "sent"}
Stage  == {"new", "ready", "sending", "waiting", "over", "raised"}

Op(t)   == Program[t][task[t].op]
Step(t) == Op(t)[task[t].step]
StepTx(t) == [kind |-> Step(t).kind, name |-> Step(t).name, by |-> t]
Configured == env.key # MissingKey

\* The arena's loop is busy while a keystore is encrypted.
LoopFree == making["arena"] = Idle

Go(t, to) == task' = [task EXCEPT ![t] = to]
At(t, s) == arena = "up" /\ LoopFree /\ task[t].stage = s

\* The operation is over with this status; the task goes on with its next one.
Report(t, status) ==
  /\ results' = [results EXCEPT ![t] = Append(@, status)]
  /\ Go(t, [task[t] EXCEPT !.stage = IF task[t].op = Len(Program[t]) THEN "over" ELSE "ready",
                           !.op = IF @ = Len(Program[t]) THEN @ ELSE @ + 1,
                           !.step = 1])

\* A step has worked out, or its result does not matter: on to the next one.
\* After the last, the result of that step is the result of the operation.
StepDone(t, status) ==
  IF task[t].step = Len(Op(t))
    THEN Report(t, status)
    ELSE /\ Go(t, [task[t] EXCEPT !.stage = "ready", !.step = @ + 1])
         /\ UNCHANGED results

StepFailed(t) ==
  IF Step(t).strict THEN Report(t, "failed") ELSE StepDone(t, "failed")

-----------------------------------------------------------------------------
\* ensure_chain reads the configuration once, when the arena first needs it.
Boot ==
  /\ arena = "down" /\ stage \in Over /\ crashes <= MaxCrashes
  /\ arena' = "up" /\ owned' = Owned
  /\ UNCHANGED <<counted, next, held, lost, pool, chain, keyVars, scriptVars,
                 crashes, task, results>>

Start(t) ==
  /\ At(t, "new")
  /\ Go(t, [task[t] EXCEPT !.stage = "ready"])
  /\ UNCHANGED <<regVars, keyVars, scriptVars, arena, crashes, results>>

\* No registrar key: every operation answers at once.
NotConfigured(t) ==
  /\ At(t, "ready") /\ ~Configured
  /\ Report(t, "not_configured")
  /\ UNCHANGED <<regVars, keyVars, scriptVars, arena, crashes>>

Ready(t, kinds) == At(t, "ready") /\ Configured /\ Step(t).kind \in kinds

\* register_agent: the wallet, from the cache, the keystore, or a new one.
TaskEnsure(t) ==
  LET a == Step(t).name IN
  /\ Ready(t, {"ensure"})
  /\ \/ /\ wallet["arena"][a] # "none"
        /\ StepDone(t, "confirmed")
        /\ UNCHANGED keyVars
     \/ /\ wallet["arena"][a] = "none" /\ Unlock("arena", a)
        /\ StepDone(t, "confirmed")
     \/ /\ Generate("arena", a) /\ UNCHANGED <<task, results>>
     \/ /\ wallet["arena"][a] = "none" /\ Unreadable(a)
        /\ Go(t, [task[t] EXCEPT !.stage = "raised"])
        /\ UNCHANGED <<results, keyVars>>
  /\ UNCHANGED <<regVars, scriptVars, arena, crashes>>

\* The address on record: the arena's register_agent has put it there.
Resolves(a) == \E i \in 1..Len(chain) :
                 chain[i].ok /\ chain[i].tx.kind = "set" /\ chain[i].tx.name = a

\* A worker takes a nonce for the next transaction.
TakeNonce(t) ==
  /\ Ready(t, {"mint", "set", "pay"})
  /\ Step(t).kind = "pay" => Resolves(Step(t).name)
  /\ \E n \in Nonce : Allocate(t, n)
  /\ Go(t, [task[t] EXCEPT !.stage = "sending"])
  /\ UNCHANGED <<keyVars, scriptVars, arena, crashes, results>>

\* The transaction cannot be built, or a payout has no address to go to.
CannotSend(t) ==
  /\ Ready(t, {"mint", "set", "pay"})
  /\ BuildFails(t) /\ StepFailed(t)
  /\ UNCHANGED <<keyVars, scriptVars, arena, crashes>>

\* The node takes the transaction: its hash comes back, or the answer is lost.
SendReturns(t) ==
  /\ At(t, "sending")
  /\ Submitted(t, StepTx(t))
  /\ \/ /\ Step(t).kind = "pay" /\ StepDone(t, "sent")
     \/ /\ Step(t).kind # "pay"
        /\ Go(t, [task[t] EXCEPT !.stage = "waiting", !.nonce = held[t]])
        /\ UNCHANGED results
     \/ StepFailed(t)
  /\ UNCHANGED <<keyVars, scriptVars, arena, crashes>>

SendRefused(t) ==
  /\ At(t, "sending")
  /\ Refused(t) /\ StepFailed(t)
  /\ UNCHANGED <<keyVars, scriptVars, arena, crashes>>

\* request_timeout bounds every call to the node.
SendEnds(t) == SendReturns(t) \/ SendRefused(t)

\* Mutant: any receipt is a confirmation.
ReceiptStatus_Any(receipt) == "confirmed"

\* Mutant: a status that the events of the arena do not know.
ReceiptStatus_Raw(receipt) == IF receipt.ok THEN "confirmed" ELSE "reverted"

ReceiptStatus(receipt) == IF receipt.ok THEN "confirmed" ELSE "failed"

\* The receipt of the transaction, unless another one took its nonce.
HasReceipt(t) ==
  task[t].nonce < Len(chain) /\ chain[task[t].nonce + 1].tx = StepTx(t)

Receipt(t) ==
  /\ At(t, "waiting") /\ HasReceipt(t)
  /\ LET status == ReceiptStatus(chain[task[t].nonce + 1]) IN
     IF status = "failed" THEN StepFailed(t) ELSE StepDone(t, status)
  /\ UNCHANGED <<regVars, keyVars, scriptVars, arena, crashes>>

\* No receipt in time (or not seen in time): the write stays "submitted".
ConfirmationTimeout(t) ==
  /\ At(t, "waiting") /\ StepDone(t, "submitted")
  /\ UNCHANGED <<regVars, keyVars, scriptVars, arena, crashes>>

\* The node fails while it is polled for the receipt: the exception leaves the
\* operation, and the task with it.
PollRaises(t) ==
  /\ At(t, "waiting")
  /\ Go(t, [task[t] EXCEPT !.stage = "raised"])
  /\ UNCHANGED <<regVars, keyVars, scriptVars, arena, crashes, results>>

Crash ==
  /\ arena = "up" /\ crashes < MaxCrashes
  /\ arena' = "down" /\ crashes' = crashes + 1
  /\ task' = [t \in Tasks |-> IF task[t].stage \in {"ready", "sending", "waiting"}
                                THEN [task[t] EXCEPT !.stage = "raised"] ELSE task[t]]
  /\ Die /\ KeystoreDie("arena")
  /\ UNCHANGED <<scriptVars, results>>

-----------------------------------------------------------------------------
Outside == <<regVars, scriptVars, archiveVars>>

\* The process of an agent (combatant/main.py) unlocks or makes its wallet, and
\* is terminated with the match.
AgentEnsure(a) ==
  /\ \/ wallet[a][a] = "none" /\ Unlock(a, a)
     \/ Generate(a, a)
     \/ GenerateStep(a)
  /\ UNCHANGED Outside

AgentDies(a) == KeystoreDie(a) /\ UNCHANGED Outside

ArenaGenerates == arena = "up" /\ GenerateStep("arena") /\ UNCHANGED Outside

\* The bootstrap script runs before the arena's first start.
Script ==
  /\ arena = "down" /\ crashes = 0 /\ ScriptNext
  /\ UNCHANGED <<regVars, keyVars, archiveVars>>

Block == Mine /\ UNCHANGED <<keyVars, scriptVars, archiveVars>>

Init ==
  /\ RegInit /\ owned = FALSE
  /\ KeystoreInit /\ ScriptInit
  /\ arena = "down" /\ crashes = 0
  /\ task = [t \in Tasks |-> [stage |-> "new", op |-> 1, step |-> 1, nonce |-> None]]
  /\ results = [t \in Tasks |-> <<>>]

TaskStep(t) ==
  \/ NotConfigured(t) \/ TaskEnsure(t) \/ TakeNonce(t) \/ CannotSend(t)
  \/ SendReturns(t) \/ SendRefused(t)
  \/ Receipt(t) \/ ConfirmationTimeout(t) \/ PollRaises(t)

Done ==
  /\ stage \in Over /\ arena = "up"
  /\ \A t \in Tasks : task[t].stage \in {"over", "raised"}
  /\ UNCHANGED vars

Next ==
  \/ Boot \/ Crash \/ Block \/ Script \/ ArenaGenerates
  \/ \E t \in Tasks : Start(t) \/ TaskStep(t)
  \/ \E a \in Agents : AgentEnsure(a) \/ AgentDies(a)
  \/ Done

\* The node mines what it can, a call to the node ends by its answer or by
\* request_timeout, a generated wallet gets written.
Fairness ==
  /\ WF_vars(Block) /\ WF_vars(ArenaGenerates) /\ WF_vars(Boot)
  /\ \A t \in Tasks : WF_vars(SendEnds(t))

Spec == Init /\ [][Next]_vars /\ Fairness

-----------------------------------------------------------------------------
TypeOK ==
  /\ RegTypeOK /\ KeystoreTypeOK /\ ScriptTypeOK
  /\ arena \in {"down", "up"} /\ crashes \in 0..MaxCrashes
  /\ \A t \in Tasks :
       /\ task[t].stage \in Stage /\ task[t].nonce \in Nonce \cup {None}
       /\ task[t].op \in 1..Len(Program[t]) /\ task[t].step \in 1..Len(Op(t))
       /\ results[t] \in Seq(Status)

\* The transaction of this step is on the chain, and worked.
Written(t, step) ==
  \E i \in 1..Len(chain) :
    /\ chain[i].ok
    /\ chain[i].tx = [kind |-> step.kind, name |-> step.name, by |-> t]

\* An operation reported confirmed has its records on the chain under a name
\* that exists, even when the subname was only reported as submitted; and one
\* that reverted is never reported otherwise (archive.py, 52-58 and 323-355).
ConfirmedIsWritten ==
  \A t \in Tasks : \A i \in 1..Len(results[t]) :
    LET last == Program[t][i][Len(Program[t][i])]
    IN results[t][i] = "confirmed" => Written(t, last) /\ Minted(last.name)

\* While the configuration is sound the parent name is the registrar's: a
\* subname of it reverts only if a bootstrap run was cut between its two writes
\* of .env (register_sepolia_parent.py, 301-306, with --reuse or without).
ParentIsOwned ==
  \A i \in 1..Len(chain) :
    LET tx == chain[i].tx IN
    ~chain[i].ok /\ tx.kind = "mint" /\ Parent[tx.name] = Root => cut

\* A pooled transaction gets mined, unless a nonce below it was lost by a failed
\* submission or, after a restart, was not handed out again (chain.py, 99-127).
PoolDrains ==
  \A n \in Nonce :
    pool[n] # NoTx
      ~> \/ pool[n] = NoTx
         \/ \E m \in Len(chain)..(n - 1) :
              pool[m] = NoTx /\ (m \in lost \/ ~counted \/ m >= next)
=============================================================================
