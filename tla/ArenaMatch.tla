----------------------------- MODULE ArenaMatch -----------------------------
(***************************************************************************)
(* The life of a match: start_match, the three callers of shutdown_match   *)
(* (the abort path, the duration timer, the lifespan of the server) and    *)
(* the settlement that ends it.                                            *)
(***************************************************************************)
EXTENDS ArenaState

-----------------------------------------------------------------------------
\* match.json.  The status is left out: it is "finished" in every snapshot.
Snapshot == [scores |-> boards, payouts |-> Recorded]

Persist == disk' = Snapshot \/ (DiskMayFail /\ UNCHANGED disk)

Points(c, bounty) ==
  IF bounty = "wounds" THEN boards[c].wounds_inflicted ELSE boards[c].patches_applied

\* Mutant: the patch bounty is computed from the wounds.
PayoutTasks_WrongBoard(by) ==
  {t \in [by : {by}, agent : Combatants, bounty : Bounty,
          units : {Points(c, "wounds") : c \in Combatants}, stage : {"pending"}] :
     t.units = Points(t.agent, "wounds") /\ t.units > 0}

\* One task per combatant and kind of bounty that has points.
PayoutTasks(by) ==
  {t \in [by : {by}, agent : Combatants, bounty : Bounty,
          units : {Points(c, b) : c \in Combatants, b \in Bounty}, stage : {"pending"}] :
     t.units = Points(t.agent, t.bounty) /\ t.units > 0}

\* _settle_payouts up to its gather; with nothing to pay, the rest of
\* shutdown_match follows at once.
Settle(by) ==
  /\ payments' = payments \cup PayoutTasks(by)
  /\ \/ /\ PayoutTasks(by) = {}
        /\ shut' = [shut EXCEPT ![by] = "done"]
        /\ Persist
     \/ /\ PayoutTasks(by) # {}
        /\ shut' = [shut EXCEPT ![by] = "settling"]
        /\ UNCHANGED disk

\* What still runs after every registered subprocess was terminated.
Survivors == live \ registered

\* shutdown_match up to its first suspension.  Without an archive it runs to
\* its end, with an unconfigured chain close_match returns at once.
Shutdown(by, lifecycle) ==
  /\ live' = Survivors
  /\ status' = "finished"
  /\ history' = history \o lifecycle \o <<"finished">>
  /\ \/ /\ ~archive
        /\ shut' = [shut EXCEPT ![by] = "done"]
        /\ Persist
        /\ UNCHANGED payments
     \/ archive /\ ~ChainAvailable /\ Settle(by)
     \/ /\ archive /\ ChainAvailable
        /\ shut' = [shut EXCEPT ![by] = "closing"]
        /\ UNCHANGED <<payments, disk>>
  /\ UNCHANGED <<registered, scoreVars, claim, fileVars, patch>>

-----------------------------------------------------------------------------
\* start_match up to the first health poll.
StartMatch ==
  /\ start = "idle" /\ server = "up"
  /\ start' = "targets"
  /\ status' = "opening"
  /\ history' = Append(history, "opening")
  /\ live' = live \cup {Target(Chosen[1])}
  /\ UNCHANGED <<server, targetsUp, timer, registered, scoreVars, claim,
                 settleVars, fileVars, patch>>

FirstTargetHealthy ==
  /\ start = "targets" /\ targetsUp = 0 /\ Answers(Chosen[1])
  /\ targetsUp' = 1
  /\ live' = live \cup {Target(Chosen[2])}
  /\ UNCHANGED <<server, start, status, history, timer, registered, scoreVars, claim,
                 settleVars, fileVars, patch>>

\* Both targets answer: their handles are registered and the nodes are spawned,
\* unless the node binary cannot be built.
SecondTargetHealthy ==
  /\ start = "targets" /\ targetsUp = 1 /\ Answers(Chosen[2])
  /\ targetsUp' = 2
  /\ registered' = registered \cup {Target(c) : c \in Combatants}
  /\ \/ start' = "nodes" /\ live' = live \cup {Mesh}
     \/ start' = "failed" /\ UNCHANGED live
  /\ UNCHANGED <<server, status, history, timer, scoreVars, claim, settleVars,
                 fileVars, patch>>

\* The exception of a target that never answered leaves start_match.
TargetNeverHealthy ==
  /\ start = "targets"
  /\ start' = "failed"
  /\ UNCHANGED <<server, targetsUp, status, history, timer, procVars, scoreVars, claim,
                 settleVars, fileVars, patch>>

\* Every node is reachable: the rest of start_match does not suspend.
NodesReady ==
  /\ start = "nodes"
  /\ start' = "done"
  /\ archive' \in {archive, TRUE}
  /\ live' = live \cup {Agents}
  /\ registered' = registered \cup {Mesh, Agents}
  /\ status' = "running"
  /\ history' = Append(history, "started")
  /\ timer' = "set"
  /\ UNCHANGED <<server, targetsUp, boards, announced, counters, claim, settleVars,
                 fileVars, patch>>

\* Mutant: the exception is swallowed, start_match goes on after the abort.
NodesFailed_GoesOn ==
  /\ start = "nodes"
  /\ Shutdown("abort", <<"aborted">>)
  /\ UNCHANGED <<server, start, targetsUp, timer>>

\* A node exits or never answers: MATCH_ABORTED, then shutdown_match.
NodesFailed ==
  /\ start = "nodes"
  /\ start' = "failed"
  /\ Shutdown("abort", <<"aborted">>)
  /\ UNCHANGED <<server, targetsUp, timer>>

\* Mutant: the timer compares with a status that does not exist.
StillRunning_Misspelt == status = "started"

StillRunning == status = "running"

\* _auto_finish wakes up.
AutoFinish ==
  /\ timer = "set" /\ server # "down"
  /\ timer' = "fired"
  /\ \/ StillRunning /\ Shutdown("auto", <<>>)
     \/ /\ ~StillRunning
        /\ UNCHANGED <<status, history, procVars, scoreVars, claim, settleVars,
                       fileVars, patch>>
  /\ UNCHANGED <<server, start, targetsUp>>

\* SIGTERM: uvicorn takes no more requests.
StopServer ==
  /\ server = "up"
  /\ server' = "stopping"
  /\ UNCHANGED <<start, targetsUp, status, history, timer, procVars, scoreVars, claim,
                 settleVars, fileVars, patch>>

\* The end of lifespan, once the requests in flight have been answered.
LifespanShutdown ==
  /\ server = "stopping" /\ ~RequestInFlight
  /\ status # "absent" /\ shut["lifespan"] = "idle"
  /\ Shutdown("lifespan", <<>>)
  /\ UNCHANGED <<server, start, targetsUp, timer>>

-----------------------------------------------------------------------------
\* close_match is through, whatever became of its transaction.
CloseReturns(by) ==
  /\ shut[by] = "closing"
  /\ Settle(by)
  /\ UNCHANGED <<lifeVars, procVars, scoreVars, claim, fileVars, patch>>

\* An RPC error while waiting for the receipt leaves shutdown_match.
CloseRaises(by) ==
  /\ shut[by] = "closing"
  /\ shut' = [shut EXCEPT ![by] = "raised"]
  /\ UNCHANGED <<lifeVars, procVars, scoreVars, claim, payments, disk, fileVars, patch>>

MovePayment(t, stage) ==
  /\ payments' = (payments \ {t}) \cup {[t EXCEPT !.stage = stage]}
  /\ UNCHANGED <<lifeVars, procVars, scoreVars, claim, shut, disk, fileVars, patch>>

\* The name does not resolve, or send_eth raises before the chain took it.
PaymentFails(t) == t.stage = "pending" /\ MovePayment(t, "failed")

\* The chain accepts the transaction, in a worker thread.
PaymentSent(t) == t.stage = "pending" /\ ChainAvailable /\ MovePayment(t, "sent")

\* send_eth returns: the record joins state.payouts.
PaymentRecorded(t) == t.stage = "sent" /\ MovePayment(t, "recorded")

\* The answer of the RPC node is lost: PAYOUT_FAILED for a payment that was made.
PaymentLost(t) == t.stage = "sent" /\ MovePayment(t, "lost")

Unsettled(by) == {t \in payments : t.by = by /\ t.stage \in {"pending", "sent"}}

\* Mutant: the gather does not wait for the answers of the chain.
Gathered_TooEarly(by) == \A t \in Unsettled(by) : t.stage = "sent"

\* Mutant: the gather waits until every payment is on record.
Gathered_AllRecorded(by) == \A t \in payments : t.by = by => t.stage = "recorded"

\* gather returns.
Gathered(by) == Unsettled(by) = {}

SettlementDone(by) ==
  /\ shut[by] = "settling" /\ Gathered(by)
  /\ shut' = [shut EXCEPT ![by] = "done"]
  /\ Persist
  /\ UNCHANGED <<lifeVars, procVars, scoreVars, claim, payments, fileVars, patch>>

\* The loop ends after the lifespan: asyncio.run cancels the shutdown of the
\* timer, but a transaction that a worker thread holds may still go out.
Exit ==
  /\ server = "stopping" /\ ~RequestInFlight
  /\ status = "absent" \/ shut["lifespan"] \in {"done", "raised"}
  /\ server' = "down"
  /\ shut' = [by \in Closer |->
                IF shut[by] \in {"closing", "settling"} THEN "cancelled" ELSE shut[by]]
  /\ \E late \in SUBSET {t \in payments : t.stage = "pending" /\ ChainAvailable} :
       payments' = {CASE t.stage = "sent" \/ t \in late -> [t EXCEPT !.stage = "lost"]
                      [] t.stage = "pending" /\ t \notin late -> [t EXCEPT !.stage = "failed"]
                      [] OTHER -> t : t \in payments}
  /\ UNCHANGED <<start, targetsUp, status, history, timer, procVars, scoreVars, claim,
                 disk, fileVars, patch>>

\* A target exits on its own: it crashes, or its port is taken.
TargetExits(t) ==
  /\ t.of \in Combatants
  /\ live' = live \ {t}
  /\ UNCHANGED <<lifeVars, registered, scoreVars, claim, settleVars, fileVars, patch>>

MatchNext ==
  \/ StartMatch \/ FirstTargetHealthy \/ SecondTargetHealthy \/ TargetNeverHealthy
  \/ NodesReady \/ NodesFailed \/ AutoFinish \/ StopServer \/ LifespanShutdown \/ Exit
  \/ \E by \in Closer : CloseReturns(by) \/ CloseRaises(by) \/ SettlementDone(by)
  \/ \E t \in payments :
       PaymentFails(t) \/ PaymentSent(t) \/ PaymentRecorded(t) \/ PaymentLost(t)
  \/ \E t \in live : TargetExits(t)
=============================================================================
