-------------------------------- MODULE Arena --------------------------------
(***************************************************************************)
(* One match in the arena process: its lifecycle and settlement, the       *)
(* verification of claims and the patches, interleaved as the event loop   *)
(* interleaves their handlers; and what must be true of them together.     *)
(***************************************************************************)
EXTENDS ArenaMatch, ArenaVerify, ArenaPatch

Next == MatchNext \/ VerifyNext \/ PatchNext

\* Every wait of the arena is bounded: health polls, node polls, replays and
\* smoke tests by a timeout of their own, chain calls by the timeouts of the
\* HTTP provider and of the confirmation.  uvicorn goes through its shutdown.
\* Requests and signals need not arrive, targets need not exit.
Fairness ==
  /\ WF_vars(FirstTargetHealthy \/ SecondTargetHealthy \/ TargetNeverHealthy)
  /\ WF_vars(NodesReady \/ NodesFailed)
  /\ WF_vars(AutoFinish)
  /\ WF_vars(LifespanShutdown)
  /\ WF_vars(Exit)
  /\ \A by \in Closer :
       /\ WF_vars(CloseReturns(by) \/ CloseRaises(by))
       /\ WF_vars(SettlementDone(by))
  /\ WF_vars(\E t \in payments : PaymentFails(t) \/ PaymentSent(t))
  /\ WF_vars(\E t \in payments : PaymentRecorded(t) \/ PaymentLost(t))
  /\ \A k \in Claims :
       /\ WF_vars(\E hit \in BOOLEAN, d \in Difficulties : ReplayDone(k, hit, d))
       /\ WF_vars(ArchiveReturns(k) \/ ArchiveRaises(k))
  /\ \A p \in Patches :
       /\ WF_vars(RestartHealthy(p) \/ RestartTimesOut(p))
       /\ WF_vars((\E d \in Difficulties : SmokeOk(p, d)) \/ SmokeBad(p))
       /\ WF_vars(RevertHealthy(p) \/ RevertTimesOut(p))

Spec == Init /\ [][Next]_vars /\ Fairness

-----------------------------------------------------------------------------
Module == Seq(Patches)

LifeType ==
  /\ server \in {"up", "stopping", "down"}
  /\ start \in StartStage
  /\ targetsUp \in 0 .. 2
  /\ status \in MatchStatus
  /\ history \in Seq(LifecycleEvent)
  /\ timer \in {"none", "set", "fired"}

ProcType == live \subseteq Process /\ registered \subseteq Process

ScoreType ==
  /\ boards \in [Combatants -> Scoreboard]
  /\ announced \in [Combatants -> Scoreboard]
  /\ counters \in [ClaimKind -> Nat]
  /\ archive \in BOOLEAN

SettleType ==
  /\ shut \in [Closer -> ShutStage]
  /\ payments \subseteq Payment
  /\ disk.payouts \subseteq Payment

FileType ==
  /\ file \in [Combatants -> Module]
  /\ backup \in [Combatants -> Module \cup {NoFile}]
  /\ overlapped \subseteq Combatants

\* Type correctness; the counters of the scoreboards never go below zero.
TypeOK ==
  /\ LifeType /\ ProcType /\ ScoreType /\ SettleType /\ FileType
  /\ claim \in [Claims -> ClaimState]
  /\ patch \in [Patches -> PatchState]

\* A match is announced in order: opening first, started at most once and never
\* after it was aborted or finished, whichever of the three callers of
\* shutdown_match came first.
LifecycleOrder ==
  \A i \in 1 .. Len(history) :
    /\ history[i] = "opening" <=> i = 1
    /\ history[i] = "started" => i = 2
    /\ history[i] = "aborted" => i = 2

\* When a shutdown_match call has run to its end, match.json holds every payment
\* that its settlement recorded (unless the disk refused the write), and keeps
\* holding it when another call settles again.
SnapshotCoversOwnPayouts ==
  \A by \in Closer :
    shut[by] = "done" /\ ~DiskMayFail =>
      {t \in Recorded : t.by = by} \subseteq disk.payouts

\* No settlement pays a combatant for points it does not have, or pays the same
\* bounty twice: claims and patches that score during the settlement cannot
\* shift what is being paid.
PaidForPoints ==
  /\ \A t \in payments : 0 < t.units /\ t.units <= Points(t.agent, t.bounty)
  /\ \A t, u \in payments :
       t.by = u.by /\ t.agent = u.agent /\ t.bounty = u.bounty => t = u

\* Two claims never get the same archive name, however their replays and their
\* chain writes overlap: the second write would overwrite the first event.
EventNamesUnique ==
  \A j, k \in Claims :
    claim[j].name = claim[k].name /\ claim[j].name # NoName => j = k

\* Spectators see the current scores, unless a handler that has scored is still
\* to publish, failed before it could, or took the broke-service path.
ScoresAnnounced ==
  \/ announced = boards
  \/ \E k \in Claims : claim[k].stage \in {"archive", "raised"}
  \/ \E p \in Patches : patch[p].stage = "broke"

\* What one combatant inflicted is what the other one took.
MirroredWounds ==
  \A c \in Combatants :
    boards[c].wounds_inflicted = boards[Opponent(c)].wounds_taken

\* A subprocess that no handle knows is one whose start is under way or ended
\* in a failure; as long as an agent patches one at a time nothing else is left
\* unsupervised.
OrphansAccounted ==
  \A t \in live \ registered :
    \/ t.of \in overlapped
    \/ t.by = "start" /\ start \in {"targets", "nodes", "failed"}
    \/ /\ t.by \in Patches
       /\ patch[t.by].stage \in IF t.again THEN {"reverting", "wedged"}
                                           ELSE {"restarting", "timedout"}

InFile(p) == \E i \in 1 .. Len(file[patch[p].of]) : file[patch[p].of][i] = p

\* The module of an agent holds exactly the patches that were accepted, are
\* being tried, or were abandoned when the restart timed out: one at a time, a
\* revert finds its backup and takes back its own patch and no other.
FileMatchesVerdicts ==
  \A p \in Patches :
    \/ patch[p].stage = "new"
    \/ patch[p].of \in overlapped
    \/ /\ patch[p].stage # "lost"
       /\ InFile(p) <=> patch[p].stage \in {"restarting", "smoke", "applied", "timedout"}

\* Points are only ever added; a settlement or a second shutdown takes none away.
ScoresOnlyGrow ==
  [][\A c \in Combatants :
       /\ boards'[c].wounds_inflicted >= boards[c].wounds_inflicted
       /\ boards'[c].patches_applied >= boards[c].patches_applied
       /\ IsPrefix(boards[c].breakdown, boards'[c].breakdown)]_vars

\* A running match ends, by its timer or with the server.
RunningFinishes == status = "running" ~> status = "finished"

\* After a SIGTERM the process ends: the requests in flight are answered and the
\* shutdown of the lifespan, settlement included, comes to an end.
ServerStops == server = "stopping" ~> server = "down"

\* Every claim gets its answer, whatever becomes of the target it is replayed on.
ClaimsAnswered ==
  \A k \in Claims :
    claim[k].stage \in {"replay", "archive"} ~> claim[k].stage \in {"done", "raised"}

\* Every patch gets its answer, also when calls for one agent overlap and take
\* each other's backup and process away.
PatchesAnswered ==
  \A p \in Patches :
    patch[p].stage \in InFlight ~> patch[p].stage \notin InFlight

\* A settlement that has begun ends or is cancelled with the process.
SettlementEnds ==
  \A by \in Closer :
    shut[by] \in {"closing", "settling"} ~> shut[by] \in {"done", "raised", "cancelled"}
=============================================================================
