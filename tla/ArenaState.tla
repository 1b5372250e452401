----------------------------- MODULE ArenaState -----------------------------
(***************************************************************************)
(* The state of the arena process around one match                         *)
(* (services/arena/manager.py), shared by the modules that describe its    *)
(* handlers: ArenaMatch (start_match, shutdown_match, settlement),         *)
(* ArenaVerify (verify_exploit) and ArenaPatch (apply_patch).              *)
(*                                                                         *)
(* The arena is one asyncio loop: a handler runs from one real suspension  *)
(* to the next (an HTTP call, a sleep, a chain call) as a single step, and *)
(* any number of handlers are suspended at the same time.                  *)
(***************************************************************************)
EXTENDS Scoring, FiniteSets

CONSTANTS
  Chosen,           \* the two combatants of the match, in launch order
  Claims,           \* calls of verify_exploit
  Patches,          \* calls of apply_patch
  Difficulties,     \* difficulties of the seeded bugs
  ChainAvailable,   \* RPC, parent name and registrar key are configured
  DiskMayFail       \* writing match.json may fail (logged, otherwise ignored)

Combatants == {Chosen[1], Chosen[2]}

\* start_match refuses anything but two distinct combatants.
ASSUME ArenaAssumption ==
  /\ Chosen[1] # Chosen[2]
  /\ {"agents", "mesh"} \cap Combatants = {}
  /\ {"start", "no file"} \cap Patches = {}
  /\ Difficulties \subseteq Difficulty
  /\ {ChainAvailable, DiskMayFail} \subseteq BOOLEAN

VARIABLES
  server,       \* the uvicorn server: "up", "stopping" or "down"
  start,        \* where start_match is
  targetsUp,    \* how many targets start_match has seen healthy
  status,       \* MatchState.status
  history,      \* the lifecycle events published for the match
  timer,        \* the task of _auto_finish
  live,         \* the subprocesses that run
  registered,   \* the ones _target_handles, _agent_handles, _supervisors hold
  boards,       \* MatchState.scores
  announced,    \* the scores of the last combat.score_updated
  claim,        \* the calls of verify_exploit
  counters,     \* MatchState.counters
  archive,      \* self._archive is not None
  shut,         \* the calls of shutdown_match, by caller
  payments,     \* the payout tasks of all settlements
  disk,         \* .match-state/<match>/match.json
  file,         \* per combatant, the patches applied to its module, in order
  backup,       \* the same for its .bak file, or NoFile
  overlapped,   \* history: the combatants that had two patch calls in flight
  patch         \* the calls of apply_patch

lifeVars   == <<server, start, targetsUp, status, history, timer>>
procVars   == <<live, registered>>
scoreVars  == <<boards, announced, counters, archive>>
settleVars == <<shut, payments, disk>>
fileVars   == <<file, backup, overlapped>>
vars == <<lifeVars, procVars, scoreVars, claim, settleVars, fileVars, patch>>

-----------------------------------------------------------------------------
\* Subprocesses.  A target is named by its combatant and by the call that
\* spawned it; apply_patch may spawn a second one, after a revert.  The seven
\* agents and the AXL nodes are one process each.
Process == [of : Combatants \cup {"agents", "mesh"},
            by : Patches \cup {"start"}, again : BOOLEAN]

Target(c)          == [of |-> c, by |-> "start", again |-> FALSE]
PatchedTarget(c, p)  == [of |-> c, by |-> p, again |-> FALSE]
RevertedTarget(c, p) == [of |-> c, by |-> p, again |-> TRUE]
Agents == Target("agents")
Mesh   == Target("mesh")

\* GET /health is answered on the port of c.
Answers(c) == \E t \in live : t.of = c

StartStage == {"idle", "targets", "nodes", "done", "failed"}
MatchStatus == {"absent", "opening", "running", "finished", "aborted"}
LifecycleEvent == {"opening", "started", "finished", "aborted"}

-----------------------------------------------------------------------------
\* Claims.  A claim is "new" until its request arrives, then replayed against
\* the target, then archived under a name made of its kind and an index.
ClaimKind == {"wound", "failed_claim"}
ClaimStage == {"new", "replay", "archive", "done", "raised"}
NoName == <<"none", 0>>
ClaimState == [stage : ClaimStage, by : Combatants, name : (ClaimKind \X Nat) \cup {NoName}]

\* Patches.  "rejected": the write failed.  "timedout", "wedged" and "lost" end
\* with an exception: the restart, the restart after a revert never answered,
\* or there was no backup to revert to.
PatchStage == {"new", "rejected", "restarting", "smoke", "reverting", "applied",
               "broke", "timedout", "wedged", "lost"}
InFlight == {"restarting", "smoke", "reverting"}
PatchState == [stage : PatchStage, of : Combatants]
NoFile == <<"no file">>

\* Settlement.  Who calls shutdown_match, and the tasks of _settle_payouts.
Closer == {"abort", "auto", "lifespan"}
ShutStage == {"idle", "closing", "settling", "done", "raised", "cancelled"}
Bounty == {"wounds", "patches"}
PaymentStage == {"pending", "sent", "recorded", "failed", "lost"}
Payment == [by : Closer, agent : Combatants, bounty : Bounty, units : Nat,
            stage : PaymentStage]
NoSnapshot == [scores |-> <<>>, payouts |-> {}]

\* state.payouts, and what the chain has accepted.
Recorded == {t \in payments : t.stage = "recorded"}
OnChain  == {t \in payments : t.stage \in {"sent", "recorded", "lost"}}

\* A request that uvicorn waits for before it runs the lifespan shutdown.
RequestInFlight ==
  \/ start \in {"targets", "nodes"}
  \/ shut["abort"] \in {"closing", "settling"}
  \/ \E k \in Claims : claim[k].stage \in {"replay", "archive"}
  \/ \E p \in Patches : patch[p].stage \in InFlight

Init ==
  /\ server = "up" /\ start = "idle" /\ targetsUp = 0
  /\ status = "absent" /\ history = <<>> /\ timer = "none"
  /\ live = {} /\ registered = {}
  /\ boards = [c \in Combatants |-> NewScoreboard]
  /\ announced = boards
  /\ claim = [k \in Claims |-> [stage |-> "new", by |-> Chosen[1], name |-> NoName]]
  /\ counters = [kind \in ClaimKind |-> 0]
  /\ archive \in BOOLEAN      \* an earlier match may have built it
  /\ shut = [by \in Closer |-> "idle"]
  /\ payments = {}
  /\ disk = NoSnapshot
  /\ file = [c \in Combatants |-> <<>>]
  /\ backup = [c \in Combatants |-> NoFile]
  /\ overlapped = {}
  /\ patch = [p \in Patches |-> [stage |-> "new", of |-> Chosen[1]]]
=============================================================================
