# A TLA+ model of the Hostile Mesh

The repository runs adversarial matches between two LLM combatants. An *arena*
process (FastAPI, one asyncio loop) spawns two vulnerable *target* services,
eight AXL mesh nodes, two *combatant* and five *chorus* processes, judges the
exploits and patches the combatants submit, archives what happens under ENS
names on Sepolia, pays bounties when the match ends, and streams everything to
spectators. This directory holds TLA+ modules of that program, the TLC
configurations that check them on small instances, and theorems about them
checked by TLAPS. Paths below are relative to `src/`.

## 1. Inventory

### Components, their state and operations

| component | source | state | operations |
|---|---|---|---|
| event bus | `services/arena/event_bus.py` | replay deque (256), one queue (512) per subscriber, set of registered queues | publish, subscribe (an async generator) |
| match manager: lifecycle | `services/arena/manager.py` 199-523 | `MatchState` (status, scores, counters, payouts), handle tables, supervisors, archive | start_match, shutdown_match, `_auto_finish`, `_settle_payouts`, `_persist_match_state` |
| match manager: claims | same, 526-674, 1067-1115 | scoreboards, event counters | verify_exploit, `_record_event` |
| match manager: patches | same, 676-788, 980-1002 | the agent's module and its `.bak`, target handle | apply_patch, `_restart_target`, `_wait_for_health` |
| scoring | `packages/hostile_mesh_combat/scoring.py` | five totals and a breakdown per combatant | apply_wound, apply_patch, apply_failed_claim |
| HTTP API | `services/arena/api.py` | none of its own | lifespan, SSE streams, verify, patch, leaderboard |
| commentator | `services/arena/commentary.py` | its subscription, the lines it still has to say | subscribes to the bus, publishes on the bus |
| workspaces | `services/arena/workspace.py` | one directory per match and agent | materialise templates |
| ENS archive, chain, wallet | `packages/hostile_mesh_ens/` | next nonce, key files, wallet cache | register, open, close, record; send, wait; ensure |
| registration script | `scripts/register_sepolia_parent.py` | `.env`, the registry's owner of a name | fund, commit, register, write `.env` |
| AXL supervisor, mesh | `packages/hostile_mesh_axl/` | node processes, ports, peer ids; seen message ids, inbox | start_all, shutdown; broadcast, receive loop |
| bug bank, target | `packages/hostile_mesh_combat/`, `services/target/` | sampled bugs, sessions, balances, audit log | sample, seed; serve; judge a claim on a fresh mirror |
| combat tools | `packages/hostile_mesh_combat/agent_tools.py` | pending claims | probe, exploit, claim, patch, comment |
| agent runtime, LLM clients | `packages/hostile_mesh_runtime/` | conversation, loop window | turn loop, tool calls, compression, stream with retry |
| combatant, chorus processes | `services/combatant/`, `services/chorus/` | clock loop, inbox, rate limit | run turns, react |
| spectator UI | `apps/ui/src/state/store.ts` | a store fed by SSE | ingest |

### How they interact

Agents call the arena over HTTP (verify, patch, comment, chain reads). The
arena's handlers share `MatchState` and suspend whenever they wait for a target,
a node, the chain or a sleep; in between, other handlers see and change the same
state. Every handler publishes on the bus; SSE responses and the commentator
consume it. Chain calls run in worker threads. Targets, nodes and agents are
subprocesses that may exit at any time. The arena and the agents' processes share
the keystore directory; the agents' processes share the mesh.

### What is hard, and what makes each part correct

* **Bus.** Producers, joining consumers, slow consumers that are discarded and
  consumers that leave interleave. Correct: a stream is a run of consecutive
  events; a registered consumer misses nothing; only a full queue is discarded;
  what is queued is delivered; who left is forgotten.
* **Lifecycle and settlement.** `shutdown_match` has three callers (abort,
  timer, lifespan) which may overlap, and suspends in close_match and in the
  gather of payouts; starts fail half way; transactions are accepted and their
  answers lost; the process ends while a settlement runs. Correct: ordered
  announcements, no payment for points that do not exist, match.json covers what
  a settlement recorded, everything ends.
* **Claims.** A replay outlives the match; archive writes suspend between scoring
  and the announcement. Correct: names of archived events are unique, the two
  boards mirror each other, scores are announced.
* **Patches.** One `.bak` per module, restarts that time out, agents whose client
  gives up before the handler does. Correct: the module holds the accepted
  patches, processes are supervised.
* **Archive, chain, wallet.** Answers of the node are lost, nonces are taken
  before a send that fails, processes generate a wallet at once and die while
  writing it, the bootstrap script is interrupted. Correct: no two sends share a
  nonce and none is forgotten, what is reported confirmed is on the chain under a
  name that exists, wallets settle, the parent name is the registrar's.
* **AXL.** A node fails while others run; matches lay their nodes out on the same
  ports; the window of seen ids is bounded. Correct: identities come from nodes
  that run, an envelope is queued once.
* **Target and verdict.** The verdict is made on a mirror built afresh, not on the
  live target; a patch reaches the verdict and not the service. Correct: the log
  accounts for the money of everybody who is not caught in a race of its own, a wound
  is one the target served.
* **Runtime.** Compression against tool-call pairing; a reply that fails half way
  and is asked for again; a clock that is read between cycles. Correct: requests
  keep the tool protocol, calls come from one reply, the process ends.
* **Spectators.** The commentator listens to what it says; a page is replayed what
  it has already counted; judges wait for a stream that may fall silent. Correct:
  the chatter dies out, a page that caught up shows everything once, judges end.

`PROJECT.json` lists every hazard at its line, with the property that covers it
or the reason why none does. Its note says what a property leaves out because the
code does it; section 4 describes those cases.

## 2. Plan

Order: what decides who wins and who is paid comes first.

1. `EventBus` with its abstract `BroadcastLog`: **done**, with proofs.
2. `Scoring`, `ArenaState`, `ArenaMatch`, `ArenaVerify`, `ArenaPatch`, composed
   by `Arena`; `ArenaPromises` for what the documentation says: **done**, with
   proofs in `Arena_proofs` and, for the patches, `ArenaPatch_proofs`.
3. `Registrar`, `Keystore`, `RegisterParent`, composed by `Archive`: **done**,
   with proofs in `Archive_proofs` (nonces, keystores) and `ArchiveWrites_proofs`
   (records, the parent name).
4. `Supervisor`, `Mesh`, `Runtime`, composed by `Combatant`: **done**, with proofs
   in `Combatant_proofs`.
5. `BugBank`, `Target`, composed by `Duel`: **done**, with proofs in `Duel_proofs`.
6. `Spectators` on the log that `EventBus` implements: **done**, with proofs in
   `Spectators_proofs`.
7. Proofs still worth having: every invariant and every action property that a
   passing run checks is a theorem, and so is the refinement of `BroadcastLog`.
   What remains are facts beside them: that the points of a board are the sum of
   its breakdown, how long a conversation can get between two compressions, which
   nodes of a failed start survive it. Liveness stays with TLC.
8. Models still worth having: two matches of one arena at once (they share the
   bus, the registrar's account and the ports, which are modelled apart), the
   leaderboard's reading of match.json while it is written.

## 3. The modules

### EventBus, BroadcastLog, MCEventBus

`EventBus` models `event_bus.py`. An event is its position in the order of
publication. `publish` and the prologue of `subscribe` never suspend and are one
step each; the body of the generator is `Get` (the queue's get returns and the
generator yields), `Resume` (the consumer asks for the next event), `Leave` (the
consumer breaks out of its loop; the generator and its registered queue live on
until the loop's finaliser closes it: `Finalise`) and `Cancel` (the iterating
task is cancelled, the `finally` block runs). `got` and `joined` are history
variables. `BroadcastLog` is what the bus promises: an append-only log and a
cursor per reader, cut off only when too far behind. `ImplementsLog` is the
refinement, with the cursor being `joined + Len(got)`.

### Scoring

The constants, the boards, and the three operations of `scoring.py`, as pure
operators. The counters hold points. `bug_id` and `at` of an entry are left out.

### ArenaState

The variables of the arena process around one match, the processes, and `Init`.
Correspondence: `status`, `boards`, `counters`, `payments` (with stage
`recorded`) are fields of `MatchState`; `registered` is `_target_handles`,
`_agent_handles` and `_supervisors` together; `archive` is `_archive is not
None`; `disk` is match.json; `file` and `backup` are the agent's module and its
`.bak` as sequences of the patches applied; `start`, `timer`, `shut`, `claim` and
`patch` are the program counters of the suspended handlers; `live` is the
operating system's processes; `history`, `announced` are what was last published.
`overlapped` is a history variable.

A handler is cut exactly where it can suspend: one step per stretch between two
suspensions. `_SubprocessHandle.terminate` and `Supervisor.shutdown` do not
suspend, hence the abort path from `status = "aborted"` (manager.py:330) to
`status = "finished"` (406) is one step and "aborted" shows only in `history`.

### ArenaMatch

`StartMatch`, `FirstTargetHealthy`, `SecondTargetHealthy`, `TargetNeverHealthy`,
`NodesReady`, `NodesFailed` are the stretches of `start_match`; `Shutdown` is
`shutdown_match` up to its first suspension, entered by the abort path, by
`AutoFinish` and by `LifespanShutdown`; `CloseReturns`, `CloseRaises` end the wait
in close_match; `Settle` builds the payout tasks; the four `Payment...` actions
are a payout task in its worker thread; `SettlementDone` is the return of the
gather and the write of match.json; `Exit` the end of `asyncio.run`, which
cancels tasks while worker threads may still send. A disk error while writing is
logged and ignored by the code (`Persist`).

### ArenaVerify

`VerifyCall`, `ReplayDone` (the stretch from the answer of the replay through
scoring to the first chain call, or to the end when there is none),
`ArchiveReturns`, `ArchiveRaises`. The verdict is a choice. Requests may arrive at
any time after the start, also after the match has finished: the code does not
look at the status.

### ArenaPatch

`PatchCall` (backup, write, terminate, respawn), `PatchWriteFails`,
`RestartHealthy`, `RestartTimesOut`, `SmokeOk`, `SmokeBad` (revert),
`RevertHealthy`, `RevertTimesOut`. Two calls for one agent may be in flight: the
client's timeout is 30 s (agent_tools.py:174), one restart and one smoke test may
take longer. `overlapped` remembers for which agents that has happened.

### Arena, ArenaPromises, MCArena

`Arena` composes the three and states their properties; `ArenaPromises` states
what the documentation says and the code does not keep; `MCArena` gives the
constants.

### Registrar, Keystore, RegisterParent, Archive, MCArchive

`Registrar` is `chain.py`: `_build_tx_kwargs` takes a nonce (`Allocate`), the
signed transaction is accepted (`Submitted`) or not (`Refused`), the node mines in
nonce order (`Mine`). `counted` and `next` are `_next_nonce`; `pool` and `chain` are
the node's. `lost` is a history variable. `Keystore` is `wallet.py` with each
process's cache; writing a key is two steps because opening the file empties it.
`RegisterParent` is the bootstrap script; its writes of `.env` are steps of their
own and the user may interrupt it before any step.

`Archive` composes the three. An operation (`OpenMatch`, `RecordEvent`,
`RegisterAgent`, ...) is a sequence of steps, as archive.py awaits them; a task is
a sequence of operations, as the arena runs them. A step is in a worker thread
while it is sent (`TakeNonce`, `SendReturns`, `SendRefused`) and waits for its
receipt after that (`Receipt`, `ConfirmationTimeout`, `PollRaises`). `Crash` is the
end of the arena's process; its tasks are gone with its counter. `MCArchive` begins
in one of four scenes: a match that opens while a claim is archived, a fresh
installation with the script and an agent's process, a comment of the chorus, and
the operations the arena does not call.

### Supervisor, Mesh, Runtime, Combatant, MCCombatant

`Supervisor` has the processes of each match's nodes, who holds a port, and whose
key each node was given (`peer`). `Mesh` is the receive loop of one agent, with an
AXL that loses, repeats and reorders. `Runtime` is the generator `run()` with the
conversation, the model call and its retries, the compressor and the loop
detector; `pc` says where it stands, in a yield or in an await. A message is its
role and the turn it belongs to; replies and requests are told apart as far as
the loop detector does. `Combatant` is `main()`: the tools, the clock, the inbox of
the arena's events, and the ways to end. An abandoned generator stands still.
`MCCombatant` begins with two supervisors and no process, or with one process,
idle (then its mesh speaks) or fighting.

### BugBank, Target, Duel, MCDuel

`BugBank` has the templates as far as a verdict tells them apart (route, tier,
whether a session is asked for, what the verdict consults) and `Samples`, what
`sample` can draw. `Target` is one target service: sessions, balances, the audit
log, and requests in flight. Its handlers yield only in `transfer_vuln`
(`ReadBalance`, `WriteBalance`). `Duel` adds the workspace, the patch, the restart
and the verdict: `Judge` is `_verify_against_workspace`, on a mirror without
session and log. `by` of an answer is a history variable: the seeded route that
served it. So is `raced`: who had its balance changed by another request while its
own racing transfer had yielded.

### Spectators, MCSpectators

Readers of `BroadcastLog`: the commentator, which publishes what it says of an
event line by line; a judge of the chorus with its rate limit, deadline, model
call and post; the store of the page with its connections. A match is announced
step by step (`Advance`) or given up before its agents are spawned (`Abort`). A frame
carries the position of its event and the scores at the time it was serialised.
`MCSpectators`
begins with a page and nobody who talks, or with talkers that have followed up to
a wound, or with talkers that start late.

### What is abstracted

One match; the seven agents and the eight nodes are one process each (start and
teardown treat them alike); the order of `Chosen` is the launch order, without
loss of generality; the contents of claims, exploits and patches; patches refused
by the path, file or uniqueness checks (they change nothing); the bug id of a
breakdown entry; all patches of an agent rewrite one module, the case in which
their backups meet. With an unconfigured chain the archive methods return at once
and send_eth raises, as in the code.

Archive: what is written in a record; which RPC call of a send fails (the gas
price, the count, the submission); the pool replaces a transaction with the same
nonce. Combatant: texts; one opponent that broadcasts; the 30 s of a tool are its
return, whatever came of it. Duel: identifiers and bodies of requests as far as
routes tell them apart; contents of files and notes; what an edited module says is
a choice. Spectators: the text of lines; delays; of the store, the log, the seeded
bugs, the board and the status.

## 4. The runs

| run | instance | states | what it shows |
|---|---|---|---|
| EventBus | 2 subscribers, deque 2, queue 3, 6 events | 50k | streams have no hole; queued events are yielded; who left is forgotten; the log is implemented |
| ArenaMatch | 1 claim, 1 patch, medium bugs, chain configured | 73k | payments stay within points, snapshots cover what was recorded; matches finish, claims are answered, settlements end, the process stops |
| ArenaClaims | 2 claims, easy and hard bugs, chain configured | 387k | order of announcements, unique names, announced scores |
| ArenaPatches | 2 patches, no chain, failing disk | 78k | module, backup and processes follow the verdicts; calls end; scores only grow |
| Archive | 5 tasks in 4 scenes, 5 nonces, 1 crash of the arena, 1 agent, 2 labels | 128k | nonces are accounted for, the pool drains up to what was lost, confirmed is written, wallets settle, the parent name is owned |
| Combatant | 3 scenes; 2 matches of 3 nodes; 3 envelopes, window 2; 2 turns, 2 calls, 1 retry; 2 equal actions are a loop | 318k | requests keep the tool protocol, calls come from one reply, duplicates are dropped, identities are not stale, the process ends |
| Duel | 6 templates of which 4 are seeded, 2 requests, 1 restart | 1.39M | the log explains every balance but that of a payer caught in its own race, a wound was served by the route of its bug |
| Spectators | 3 scenes; commentator, 1 judge, 2 connections, 2 combat events, also an aborted match | 818k | chatter is bounded, a page that caught up is complete, its scores do not go back, judges end |

Bounds. With a deque of 2 and a queue of 3, six events overflow both and let a
discarded generator drain while another joins; two subscribers give every
relative speed. Two combatants are what the code requires. Two claims are enough
for a clash of names and for scores of both sides; a third claim meets the same
pairs. Two patches are enough for one to overwrite, restore or lose the other's
backup, in sequence or overlapping. One claim and one patch give both kinds of
bounty, so that three overlapping settlements have up to twelve payments. Claims
and patches are checked separately because they share only the boards and the
liveness of a target, which `TargetExits` already varies in both.

In Archive, five nonces let two tasks overlap, lose one and send again after a
crash. The tasks of different scenes share only the account, and two overlapping
tasks are in the first scene. In Combatant three envelopes of up to two copies fill
and trim a window of two; three nodes are a hub, a node before the failing one and
one after it. Two turns with two calls are enough for a cycle of two actions. With
two retained messages a compression keeps a call with its results, or, when two
equal calls were a loop and the nudge follows the results, cuts between the two:
config.py asks for three equal calls, for which the cut would need a third turn.
The three scenes share no variable but the end of the process, which
the mesh does not influence. In Duel four of six templates cover the three kinds of
verdict, two templates of one route, the race and the signature; a second restart
would begin as the first one ended. In Spectators a page is replayed everything at
its second connection, and a log of two overflows. The two slots of Duel are
symmetric (no liveness is checked there); no other run declares a symmetry.

`CHECK_DEADLOCK FALSE` in the runs of Arena: a stopped server is a final state. In
Duel the requests are used up, in Spectators the match is over. In the bus all
events may be published and every generator closed. Archive and Combatant have a
final step of their own.

Fairness. Weak fairness on what the code's own waits bring to an end. In the
arena: health polls (12 s), readiness polls of nodes (30 s), the HTTP timeouts of
replays and smoke tests, the provider and confirmation timeouts of chain calls,
the sleep of the timer, uvicorn's shutdown. Either outcome satisfies it: the
conditions are on "healthy or timed out", "sent or failed". None on requests, on
SIGTERM, on `StartMatch` or on targets that exit. In the bus: a generator whose
`get` can return runs, a consumer comes back or leaves, a dropped generator is
finalised; none on publishing, subscribing or cancelling. In Archive: the chain
mines a transaction whose turn it is, a send ends by its answer or by
`request_timeout`, a wallet that is generated gets written, the arena is started;
none on tasks, on receipts or on the script. In Combatant: time passes, every await
of the runtime and its tools has a timeout (30 s for the arena, the client's own
for a model call), `main` goes on; none on the mesh, the nodes or the arena's
events. In Spectators: a judge's deadline passes, its model call and its post (4 s)
end, a stream that is silent still carries keep-alive lines; none on publishing, on
the commentator or on the page.

### Disagreements between the code and its documentation

Four runs end in a violation; each checks one sentence of the repository.

* `PaidOnce`: the lifespan settles a match that the timer has settled
  (api.py:47-51); README.md:22 pays a wound once.
* `FinishedIsPersisted`: an RPC error in close_match (manager.py:416) skips
  settlement and match.json; api.py:104-105 relies on the file.
* `BrokenPatchIsScored`: a service that never answers after its patch costs
  nothing (manager.py:724, 1002); agent_tools.py:143 says it does.
* `PatchIsServed`: the workspace writes `bugs/<stem>.py` and the target looks for
  `bugs/<bug_id>.py` (services/target/main.py:34), so that a patched module judges
  claims and is never served; services/target/main.py:7-9 says it is.

The models show more of the same kind, without runs of their own.

* Arena: the bounty multiplies points, not wounds (manager.py:502-506 against
  423); nodes spawned before a failing node are in no table when the abort path
  tears down (manager.py:334 against docs/decisions.md:20), and `Supervisor` shows
  how they come to answer for a later match; "aborted" is always overwritten by
  "finished" and announced before it (README.md:103), and a second shutdown announces
  "finished" again; a claim in flight may still score after match.json was
  written (manager.py:515); a payment whose answer is lost, or which a worker thread
  sends while the loop ends, is not in match.json (manager.py:431); a failed start
  leaves the match "opening" and its processes without a handle (README.md:174); a
  target that a patch restarts while its match is shut down is registered afterwards
  and lives until the server stops; of two patches of one agent that overlap, one may
  restore the other's backup or find none, and both may be scored.
* Archive: a record can be reported "failed" though the chain took it, when the
  answer of the node is lost; two processes that find no keystore for an agent each
  make a key, and one of them goes on with the key that was overwritten; a keystore
  cut while it was written is never readable again; the script says it reuses the
  key of `.env` "if set" and does so only with --reuse, and a receipt that does not
  arrive in time leaves a name registered to a key that was saved nowhere; a nonce
  whose submission failed is used again only after a restart; a run of the script
  that is cut between its two writes of `.env` leaves the key of one registration
  beside the parent of another.
* Combatant: a compression may cut between a tool call and its result, and the
  requests fail until the result has slid out of the window; the text of an attempt
  that failed stays in front of the text of the next one; a partial summary is
  taken when its call fails; an agent is told that the handoff has failed after
  30 s while the arena may still act on it; one envelope with unexpected fields ends
  the receive loop for good; once the window of seen ids was trimmed, an envelope that
  arrives again may be handled again.
* Duel: manager.py:575-576 and agent_tools.py:306-308 speak of the live target's
  state, but a verdict that consults sessions or the audit log finds none on the
  mirror (manager.py:836): six of the twelve templates cannot be verified as they
  were seeded; a sample of n templates may have n - 1.
* Spectators: the page does not listen for `combat.payout` (useEventStream.ts:61-86),
  which store.ts:255-279 handles; a page or commentator that the bus has discarded
  does not notice; a judge that has lost its stream does not connect again; "at most
  one reaction" per interval counts from before the call and not for empty ones; a
  page whose replay no longer has the opening shows entries twice; `match.aborted`
  carries a reason and no scores (manager.py:327; docs/event-schema.md:25 adds the
  match state "if reachable"), which the store takes for the match state.

## 5. The proofs

What a theorem says holds for every number of subscribers and events, every set
of claims, patches, tasks, matches and envelopes, every length of the deque and the
queues; the runs of section 4 check the same formulas on small instances.

### EventBus_proofs

Assumption `BusAssumption`: the deque and the queues have a positive length and
the deque fits into an empty queue (256 and 512 in event_bus.py), which is what
lets `subscribe` replay without overflow.

The inductive invariant is `BusInv`: `TypeOK`, `BacklogIsNewest`, `UpToDate`,
`Phases` (what a generator's phase says of its registration and its queue) and
`Runs` (what a generator has yielded, followed by what is queued, is one run of
consecutive events beginning where it joined). `GapFree` alone is not inductive:
`Get` moves the head of the queue to the end of `got`, so the queue must continue
`got`; and `Publish` appends to the queue of a registered generator, so that
queue must end at the newest event, which is `UpToDate`. The lemmas on runs
(`RunAppend`, `RunTail`, `RunConcat`, `DequeAppendRun`) say that appending,
taking and trimming keep a run.

* `TypeCorrect`, `StreamsHaveNoGap`, `RegisteredIsUpToDate`,
  `BacklogHoldsNewest`: the invariants.
* `DiscardNeedsFullQueue`: an action property, from `TypeOK` and the definition of
  the overflow path.
* `BusIsALog`: the refinement `ImplementsLog`. `ReaderView` says what the mapping
  shows of one generator; each action is then matched with a step of
  `BroadcastLog` (`Publish` with `Extend`, in which exactly the generators with
  a full queue are cut; `Subscribe` with `Join`; `Get` with `Read`; `Finalise` and
  `Cancel` with `Quit`) or leaves the mapped variables alone. That the reader
  which is cut lags by a full queue follows from `Runs` and `UpToDate`: its lag is
  what is queued. `BroadcastLog` states no fairness; that a queued event is
  yielded is `QueuedIsYielded`, which TLC checks.

### Arena_proofs

Assumption `ArenaAssumption`: the two combatants differ, the names of the
processes and callers do not clash, the difficulties are among the bank's three.

`MatchFrame`, `VerifyFrame` and `PatchFrame` say which variables each of the
three handlers leaves alone; with them an invariant about one handler is proved
against the steps of that handler only.

* `TypesHold`: `TypeOK` is inductive. `ScoreStep` is the fact about scoring it
  rests on, and the next two as well: a step changes the boards as `Scored` says
  (points grow, the breakdown is extended, one board's wounds inflicted grow by
  what the other one's taken grow).
* `WoundsAreMirrored`, `PointsOnlyGrow`: from `TypeOK` and `ScoreStep`.
* `NamesAreUnique`: by `NamesInv`, which adds that the index of every name in use
  is at most the counter of its kind. The next index is then new.
* `AnnouncedInOrder`: by `LifeInv`, which adds how long the history is at each
  stage of `start_match` and that a timer exists only after it has ended. That an
  appended "started" comes second, and that nobody finishes a match before it
  was opened, follows from there.
* `PaymentsBacked` and `SnapshotsCover`: by `SettleInv`. Neither is inductive
  alone. That a settlement's tasks are not already there needs that a caller
  which has not reached settlement owns no payment, and that the abort path and
  the timer call `shutdown_match` for the first time (`CalledOnce`, from the
  position of `start_match` and the state of the timer). That a snapshot stays
  complete needs that a caller which is done has no open payment, because such a
  payment could be recorded after the write. That points keep covering a payment
  made earlier is `PointsGrow`.
* `SpectatorsAreTold`: `ScoresAnnounced` is inductive over the types. A handler that
  scores publishes in the same step or is then in a stage the property names.

`WoundsAreMirrored` and `DiscardNeedsFullQueue` (in EventBus_proofs) have no run:
they are there as theorems only.

### ArenaPatch_proofs

The two invariants about overlapping calls of apply_patch; neither is inductive.

* `NoLostProcess`: by `ProcInv`. To know that a process no handle knows is
  accounted for, one must know who spawned every process (`Belongs`: the start of
  the match, or a patch that has been called, for its own agent), that only a patch
  which reverted has a second process and that the handle learns of it only at the
  end (`Again`, `AgainKnown`), what runs before `start_match` has registered it
  (`Starting`), that a restart terminates the process the handle knew
  (`Replaced`), and that two calls in flight for one agent are remembered
  (`OneAtATime`).
* `ModuleHoldsVerdicts`: by `FileInv`, which adds what a revert relies on
  (`Recoverable`): while an agent patches one at a time, the backup is the module
  without the patch in flight, and a patch not yet called is in neither file.

### Archive_proofs

Assumptions: those of `Registrar` and `Keystore`, and `ProgramAssumption` (every
task has an operation; an operation has a step, ends with a write or a payment, and
ensures wallets of agents only, which archive.py does before a registration). The
theorems are about the whole `Archive`, with crashes, agents' processes and the
script.

* `NoncesStayAccounted`: by `ArchiveInv`. `NoncesAccounted` is not inductive alone:
  the first nonce of a process is read from the node while no other worker holds one
  (`HeldAreCounted`: before that nobody does), and what a task submits must not be
  the empty slot of the pool, which needs to know where in its program a sending
  task stands (`TasksOK`).
* `KeystoreIsSettled`: an action property, by `KeyInv`: who generates a wallet is
  the arena or the agent's own process. A step that concerns one agent then leaves
  the others' keystores alone, and the one it concerns is not quiet.

### ArchiveWrites_proofs

By `WriteInv`, which is `ArchiveInv` with the types of the keystore, `OwnerInv`,
`FlightInv`, `ChainSound` and `ResultInv`.

* `ConfirmedWasWritten`: a receipt is that of the task's own transaction, which is
  then on the chain; what the chain has under a nonce never changes (`Grows`), so
  that a result once true stays true. That the last step of an operation is the one
  the receipt is for needs that a waiting task stands at a write (`FlightInv`);
  that the name exists needs that a record succeeds only under a name minted before
  it (`ChainSound`); and `ResultInv` says that the results of a task are those of the
  operations it is past.
* `ParentWasOwned`: `OwnerInv` follows the script. Between two runs of it, and up to
  the first of its two writes, the key of `.env` owns the parent of `.env`
  (`EnvSound`); nothing is sent before the script is over, and whether the
  registrar owns the parent is settled then. Only a run cut between the two writes
  leaves the key of one registration beside the parent of another.
* `ArchiveTypes`: the types, which rest on the same invariant.

### Combatant_proofs

Assumption `RuntimeAssumption`: the limits are positive (config.py has 12 turns, 6
messages kept, 3 repeats), and a reply can have a call.
`MeshFrame` and `SupFrame` say which steps of the process touch the inbox and the
nodes.

* `QueuedOnceUntilTrim`: by `InboxInv`, which adds that what is queued is
  remembered. `Accepted` queues an id that is not remembered, hence a new one.
* `IdentitiesAreNotStale`: an action property, by `PortInv`: who holds a port runs,
  and no node of a match that was shut down runs.
* `CallsAreFromOneReply`: by `ReplyInv`: the calls of a reply carry the attempt that
  is being read, a retry begins with none, and the text may be of earlier attempts.
* `ToolUseIsAnswered`: by `ConvInv`. A message with calls is followed by their
  results (`Paired`) and results are preceded by their calls (`Preceded`), except
  that the last message is open while its calls run, or for good when the clock
  ended the turn, and that results may stand alone at one place, behind the
  summary of a compression that cut the pair and kept all it may keep.
* `CombatantTypes`: the types, with the bounds on turns, calls, retries and the
  window of the loop detector.

### Duel_proofs

By `DuelInv`: `StateInv` (types and how a target is seeded), `CallInv` (what is known
of a request in each phase), `BooksInv` and `EditInv`.

* `WoundsWereServed`: the answer with status 200 of a seeded route was served by
  that route (`CallOK`), no two seeded bugs share a route, and a module as it was
  seeded verifies only what its own route answered.
* `DuelTypes`: that no balance is negative needs that a transfer which has yielded
  has read at least what it takes.
  That a target has `Wanted` bugs or one less is the lemma on `Samples`: the tiers
  add up, and a sample loses at most one bug because only the two logins share a
  route.
* `BooksAreBalanced`: a transfer that has yielded writes what it read less the
  amount. If the balance is still what it read, that is what the log entry explains;
  if not, the payer is in `raced` from then on, and the one it pays is credited as
  the log says. What the log explains is a sum over the log, a recursive function.
  That appending an entry adds its amounts is proved by induction over
  the domain of that function. The induction theorems take a predicate, which none
  of the provers instantiates; a set of numbers takes its place (`LeastNumber`,
  `Induct`, from the well-foundedness of < on Nat).

### Spectators_proofs

Assumption `SpectatorsAssumption`: there are finitely many judges, and the
commentator, the judges and each connection of the page are subscribers of their
own, as they are in the bus, where every stream has a queue of its own.

* `SpectatorsTypes`: by `TalkInv`. That the chatter is bounded is not inductive: what
  is said, with what is still owed (the rest of the commentator's script, the
  judges that are asking or posting), stays within what was read so far (`Owed`:
  the commentator by its position, the judges by the pairs of a judge and an event
  it has read). What was read is within what was published. The lemmas count the
  events of a kind in a prefix of the feed, and how the count changes when the feed
  grows or a reader moves on.
* `BoardsNeverDrop`: an action property, by `BoardInv`: the scores on the wire never
  decrease along it, none is below what the page shows or above what is true. A
  replayed event is serialised when it is read, with the scores of that moment. Only
  the event of an aborted match, which has none, takes them away.
* `PagesAreComplete`: by `WireInv` (the frames on the wire are the last ones the
  stream has read) and `PageInv` (what the page lists is what it was sent up to the
  first of them). What a page that missed nothing lists is a recursive function of
  the feed; that it depends on the prefix alone and grows by the entries of
  the next event is shown by induction as in Duel_proofs. `LastOfLast` says that
  cutting a list after every event or once at the end is the same. That a new
  connection begins from an empty log needs that the opening of the match is the
  first event and comes once (`OpeningInv`).

What is only model-checked: liveness under fairness (`QueuedIsYielded`,
`LeftIsForgotten`, `RunningFinishes`, `ServerStops`, `ClaimsAnswered`,
`SettlementEnds`, `PatchesAnswered`, `PoolDrains`, `CombatantExits`, `ChorusExits`),
which is out of reach of these provers, and the violation runs.

## 6. What is not modelled

`PROJECT.json` gives the status of every component. Left out for good: the
rendering of the UI and the lists of its store that only show what an event said,
the prompts and personas, the string checks inside the bug templates, the wire
formats of the model providers, ENS encodings, ABIs and signatures, the build of
the AXL binary, the shell scripts. Left out because nothing reaches it:
`Verifier.attempt` (constructed at manager.py:288, never called), `Mesh.from_processes`,
the signal handlers of the supervisor, `CommentTool`, the permission manager, which
never refuses. `grant_spectator`, `rotate_endpoint` and the chorus comment
of archive.py have no caller in the arena; they are modelled all the same.
Left out although something could be said: the request log of a
target and its trimming, the leaderboard, two matches of one arena at once.
Delays and backoffs are nondeterministic.
