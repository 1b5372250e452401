------------------------------- MODULE Combatant -------------------------------
(***************************************************************************)
(* The process of one combatant (services/combatant/main.py) with its      *)
(* tools (hostile_mesh_combat/agent_tools.py): it joins the mesh, listens  *)
(* to the arena's events, and relaunches the runtime until the match clock *)
(* is nearly out.  The mesh itself is started before, by the supervisor of *)
(* the arena.                                                              *)
(***************************************************************************)
EXTENDS Runtime, Mesh, Supervisor

CONSTANTS
  MaxHeard      \* bound: how many notable events of the arena wait at once

ASSUME CombatantAssumption == MaxHeard \in Nat

VARIABLES
  stage,     \* of main(): "boot", "idle", "fight", "finally" or "exited"
  clock,     \* seconds left: "plenty", at most 8 ("low"), at most 4 ("out")
  crosstalk  \* arena_inbox: how many wait for the next prompt

mainVars == <<stage, clock, crosstalk>>
vars == <<runVars, meshVars, supVars, mainVars>>

Posting == {"patch_self", "exploit"}    \* wait for the arena, 30 s at most
-----------------------------------------------------------------------------
\* The generator has yielded an event: main goes on with the loop or leaves it.
BreakNow == clock = "out"

\* Mutant: no test of the clock before a relaunch.
MayRelaunch_Always == TRUE

MayRelaunch == clock = "plenty"

\* An action of the generator that begins at a yield needs main to ask for it.
Asked == stage = "fight" /\ (pc \in Yields => ~BreakNow)

\* main(), up to the loop: the mesh of known peers, the receive loop of its
\* own node, the session, the listener.  Without an API key it stays idle.
Boot ==
  /\ stage = "boot" /\ Listen
  /\ stage' \in {"idle", "fight"}
  /\ UNCHANGED <<runVars, supVars, clock, crosstalk>>

\* The degraded notice is broadcast, then it sleeps for the whole match; this
\* path returns before the try block, and leaves its loop to the event loop.
Idle ==
  /\ stage = "idle" /\ clock = "out"
  /\ stage' = "exited" /\ StopListening /\ RunGone
  /\ UNCHANGED <<spoken, wire, seen, inbox, trimmed, supVars, clock, crosstalk>>

\* The while loop: the first prompt, or a nudge with what has been heard.
Relaunch ==
  /\ stage = "fight" /\ pc \in {"off", "over"} /\ MayRelaunch /\ turn < MaxTurn
  /\ Launch
  /\ crosstalk' = IF pc = "over" THEN 0 ELSE crosstalk
  /\ UNCHANGED <<meshVars, supVars, stage, clock>>

\* The async for is left and the generator abandoned where it stands.
Break ==
  /\ stage = "fight" /\ pc \in Yields /\ BreakNow
  /\ Abandon
  /\ UNCHANGED <<messages, turn, usage, history, meshVars, supVars, mainVars>>

LeaveLoop ==
  /\ stage = "fight" /\ pc \in {"off", "over"} /\ ~MayRelaunch
  /\ stage' = "finally"
  /\ UNCHANGED <<runVars, meshVars, supVars, clock, crosstalk>>

\* An exception of the client that stream() does not catch.
Raise ==
  /\ stage = "fight" /\ pc \in {"compress", "stream"}
  /\ pc' = "raised" /\ stage' = "finally"
  /\ UNCHANGED <<messages, turn, ran, attempt, text, calls, k, running, usage, history,
                 meshVars, supVars, clock, crosstalk>>

\* The listener is cancelled, the mesh stopped, the session closed.
Finally ==
  /\ stage = "finally" /\ stage' = "exited"
  /\ StopListening /\ RunGone
  /\ UNCHANGED <<spoken, wire, seen, inbox, trimmed, supVars, clock, crosstalk>>

\* The arena terminates the process.
Killed ==
  /\ stage \in {"boot", "idle", "fight", "finally"}
  /\ stage' = "exited" /\ StopListening /\ RunGone
  /\ UNCHANGED <<spoken, wire, seen, inbox, trimmed, supVars, clock, crosstalk>>

-----------------------------------------------------------------------------
\* Mutant: what was heard goes straight into the conversation.
Fold_Direct ==
  /\ messages' = Append(messages, User) /\ UNCHANGED crosstalk

\* A notable event of the arena waits in arena_inbox for the next prompt.
Fold ==
  /\ crosstalk' = crosstalk + 1 /\ UNCHANGED messages

Hear ==
  /\ stage = "fight" /\ crosstalk < MaxHeard
  /\ Fold
  /\ UNCHANGED <<turn, ran, pc, attempt, text, calls, k, running, usage, history,
                 meshVars, supVars, stage, clock>>

Tick ==
  /\ stage # "exited"
  /\ \/ clock = "plenty" /\ clock' = "low"
     \/ clock = "low" /\ clock' = "out"
  /\ UNCHANGED <<runVars, meshVars, supVars, stage, crosstalk>>

-----------------------------------------------------------------------------
Quiet == UNCHANGED <<meshVars, supVars, mainVars>>

\* The turn loop.  main posts the text of a reply to the arena in the
\* background, and forgets a post that fails.
Think ==
  /\ Asked
  /\ \/ BeginRun \/ BeginTurn \/ Compress \/ NoSummary \/ Compressed
     \/ TextDelta \/ NextDelta \/ ToolCallStart \/ Retry \/ GiveUp
     \/ MessageComplete \/ Spoke \/ NextCall \/ AddToolResults \/ Nudge \/ EndTurn
  /\ Quiet

Refuse ==
  /\ Asked /\ \E tool \in Tools, valid \in BOOLEAN : Refused(tool, valid) /\ RunAtOnce
  /\ Quiet

\* Reads the workspace.
InspectSelf == Asked /\ "inspect_self" \in Registered /\ RunAtOnce /\ Quiet

\* The file or the text to replace is not there, or outside the workspace.
PatchRejected == Asked /\ "patch_self" \in Registered /\ RunAtOnce /\ Quiet

PatchSelf == Asked /\ Await("patch_self") /\ Quiet
Probe     == Asked /\ Await("probe") /\ Quiet
Exploit   == Asked /\ Await("exploit") /\ Quiet
Claim     == Asked /\ Await("claim") /\ Quiet

\* The arena answers, or 30 s pass and the handoff has failed for the agent.
Handoff == stage = "fight" /\ running \in Posting /\ ToolReturns /\ Quiet

\* The opponent's service answers or the transport fails; the broadcast of a
\* claim ends whoever could be reached.
Answered == stage = "fight" /\ running \in {"probe", "claim"} /\ ToolReturns /\ Quiet

UseTool ==
  \/ Refuse \/ InspectSelf \/ PatchRejected \/ PatchSelf \/ Probe \/ Exploit \/ Claim

RunStep == Think \/ UseTool \/ Handoff \/ Answered
MainStep == Boot \/ Idle \/ Relaunch \/ Break \/ LeaveLoop \/ Finally

MeshStep == stage # "exited" /\ MeshNext /\ UNCHANGED <<runVars, supVars, mainVars>>
SupStep  == SupNext /\ UNCHANGED <<runVars, meshVars, mainVars>>

MainInit ==
  /\ stage = "boot" /\ clock = "plenty" /\ crosstalk = 0

Init == RunInit /\ MeshInit /\ SupInit /\ MainInit

Exited == stage = "exited" /\ UNCHANGED vars

Next ==
  \/ MainStep \/ RunStep \/ Raise \/ Killed
  \/ Hear \/ Tick
  \/ MeshStep \/ SupStep \/ Exited

\* Time passes; every await of the process is bounded by a timeout of its own
\* (httpx in the tools, the model client's in a call), and the process runs.
Fairness == WF_vars(Tick) /\ WF_vars(RunStep) /\ WF_vars(MainStep)

Spec == Init /\ [][Next]_vars /\ Fairness

-----------------------------------------------------------------------------
TypeOK ==
  /\ RunTypeOK /\ MeshTypeOK /\ SupTypeOK
  /\ stage \in {"boot", "idle", "fight", "finally", "exited"}
  /\ clock \in {"plenty", "low", "out"} /\ crosstalk \in 0..MaxHeard

\* Left to itself the process of a combatant always ends: no error of the
\* model, loop of the agent or lost event keeps it (combatant/main.py, 263-316).
CombatantExits == <>(stage = "exited")
=============================================================================
