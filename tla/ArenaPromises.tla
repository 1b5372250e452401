---------------------------- MODULE ArenaPromises ----------------------------
(***************************************************************************)
(* What the documentation, the docstrings and the tool descriptions of the *)
(* repository say of a match, and the handlers do not keep.                *)
(***************************************************************************)
EXTENDS Arena

\* README.md:22: "0.001 SepETH per wound": a wound is paid once.
PaidOnce ==
  \A t, u \in OnChain :
    t # u /\ t.agent = u.agent /\ t.bounty = u.bounty =>
      t.units + u.units <= Points(t.agent, t.bounty)

\* api.py:105: match.json is "written by the arena's _persist_match_state at
\* shutdown": a match that was played has one when the process is gone.
FinishedIsPersisted ==
  server = "down" /\ timer # "none" => disk # NoSnapshot

\* agent_tools.py:143: "patches that break the service are scored against you":
\* also the ones whose service never answers again.
BrokenPatchIsScored ==
  \A p \in Patches :
    patch[p].stage \in {"timedout", "wedged"} => boards[patch[p].of].patches_broken > 0
=============================================================================
