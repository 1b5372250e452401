----------------------------- MODULE ArenaPatch -----------------------------
(***************************************************************************)
(* apply_patch: rewrite a bug module of the agent's workspace, keep the    *)
(* original beside it, restart the target and smoke-test it; revert,       *)
(* restart again and penalise when the service does not come back.         *)
(* All patches of an agent rewrite the same module.                        *)
(***************************************************************************)
EXTENDS ArenaState

Move(p, stage) == patch' = [patch EXCEPT ![p].stage = stage]

Busy(c) == \E p \in Patches : patch[p].of = c /\ patch[p].stage \in InFlight

\* The request arrives.  The agent waits for its answer, but not for longer than
\* its HTTP client does: a second call can overlap the first.
MayCall(p, c) ==
  /\ patch[p].stage = "new"
  /\ start = "done" /\ server = "up"
  /\ overlapped' = IF Busy(c) THEN overlapped \cup {c} ELSE overlapped

\* Mutant: the old target keeps running beside the new one.
Respawn_Leaks(c, new) == live' = live \cup {new}

\* _restart_target up to its first health poll: the registered target is
\* terminated, the new one is spawned and not registered yet.
Respawn(c, new) == live' = (live \ {t \in registered : t.of = c}) \cup {new}

\* _restart_target after the health poll.
Registered(c, new) == {t \in registered : t.of # c} \cup {new}

\* What becomes the backup when apply_patch renames the module.
Original(c) == file[c]

\* The module is renamed to its backup and written anew; a backup that was
\* there is overwritten.
PatchCall(p, c) ==
  /\ MayCall(p, c)
  /\ patch' = [patch EXCEPT ![p] = [stage |-> "restarting", of |-> c]]
  /\ backup' = [backup EXCEPT ![c] = Original(c)]
  /\ file' = [file EXCEPT ![c] = Append(@, p)]
  /\ Respawn(c, PatchedTarget(c, p))
  /\ UNCHANGED <<lifeVars, registered, scoreVars, claim, settleVars>>

\* The new text cannot be written: the backup is renamed back.
PatchWriteFails(p, c) ==
  /\ MayCall(p, c)
  /\ patch' = [patch EXCEPT ![p] = [stage |-> "rejected", of |-> c]]
  /\ backup' = [backup EXCEPT ![c] = NoFile]
  /\ UNCHANGED <<lifeVars, procVars, scoreVars, claim, settleVars, file>>

\* Mutant: the backup is dropped instead of renamed.
Restore_Unlinks(c) ==
  /\ backup' = [backup EXCEPT ![c] = NoFile]
  /\ UNCHANGED <<file, overlapped>>

\* backup.rename(target)
Restore(c) ==
  /\ file' = [file EXCEPT ![c] = backup[c]]
  /\ backup' = [backup EXCEPT ![c] = NoFile]
  /\ UNCHANGED overlapped

\* The patch is taken back and the target restarted once more.  A backup that
\* another call took away makes rename raise.
Revert(p) ==
  LET c == patch[p].of IN
  \/ /\ backup[c] # NoFile
     /\ Move(p, "reverting")
     /\ Restore(c)
     /\ live' = (live \ {t \in registered' : t.of = c}) \cup {RevertedTarget(c, p)}
  \/ /\ backup[c] = NoFile
     /\ Move(p, "lost")
     /\ UNCHANGED <<fileVars, live>>

\* Something answers on the port.  The handle tells whether it is the process
\* that was spawned: if that one runs go on to the smoke test, else revert.
RestartHealthy(p) ==
  LET c == patch[p].of
      new == PatchedTarget(c, p) IN
  /\ patch[p].stage = "restarting" /\ Answers(c)
  /\ registered' = Registered(c, new)
  /\ \/ new \in live /\ Move(p, "smoke") /\ UNCHANGED <<fileVars, live>>
     \/ new \notin live /\ Revert(p)
  /\ UNCHANGED <<lifeVars, scoreVars, claim, settleVars>>

\* Mutant: the health poll has no deadline.
RestartTimesOut_Never(p) == FALSE

\* Nothing answered in time: the exception passes through apply_patch.
RestartTimesOut(p) ==
  /\ patch[p].stage = "restarting"
  /\ Move(p, "timedout")
  /\ UNCHANGED <<lifeVars, procVars, scoreVars, claim, settleVars, fileVars>>

\* The smoke test passes: drop the backup, score, publish.
SmokeOk(p, d) ==
  LET c == patch[p].of IN
  /\ patch[p].stage = "smoke" /\ Answers(c)
  /\ Move(p, "applied")
  /\ backup' = [backup EXCEPT ![c] = NoFile]
  /\ boards' = ApplyPatch(boards, c, d)
  /\ announced' = boards'
  /\ UNCHANGED <<lifeVars, procVars, counters, archive, claim, settleVars, file,
                 overlapped>>

SmokeBad(p) ==
  /\ patch[p].stage = "smoke"
  /\ UNCHANGED registered
  /\ Revert(p)
  /\ UNCHANGED <<lifeVars, scoreVars, claim, settleVars>>

\* The target answers again, whichever process it is: penalise.  The scores are
\* not published on this path.
RevertHealthy(p) ==
  LET c == patch[p].of IN
  /\ patch[p].stage = "reverting" /\ Answers(c)
  /\ Move(p, "broke")
  /\ registered' = Registered(c, RevertedTarget(c, p))
  /\ boards' = ApplyBrokenPatch(boards, c)
  /\ UNCHANGED <<lifeVars, live, announced, counters, archive, claim, settleVars, fileVars>>

RevertTimesOut(p) ==
  /\ patch[p].stage = "reverting"
  /\ Move(p, "wedged")
  /\ UNCHANGED <<lifeVars, procVars, scoreVars, claim, settleVars, fileVars>>

PatchNext ==
  \E p \in Patches :
    \/ \E c \in Combatants : PatchCall(p, c) \/ PatchWriteFails(p, c)
    \/ \E d \in Difficulties : SmokeOk(p, d)
    \/ RestartHealthy(p) \/ RestartTimesOut(p) \/ SmokeBad(p)
    \/ RevertHealthy(p) \/ RevertTimesOut(p)
=============================================================================
