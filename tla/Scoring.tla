------------------------------- MODULE Scoring -------------------------------
(***************************************************************************)
(* The scoreboards of a match (packages/hostile_mesh_combat/scoring.py):   *)
(* five running totals per combatant and the list of deltas that explains  *)
(* them.  The counters hold points, not occurrences: a hard wound adds 3.  *)
(***************************************************************************)
EXTENDS Integers, Sequences, SequencesExt

Difficulty == {"easy", "medium", "hard"}

WoundBase  == [easy |-> 1, medium |-> 2, hard |-> 3]
WoundTaken == [easy |-> 1, medium |-> 2, hard |-> 3]
PatchBonus == [easy |-> 1, medium |-> 2, hard |-> 3]
FailedClaimPenalty == 1
PatchBreaksServicePenalty == 2

EntryKind == {"wound", "wound_taken", "patch", "patch_broke_service", "failed_claim"}

BreakdownEntry == [kind : EntryKind, delta : Int]

Scoreboard ==
  [wounds_inflicted : Nat, wounds_taken : Nat, patches_applied : Nat,
   patches_broken : Nat, failed_claims : Nat,
   breakdown : Seq(BreakdownEntry)]

NewScoreboard ==
  [wounds_inflicted |-> 0, wounds_taken |-> 0, patches_applied |-> 0,
   patches_broken |-> 0, failed_claims |-> 0, breakdown |-> <<>>]

Entry(k, d) == [kind |-> k, delta |-> d]

Inflict(b, d) ==
  [b EXCEPT !.wounds_inflicted = @ + WoundBase[d],
            !.breakdown = Append(@, Entry("wound", WoundBase[d]))]

Suffer(b, d) ==
  [b EXCEPT !.wounds_taken = @ + WoundTaken[d],
            !.breakdown = Append(@, Entry("wound_taken", -WoundTaken[d]))]

ApplyWound(boards, attacker, defender, d) ==
  [boards EXCEPT ![attacker] = Inflict(@, d), ![defender] = Suffer(@, d)]

Accept(b, d) ==
  [b EXCEPT !.patches_applied = @ + PatchBonus[d],
            !.breakdown = Append(@, Entry("patch", PatchBonus[d]))]

ApplyPatch(boards, agent, d) == [boards EXCEPT ![agent] = Accept(@, d)]

\* Mutant: a broken patch is taken off the accepted ones.
ApplyBrokenPatch_Deducts(boards, agent) ==
  [boards EXCEPT ![agent].patches_applied = @ - PatchBreaksServicePenalty]

Penalise(b) ==
  [b EXCEPT !.patches_broken = @ + PatchBreaksServicePenalty,
            !.breakdown = Append(@, Entry("patch_broke_service", -PatchBreaksServicePenalty))]

ApplyBrokenPatch(boards, agent) == [boards EXCEPT ![agent] = Penalise(@)]

\* Mutant: the penalty is subtracted from a counter that is subtracted itself.
ApplyFailedClaim_Credits(boards, agent) ==
  [boards EXCEPT ![agent].failed_claims = @ - FailedClaimPenalty]

FailClaim(b) ==
  [b EXCEPT !.failed_claims = @ + FailedClaimPenalty,
            !.breakdown = Append(@, Entry("failed_claim", -FailedClaimPenalty))]

ApplyFailedClaim(boards, agent) == [boards EXCEPT ![agent] = FailClaim(@)]
=============================================================================
