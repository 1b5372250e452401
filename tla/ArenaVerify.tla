----------------------------- MODULE ArenaVerify -----------------------------
(***************************************************************************)
(* verify_exploit: replay a claim against the defender's target, score it, *)
(* archive it under a name of its own, publish the scores.  What the       *)
(* replay shows (the bug module's verify, the signature) is a choice.      *)
(***************************************************************************)
EXTENDS ArenaState

Opponent(c) == CHOOSE o \in Combatants : o # c

\* The request arrives.  Nothing looks at the status of the match: a claim may
\* come before the timer fires, while the match is being shut down, or later.
VerifyCall(k, attacker) ==
  /\ claim[k].stage = "new"
  /\ start = "done" /\ server = "up"
  /\ claim' = [claim EXCEPT ![k].stage = "replay", ![k].by = attacker]
  /\ UNCHANGED <<lifeVars, procVars, scoreVars, settleVars, fileVars, patch>>

Kind(hit) == IF hit THEN "wound" ELSE "failed_claim"

\* Mutant: the index counts the claims of both kinds.
Index_Shared(kind) == counters["wound"] + 1

\* The index _record_event gives the next event of this kind.
Index(kind) == counters[kind] + 1

\* Mutant: the scores are published before the exploit is scored.
PublishScores_Stale == announced' = boards

\* combat.score_updated
PublishScores == announced' = boards'

Score(attacker, hit, d) ==
  boards' = IF hit THEN ApplyWound(boards, attacker, Opponent(attacker), d)
                   ELSE ApplyFailedClaim(boards, attacker)

\* Mutant: a target that does not answer keeps the replay waiting.
ReplayOver_Answered(k) == claim[k].stage = "replay" /\ Answers(Opponent(claim[k].by))

\* The target answered or the replay gave up.
ReplayOver(k) == claim[k].stage = "replay"

\* The replay is back: score, take an index, and go on to the archive.  With no
\* archive, or an unconfigured chain, nothing suspends before the end.
ReplayDone(k, hit, d) ==
  /\ ReplayOver(k)
  /\ Score(claim[k].by, hit, d)
  /\ archive' \in {archive, TRUE}
  /\ counters' = IF archive' THEN [counters EXCEPT ![Kind(hit)] = Index(Kind(hit))]
                             ELSE counters
  /\ \/ /\ archive' /\ ChainAvailable
        /\ claim' = [claim EXCEPT ![k].stage = "archive",
                                  ![k].name = <<Kind(hit), Index(Kind(hit))>>]
        /\ UNCHANGED announced
     \/ /\ ~(archive' /\ ChainAvailable)
        /\ claim' = [claim EXCEPT ![k].stage = "done"]
        /\ PublishScores
  /\ UNCHANGED <<lifeVars, procVars, settleVars, fileVars, patch>>

\* The subname and its records are written, or refused.
ArchiveReturns(k) ==
  /\ claim[k].stage = "archive"
  /\ claim' = [claim EXCEPT ![k].stage = "done"]
  /\ UNCHANGED <<boards, counters, archive>>
  /\ PublishScores
  /\ UNCHANGED <<lifeVars, procVars, settleVars, fileVars, patch>>

\* Waiting for a receipt raises: the claim is scored, the answer is an error.
ArchiveRaises(k) ==
  /\ claim[k].stage = "archive"
  /\ claim' = [claim EXCEPT ![k].stage = "raised"]
  /\ UNCHANGED <<lifeVars, procVars, scoreVars, settleVars, fileVars, patch>>

VerifyNext ==
  \E k \in Claims :
    \/ \E attacker \in Combatants : VerifyCall(k, attacker)
    \/ \E hit \in BOOLEAN, d \in Difficulties : ReplayDone(k, hit, d)
    \/ ArchiveReturns(k)
    \/ ArchiveRaises(k)
=============================================================================
