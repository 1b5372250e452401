---------------------------- MODULE Arena_proofs ----------------------------
(***************************************************************************)
(* Theorems about Arena: type correctness and the safety invariants that   *)
(* concern scores, names of archived events, announcements and payments,   *)
(* for any number of claims and patches.                                   *)
(*                                                                         *)
(* Each invariant has a lemma that it is inductive; the frame lemmas first *)
(* say which variables the three groups of handlers leave alone.           *)
(***************************************************************************)
EXTENDS Arena, TLAPS

-----------------------------------------------------------------------------
\* start_match and shutdown_match touch neither boards, claims nor modules.
LEMMA MatchFrame ==
  MatchNext => UNCHANGED <<boards, announced, counters, claim, fileVars, patch>>
<1> SUFFICES ASSUME MatchNext
             PROVE  UNCHANGED <<boards, announced, counters, claim, fileVars, patch>>
  OBVIOUS
<1>1. CASE StartMatch \/ FirstTargetHealthy \/ SecondTargetHealthy \/ TargetNeverHealthy
  BY <1>1 DEF StartMatch, FirstTargetHealthy, SecondTargetHealthy, TargetNeverHealthy, scoreVars
<1>2. CASE NodesReady \/ NodesFailed \/ AutoFinish
  BY <1>2 DEF NodesReady, NodesFailed, AutoFinish, Shutdown, scoreVars
<1>3. CASE StopServer \/ LifespanShutdown \/ Exit
  BY <1>3 DEF StopServer, LifespanShutdown, Shutdown, Exit, scoreVars
<1>4. CASE \E by \in Closer : CloseReturns(by) \/ CloseRaises(by) \/ SettlementDone(by)
  BY <1>4 DEF CloseReturns, CloseRaises, SettlementDone, scoreVars
<1>5. CASE \E t \in payments :
             PaymentFails(t) \/ PaymentSent(t) \/ PaymentRecorded(t) \/ PaymentLost(t)
  BY <1>5 DEF PaymentFails, PaymentSent, PaymentRecorded, PaymentLost, MovePayment, scoreVars
<1>6. CASE \E t \in live : TargetExits(t)
  BY <1>6 DEF TargetExits, scoreVars
<1> QED BY <1>1, <1>2, <1>3, <1>4, <1>5, <1>6 DEF MatchNext

\* verify_exploit touches neither the life cycle, processes nor payments.
LEMMA VerifyFrame ==
  VerifyNext => UNCHANGED <<lifeVars, procVars, settleVars, fileVars, patch>>
BY DEF VerifyNext, VerifyCall, ReplayDone, ArchiveReturns, ArchiveRaises

\* apply_patch touches neither the life cycle, claims nor payments.
LEMMA PatchFrame ==
  PatchNext => UNCHANGED <<lifeVars, counters, archive, claim, settleVars>>
<1> SUFFICES ASSUME NEW p \in Patches,
                    \/ \E c \in Combatants : PatchCall(p, c) \/ PatchWriteFails(p, c)
                    \/ \E d \in Difficulties : SmokeOk(p, d)
                    \/ RestartHealthy(p) \/ RestartTimesOut(p) \/ SmokeBad(p)
                    \/ RevertHealthy(p) \/ RevertTimesOut(p)
             PROVE  UNCHANGED <<lifeVars, counters, archive, claim, settleVars>>
  BY DEF PatchNext
<1>1. CASE \E c \in Combatants : PatchCall(p, c) \/ PatchWriteFails(p, c)
  BY <1>1 DEF PatchCall, PatchWriteFails, scoreVars
<1>2. CASE \E d \in Difficulties : SmokeOk(p, d)
  BY <1>2 DEF SmokeOk, scoreVars
<1>3. CASE RestartHealthy(p) \/ RestartTimesOut(p) \/ SmokeBad(p)
  BY <1>3 DEF RestartHealthy, RestartTimesOut, SmokeBad, scoreVars
<1>4. CASE RevertHealthy(p) \/ RevertTimesOut(p)
  BY <1>4 DEF RevertHealthy, RevertTimesOut, scoreVars
<1> QED BY <1>1, <1>2, <1>3, <1>4

-----------------------------------------------------------------------------
\* Two claims never get the same name: a name's index is between 1 and the
\* counter of its kind, which only grows, and who has no name yet takes the
\* next one.
NamesInv ==
  /\ counters \in [ClaimKind -> Nat]
  /\ claim \in [Claims -> ClaimState]
  /\ \A k \in Claims :
       claim[k].name # NoName =>
         /\ claim[k].name[1] \in ClaimKind
         /\ claim[k].name[2] \in 1 .. counters[claim[k].name[1]]
  /\ EventNamesUnique

LEMMA InitNamesInv == Init => NamesInv
BY DEF Init, NamesInv, ClaimKind, ClaimState, ClaimStage, NoName, Combatants, EventNamesUnique

LEMMA NextNamesInv == NamesInv /\ [Next]_vars => NamesInv'
<1> SUFFICES ASSUME NamesInv, [Next]_vars PROVE NamesInv' OBVIOUS
<1>0. ASSUME UNCHANGED <<claim, counters>> PROVE NamesInv'
  BY <1>0 DEF NamesInv, EventNamesUnique
<1>1. CASE MatchNext BY <1>0, <1>1, MatchFrame
<1>2. CASE PatchNext BY <1>0, <1>2, PatchFrame
<1>3. ASSUME NEW k \in Claims, NEW c \in Combatants, VerifyCall(k, c) PROVE NamesInv'
  <2>1. UNCHANGED counters /\ claim' = [claim EXCEPT ![k].stage = "replay", ![k].by = c]
    BY <1>3 DEF VerifyCall, scoreVars
  <2>2. \A j \in Claims : claim'[j].name = claim[j].name
    BY <2>1 DEF NamesInv, ClaimState
  <2>3. claim' \in [Claims -> ClaimState]
    BY <2>1 DEF NamesInv, ClaimState, ClaimStage
  <2> QED BY <2>1, <2>2, <2>3 DEF NamesInv, EventNamesUnique
<1>4. ASSUME NEW k \in Claims, ArchiveReturns(k) \/ ArchiveRaises(k) PROVE NamesInv'
  <2>1. UNCHANGED counters /\ \E s \in {"done", "raised"} : claim' = [claim EXCEPT ![k].stage = s]
    BY <1>4 DEF ArchiveReturns, ArchiveRaises, scoreVars
  <2>2. \A j \in Claims : claim'[j].name = claim[j].name
    BY <2>1 DEF NamesInv, ClaimState
  <2>3. claim' \in [Claims -> ClaimState]
    BY <2>1 DEF NamesInv, ClaimState, ClaimStage
  <2> QED BY <2>1, <2>2, <2>3 DEF NamesInv, EventNamesUnique
<1>5. ASSUME NEW k \in Claims, NEW hit \in BOOLEAN, NEW d \in Difficulties,
             ReplayDone(k, hit, d)
      PROVE  NamesInv'
  <2> DEFINE n == <<Kind(hit), Index(Kind(hit))>>
  <2>1. Kind(hit) \in ClaimKind BY DEF Kind, ClaimKind
  <2>2. Index(Kind(hit)) \in Nat /\ Index(Kind(hit)) = counters[Kind(hit)] + 1
    BY <2>1 DEF Index, NamesInv
  <2>3. CASE archive' /\ ChainAvailable
    <3>1. claim' = [claim EXCEPT ![k].stage = "archive", ![k].name = n]
          /\ counters' = [counters EXCEPT ![Kind(hit)] = Index(Kind(hit))]
      BY <1>5, <2>3 DEF ReplayDone
    <3>2. \A j \in Claims : claim'[j].name = IF j = k THEN n ELSE claim[j].name
      BY <3>1 DEF NamesInv, ClaimState
    <3>3. counters' \in [ClaimKind -> Nat] /\ claim' \in [Claims -> ClaimState]
      BY <3>1, <2>1, <2>2 DEF NamesInv, ClaimState, ClaimStage
    <3>4. \A kind \in ClaimKind : counters[kind] <= counters'[kind]
      BY <3>1, <2>1, <2>2 DEF NamesInv
    <3>5. counters'[Kind(hit)] = counters[Kind(hit)] + 1
      BY <3>1, <2>1, <2>2 DEF NamesInv
    <3>6. \A j \in Claims : claim[j].name # n
      BY <2>1, <2>2 DEF NamesInv, NoName
    <3> HIDE DEF n
    <3>7. n[1] = Kind(hit) /\ n[2] = counters[Kind(hit)] + 1
      BY <2>2 DEF n
    <3>8. \A j \in Claims : claim'[j].name # NoName =>
            /\ claim'[j].name[1] \in ClaimKind
            /\ claim'[j].name[2] \in 1 .. counters'[claim'[j].name[1]]
      BY <3>2, <3>3, <3>4, <3>5, <3>7, <2>1, <2>2 DEF NamesInv
    <3>9. EventNamesUnique'
      BY <3>2, <3>6 DEF NamesInv, EventNamesUnique
    <3> QED BY <3>3, <3>8, <3>9 DEF NamesInv
  <2>4. CASE ~(archive' /\ ChainAvailable)
    <3>1. claim' = [claim EXCEPT ![k].stage = "done"]
      BY <1>5, <2>4 DEF ReplayDone
    <3>2. counters' = counters \/ counters' = [counters EXCEPT ![Kind(hit)] = Index(Kind(hit))]
      BY <1>5 DEF ReplayDone
    <3>3. \A j \in Claims : claim'[j].name = claim[j].name
      BY <3>1 DEF NamesInv, ClaimState
    <3>4. counters' \in [ClaimKind -> Nat] /\ claim' \in [Claims -> ClaimState]
      BY <3>1, <3>2, <2>1, <2>2 DEF NamesInv, ClaimState, ClaimStage
    <3>5. \A kind \in ClaimKind : counters[kind] <= counters'[kind]
      BY <3>2, <2>1, <2>2 DEF NamesInv
    <3> QED BY <3>3, <3>4, <3>5 DEF NamesInv, EventNamesUnique
  <2> QED BY <2>3, <2>4
<1>6. CASE VerifyNext BY <1>3, <1>4, <1>5, <1>6 DEF VerifyNext
<1>7. CASE UNCHANGED vars BY <1>0, <1>7 DEF vars, scoreVars
<1> QED BY <1>1, <1>2, <1>6, <1>7 DEF Next

\* However the replays and the chain writes of claims overlap, no two of them
\* archive their event under one name (manager.py, _record_event).
THEOREM NamesAreUnique == Spec => []EventNamesUnique
<1>1. NamesInv => EventNamesUnique BY DEF NamesInv
<1> QED BY <1>1, InitNamesInv, NextNamesInv, PTL DEF Spec

-----------------------------------------------------------------------------
\* The scoring operations, for any set C of scoreboards.
Grown(b, n) ==
  /\ n.wounds_inflicted >= b.wounds_inflicted
  /\ n.patches_applied >= b.patches_applied
  /\ IsPrefix(b.breakdown, n.breakdown)

LEMMA LogGrows ==
  ASSUME NEW b \in Scoreboard, NEW e \in BreakdownEntry
  PROVE  Append(b.breakdown, e) \in Seq(BreakdownEntry)
         /\ IsPrefix(b.breakdown, Append(b.breakdown, e))
<1> DEFINE s == b.breakdown
<1>1. s \in Seq(BreakdownEntry) BY DEF Scoreboard
<1> HIDE DEF s
<1> QED BY <1>1 DEF IsPrefix, s

LEMMA GrownReflexive ==
  ASSUME NEW b \in Scoreboard PROVE Grown(b, b)
BY DEF Grown, Scoreboard, IsPrefix

LEMMA OneDelta ==
  ASSUME NEW b \in Scoreboard, NEW x \in Nat, NEW y \in Seq(BreakdownEntry)
  PROVE  /\ [b EXCEPT !.wounds_inflicted = x, !.breakdown = y] \in Scoreboard
         /\ [b EXCEPT !.wounds_taken = x, !.breakdown = y] \in Scoreboard
         /\ [b EXCEPT !.patches_applied = x, !.breakdown = y] \in Scoreboard
         /\ [b EXCEPT !.patches_broken = x, !.breakdown = y] \in Scoreboard
         /\ [b EXCEPT !.failed_claims = x, !.breakdown = y] \in Scoreboard
BY DEF Scoreboard

LEMMA InflictFacts ==
  ASSUME NEW b \in Scoreboard, NEW d \in Difficulty
  PROVE  /\ Inflict(b, d) \in Scoreboard /\ Grown(b, Inflict(b, d))
         /\ Inflict(b, d).wounds_inflicted = b.wounds_inflicted + WoundBase[d]
         /\ Inflict(b, d).wounds_taken = b.wounds_taken
<1> DEFINE e == Entry("wound", WoundBase[d])
           x == b.wounds_inflicted + WoundBase[d]
           y == Append(b.breakdown, e)
<1>1. WoundBase[d] \in Nat BY DEF WoundBase, Difficulty
<1>2. e \in BreakdownEntry BY <1>1 DEF Entry, EntryKind, BreakdownEntry
<1>3. y \in Seq(BreakdownEntry) /\ IsPrefix(b.breakdown, y) BY <1>2, LogGrows
<1>4. x \in Nat BY <1>1 DEF Scoreboard
<1>5. Inflict(b, d) = [b EXCEPT !.wounds_inflicted = x, !.breakdown = y]
  BY DEF Inflict
<1> HIDE DEF x, y
<1>6. Inflict(b, d) \in Scoreboard
  <2>1. [b EXCEPT !.wounds_inflicted = x, !.breakdown = y] \in Scoreboard BY <1>3, <1>4, OneDelta
  <2> QED BY <1>5, <2>1
<1> QED BY <1>1, <1>3, <1>5, <1>6 DEF Grown, Scoreboard, x

LEMMA SufferFacts ==
  ASSUME NEW b \in Scoreboard, NEW d \in Difficulty
  PROVE  /\ Suffer(b, d) \in Scoreboard /\ Grown(b, Suffer(b, d))
         /\ Suffer(b, d).wounds_inflicted = b.wounds_inflicted
         /\ Suffer(b, d).wounds_taken = b.wounds_taken + WoundBase[d]
<1> DEFINE e == Entry("wound_taken", -WoundTaken[d])
           x == b.wounds_taken + WoundTaken[d]
           y == Append(b.breakdown, e)
<1>1. WoundTaken[d] \in Nat /\ WoundTaken[d] = WoundBase[d] BY DEF WoundTaken, WoundBase, Difficulty
<1>2. e \in BreakdownEntry BY <1>1 DEF Entry, EntryKind, BreakdownEntry
<1>3. y \in Seq(BreakdownEntry) /\ IsPrefix(b.breakdown, y) BY <1>2, LogGrows
<1>4. x \in Nat BY <1>1 DEF Scoreboard
<1>5. Suffer(b, d) = [b EXCEPT !.wounds_taken = x, !.breakdown = y]
  BY DEF Suffer
<1> HIDE DEF x, y
<1>6. Suffer(b, d) \in Scoreboard
  <2>1. [b EXCEPT !.wounds_taken = x, !.breakdown = y] \in Scoreboard BY <1>3, <1>4, OneDelta
  <2> QED BY <1>5, <2>1
<1> QED BY <1>1, <1>3, <1>5, <1>6 DEF Grown, Scoreboard, x

LEMMA AcceptFacts ==
  ASSUME NEW b \in Scoreboard, NEW d \in Difficulty
  PROVE  /\ Accept(b, d) \in Scoreboard /\ Grown(b, Accept(b, d))
         /\ Accept(b, d).wounds_inflicted = b.wounds_inflicted
         /\ Accept(b, d).wounds_taken = b.wounds_taken
<1> DEFINE e == Entry("patch", PatchBonus[d])
           x == b.patches_applied + PatchBonus[d]
           y == Append(b.breakdown, e)
<1>1. PatchBonus[d] \in Nat BY DEF PatchBonus, Difficulty
<1>2. e \in BreakdownEntry BY <1>1 DEF Entry, EntryKind, BreakdownEntry
<1>3. y \in Seq(BreakdownEntry) /\ IsPrefix(b.breakdown, y) BY <1>2, LogGrows
<1>4. x \in Nat BY <1>1 DEF Scoreboard
<1>5. Accept(b, d) = [b EXCEPT !.patches_applied = x, !.breakdown = y]
  BY DEF Accept
<1> HIDE DEF x, y
<1>6. Accept(b, d) \in Scoreboard
  <2>1. [b EXCEPT !.patches_applied = x, !.breakdown = y] \in Scoreboard BY <1>3, <1>4, OneDelta
  <2> QED BY <1>5, <2>1
<1> QED BY <1>1, <1>3, <1>5, <1>6 DEF Grown, Scoreboard, x

LEMMA PenaliseFacts ==
  ASSUME NEW b \in Scoreboard
  PROVE  /\ Penalise(b) \in Scoreboard /\ Grown(b, Penalise(b))
         /\ Penalise(b).wounds_inflicted = b.wounds_inflicted
         /\ Penalise(b).wounds_taken = b.wounds_taken
<1> DEFINE e == Entry("patch_broke_service", -PatchBreaksServicePenalty)
           x == b.patches_broken + PatchBreaksServicePenalty
           y == Append(b.breakdown, e)
<1>1. PatchBreaksServicePenalty \in Nat BY DEF PatchBreaksServicePenalty
<1>2. e \in BreakdownEntry BY <1>1 DEF Entry, EntryKind, BreakdownEntry
<1>3. y \in Seq(BreakdownEntry) /\ IsPrefix(b.breakdown, y) BY <1>2, LogGrows
<1>4. x \in Nat BY <1>1 DEF Scoreboard
<1>5. Penalise(b) = [b EXCEPT !.patches_broken = x, !.breakdown = y]
  BY DEF Penalise
<1> HIDE DEF x, y
<1>6. Penalise(b) \in Scoreboard
  <2>1. [b EXCEPT !.patches_broken = x, !.breakdown = y] \in Scoreboard BY <1>3, <1>4, OneDelta
  <2> QED BY <1>5, <2>1
<1> QED BY <1>1, <1>3, <1>5, <1>6 DEF Grown, Scoreboard, x

LEMMA FailClaimFacts ==
  ASSUME NEW b \in Scoreboard
  PROVE  /\ FailClaim(b) \in Scoreboard /\ Grown(b, FailClaim(b))
         /\ FailClaim(b).wounds_inflicted = b.wounds_inflicted
         /\ FailClaim(b).wounds_taken = b.wounds_taken
<1> DEFINE e == Entry("failed_claim", -FailedClaimPenalty)
           x == b.failed_claims + FailedClaimPenalty
           y == Append(b.breakdown, e)
<1>1. FailedClaimPenalty \in Nat BY DEF FailedClaimPenalty
<1>2. e \in BreakdownEntry BY <1>1 DEF Entry, EntryKind, BreakdownEntry
<1>3. y \in Seq(BreakdownEntry) /\ IsPrefix(b.breakdown, y) BY <1>2, LogGrows
<1>4. x \in Nat BY <1>1 DEF Scoreboard
<1>5. FailClaim(b) = [b EXCEPT !.failed_claims = x, !.breakdown = y]
  BY DEF FailClaim
<1> HIDE DEF x, y
<1>6. FailClaim(b) \in Scoreboard
  <2>1. [b EXCEPT !.failed_claims = x, !.breakdown = y] \in Scoreboard BY <1>3, <1>4, OneDelta
  <2> QED BY <1>5, <2>1
<1> QED BY <1>1, <1>3, <1>5, <1>6 DEF Grown, Scoreboard, x

\* What one step of scoring does: every board grows, and the wounds of each
\* combatant grow by what its opponent's wounds taken grow by.
Scored(before, after) ==
  /\ after \in [Combatants -> Scoreboard]
  /\ \A c \in Combatants : Grown(before[c], after[c])
  /\ \A c \in Combatants :
       after[c].wounds_inflicted - before[c].wounds_inflicted
         = after[Opponent(c)].wounds_taken - before[Opponent(c)].wounds_taken

LEMMA OpponentFacts ==
  ASSUME NEW c \in Combatants
  PROVE  /\ Opponent(c) \in Combatants /\ Opponent(c) # c
         /\ \A o \in Combatants : o # c => o = Opponent(c)
<1>a. Chosen[1] # Chosen[2] BY ArenaAssumption
<1>1. \E o \in Combatants : o # c BY <1>a DEF Combatants
<1>2. Opponent(c) \in Combatants /\ Opponent(c) # c BY <1>1 DEF Opponent
<1> QED BY <1>2 DEF Combatants

LEMMA WoundScored ==
  ASSUME NEW b \in [Combatants -> Scoreboard], NEW a \in Combatants, NEW d \in Difficulty
  PROVE  Scored(b, ApplyWound(b, a, Opponent(a), d))
<1> DEFINE o == Opponent(a)
           n == ApplyWound(b, a, o, d)
<1>1. o \in Combatants /\ o # a /\ Opponent(o) = a /\ \A c \in Combatants : c \in {a, o}
  BY OpponentFacts
<1>2. n = [c \in Combatants |-> IF c = a THEN Inflict(b[c], d)
                                ELSE IF c = o THEN Suffer(b[c], d) ELSE b[c]]
  BY <1>1 DEF ApplyWound
<1>3. n[a] = Inflict(b[a], d) /\ n[o] = Suffer(b[o], d) BY <1>1, <1>2
<1>4. b[a] \in Scoreboard /\ b[o] \in Scoreboard BY <1>1
<1>5. /\ n[a] \in Scoreboard /\ Grown(b[a], n[a])
      /\ n[a].wounds_inflicted = b[a].wounds_inflicted + WoundBase[d]
      /\ n[a].wounds_taken = b[a].wounds_taken
  BY <1>3, <1>4, InflictFacts
<1>6. /\ n[o] \in Scoreboard /\ Grown(b[o], n[o])
      /\ n[o].wounds_inflicted = b[o].wounds_inflicted
      /\ n[o].wounds_taken = b[o].wounds_taken + WoundBase[d]
  BY <1>3, <1>4, SufferFacts
<1>7. WoundBase[d] \in Nat BY DEF WoundBase, Difficulty
<1>8. n \in [Combatants -> Scoreboard]
  <2>1. \A c \in Combatants : n[c] \in Scoreboard BY <1>1, <1>5, <1>6
  <2> QED BY <1>2, <2>1
<1> HIDE DEF n, o
<1>9. \A c \in Combatants : Grown(b[c], n[c]) BY <1>1, <1>5, <1>6
<1>10. n[a].wounds_inflicted - b[a].wounds_inflicted = n[o].wounds_taken - b[o].wounds_taken
  BY <1>4, <1>5, <1>6, <1>7 DEF Scoreboard
<1>11. n[o].wounds_inflicted - b[o].wounds_inflicted = n[a].wounds_taken - b[a].wounds_taken
  BY <1>4, <1>5, <1>6, <1>7 DEF Scoreboard
<1>12. \A c \in Combatants :
         n[c].wounds_inflicted - b[c].wounds_inflicted
           = n[Opponent(c)].wounds_taken - b[Opponent(c)].wounds_taken
  <2> SUFFICES ASSUME NEW c \in Combatants
               PROVE  n[c].wounds_inflicted - b[c].wounds_inflicted
                        = n[Opponent(c)].wounds_taken - b[Opponent(c)].wounds_taken
    OBVIOUS
  <2>1. CASE c = a BY <2>1, <1>10 DEF o
  <2>2. CASE c = o BY <2>2, <1>1, <1>11
  <2> QED BY <2>1, <2>2, <1>1
<1> QED BY <1>8, <1>9, <1>12 DEF Scored, n, o

\* The operations that concern one board leave all wounds alone.
LEMMA OneBoardScored ==
  ASSUME NEW b \in [Combatants -> Scoreboard], NEW a \in Combatants,
         NEW new \in Scoreboard, Grown(b[a], new),
         new.wounds_inflicted = b[a].wounds_inflicted,
         new.wounds_taken = b[a].wounds_taken
  PROVE  Scored(b, [b EXCEPT ![a] = new])
<1> DEFINE n == [b EXCEPT ![a] = new]
<1>1. n \in [Combatants -> Scoreboard] OBVIOUS
<1>2. \A c \in Combatants : Grown(b[c], n[c]) BY GrownReflexive
<1>3. \A c \in Combatants : /\ n[c].wounds_inflicted = b[c].wounds_inflicted
                            /\ n[c].wounds_taken = b[c].wounds_taken
  OBVIOUS
<1>4. \A c \in Combatants : b[c].wounds_inflicted \in Nat /\ b[c].wounds_taken \in Nat
  BY DEF Scoreboard
<1> HIDE DEF n
<1>5. \A c \in Combatants :
        n[c].wounds_inflicted - b[c].wounds_inflicted
          = n[Opponent(c)].wounds_taken - b[Opponent(c)].wounds_taken
  BY <1>3, <1>4, OpponentFacts
<1> QED BY <1>1, <1>2, <1>5 DEF Scored, n

LEMMA PatchScored ==
  ASSUME NEW b \in [Combatants -> Scoreboard], NEW a \in Combatants, NEW d \in Difficulty
  PROVE  Scored(b, ApplyPatch(b, a, d))
BY AcceptFacts, OneBoardScored DEF ApplyPatch

LEMMA BrokenPatchScored ==
  ASSUME NEW b \in [Combatants -> Scoreboard], NEW a \in Combatants
  PROVE  Scored(b, ApplyBrokenPatch(b, a))
BY PenaliseFacts, OneBoardScored DEF ApplyBrokenPatch

LEMMA FailedClaimScored ==
  ASSUME NEW b \in [Combatants -> Scoreboard], NEW a \in Combatants
  PROVE  Scored(b, ApplyFailedClaim(b, a))
BY FailClaimFacts, OneBoardScored DEF ApplyFailedClaim

LEMMA NothingScored ==
  ASSUME NEW b \in [Combatants -> Scoreboard] PROVE Scored(b, b)
<1>1. \A c \in Combatants : b[c].wounds_inflicted \in Nat /\ b[c].wounds_taken \in Nat
  BY DEF Scoreboard
<1> QED BY <1>1, GrownReflexive, OpponentFacts DEF Scored

-----------------------------------------------------------------------------
\* Type correctness.
LEMMA PayoutTasksType ==
  ASSUME TypeOK, NEW by \in Closer PROVE PayoutTasks(by) \subseteq Payment
<1>1. \A c \in Combatants : boards[c].wounds_inflicted \in Nat /\ boards[c].patches_applied \in Nat
  BY DEF TypeOK, ScoreType, Scoreboard
<1>2. \A c \in Combatants, b \in Bounty : Points(c, b) \in Nat
  BY <1>1 DEF Points
<1> QED BY <1>2 DEF PayoutTasks, Payment, PaymentStage

LEMMA PersistType ==
  ASSUME TypeOK, Persist PROVE disk'.payouts \subseteq Payment
BY DEF TypeOK, SettleType, Persist, Snapshot, Recorded

LEMMA SettleTypes ==
  ASSUME TypeOK, NEW by \in Closer, Settle(by) PROVE SettleType'
<1>1. payments' \subseteq Payment
  BY PayoutTasksType DEF Settle, TypeOK, SettleType
<1>2. shut' \in [Closer -> ShutStage]
  BY DEF Settle, TypeOK, SettleType, ShutStage
<1>3. disk'.payouts \subseteq Payment
  BY PersistType DEF Settle, TypeOK, SettleType
<1> QED BY <1>1, <1>2, <1>3 DEF SettleType

LEMMA ShutdownTypes ==
  ASSUME TypeOK, NEW by \in Closer, NEW lifecycle \in Seq(LifecycleEvent),
         Shutdown(by, lifecycle)
  PROVE  /\ status' \in MatchStatus /\ history' \in Seq(LifecycleEvent)
         /\ ProcType' /\ SettleType' /\ UNCHANGED archive
<1>1. status' \in MatchStatus BY DEF Shutdown, MatchStatus
<1>2. history' \in Seq(LifecycleEvent)
  <2>1. history \in Seq(LifecycleEvent) /\ <<"finished">> \in Seq(LifecycleEvent)
    BY DEF TypeOK, LifeType, LifecycleEvent
  <2> QED BY <2>1 DEF Shutdown
<1>3. ProcType' BY DEF Shutdown, Survivors, TypeOK, ProcType
<1>4. SettleType'
  <2>1. CASE ~archive
    BY <2>1, PersistType DEF Shutdown, TypeOK, SettleType, ShutStage
  <2>2. CASE archive /\ ~ChainAvailable
    BY <2>2, SettleTypes DEF Shutdown
  <2>3. CASE archive /\ ChainAvailable
    BY <2>3 DEF Shutdown, TypeOK, SettleType, ShutStage
  <2>4. archive \in BOOLEAN BY DEF TypeOK, ScoreType
  <2> QED BY <2>1, <2>2, <2>3, <2>4
<1> QED BY <1>1, <1>2, <1>3, <1>4 DEF Shutdown, scoreVars

LEMMA TargetsAreProcesses ==
  /\ \A c \in Combatants : Target(c) \in Process
  /\ Mesh \in Process /\ Agents \in Process
  /\ \A c \in Combatants, p \in Patches :
       PatchedTarget(c, p) \in Process /\ RevertedTarget(c, p) \in Process
BY DEF Target, Mesh, Agents, PatchedTarget, RevertedTarget, Process

\* start_match, shutdown_match, settlement and the end of the process.
MatchTypes == LifeType /\ ProcType /\ SettleType /\ archive \in BOOLEAN

LEMMA StartTypes ==
  ASSUME TypeOK,
         \/ StartMatch \/ FirstTargetHealthy \/ SecondTargetHealthy
         \/ TargetNeverHealthy \/ NodesReady \/ StopServer
  PROVE  MatchTypes'
<1>1. Chosen[1] \in Combatants /\ Chosen[2] \in Combatants BY DEF Combatants
<1>2. \A e \in LifecycleEvent : Append(history, e) \in Seq(LifecycleEvent)
  BY DEF TypeOK, LifeType
<1>3. CASE StartMatch
  BY <1>1, <1>2, <1>3, TargetsAreProcesses
  DEF StartMatch, TypeOK, MatchTypes, LifeType, ProcType, SettleType,
      ScoreType, StartStage, MatchStatus, LifecycleEvent, settleVars, scoreVars
<1>6. CASE FirstTargetHealthy
  BY <1>1, <1>6, TargetsAreProcesses
  DEF FirstTargetHealthy, TypeOK, MatchTypes, LifeType, ProcType, SettleType, ScoreType,
      settleVars, scoreVars
<1>4. CASE SecondTargetHealthy \/ TargetNeverHealthy \/ StopServer
  BY <1>1, <1>2, <1>4, TargetsAreProcesses
  DEF SecondTargetHealthy, TargetNeverHealthy, StopServer, TypeOK, MatchTypes, LifeType,
      ProcType, SettleType, ScoreType, StartStage, settleVars, scoreVars, procVars
<1>5. CASE NodesReady
  BY <1>2, <1>5, TargetsAreProcesses
  DEF NodesReady, TypeOK, MatchTypes, LifeType, ProcType, SettleType, ScoreType,
      StartStage, MatchStatus, LifecycleEvent, settleVars
<1> QED BY <1>3, <1>4, <1>5, <1>6

LEMMA ShutTypes ==
  ASSUME TypeOK, NodesFailed \/ AutoFinish \/ LifespanShutdown
  PROVE  MatchTypes'
<1>1. <<>> \in Seq(LifecycleEvent) /\ <<"aborted">> \in Seq(LifecycleEvent)
  BY DEF LifecycleEvent
<1>2. CASE NodesFailed
  BY <1>1, <1>2, ShutdownTypes
  DEF NodesFailed, TypeOK, MatchTypes, LifeType, ScoreType, StartStage, Closer
<1>3. CASE AutoFinish /\ StillRunning
  BY <1>1, <1>3, ShutdownTypes
  DEF AutoFinish, TypeOK, MatchTypes, LifeType, ScoreType, Closer
<1>4. CASE AutoFinish /\ ~StillRunning
  BY <1>4 DEF AutoFinish, TypeOK, MatchTypes, LifeType, ProcType, SettleType, ScoreType,
              procVars, scoreVars, settleVars
<1>5. CASE LifespanShutdown
  BY <1>1, <1>5, ShutdownTypes
  DEF LifespanShutdown, TypeOK, MatchTypes, LifeType, ScoreType, Closer
<1> QED BY <1>2, <1>3, <1>4, <1>5

LEMMA SettlementTypes ==
  ASSUME TypeOK, NEW by \in Closer, CloseReturns(by) \/ CloseRaises(by) \/ SettlementDone(by)
  PROVE  MatchTypes'
<1>1. LifeType' /\ ProcType' /\ archive' \in BOOLEAN
  BY DEF CloseReturns, CloseRaises, SettlementDone, TypeOK, LifeType, ProcType, ScoreType,
         lifeVars, procVars, scoreVars
<1>2. CASE CloseReturns(by)
  <2>1. SettleType' BY <1>2, SettleTypes DEF CloseReturns
  <2> QED BY <1>1, <2>1 DEF MatchTypes
<1>3. CASE CloseRaises(by) \/ SettlementDone(by)
  <2>1. SettleType'
    BY <1>3, PersistType DEF CloseRaises, SettlementDone, TypeOK, SettleType, ShutStage
  <2> QED BY <1>1, <2>1 DEF MatchTypes
<1> QED BY <1>2, <1>3

LEMMA PaymentStages ==
  ASSUME NEW t \in Payment, NEW s \in PaymentStage
  PROVE  [t EXCEPT !.stage = s] \in Payment
BY DEF Payment

LEMMA PaymentTypes ==
  ASSUME TypeOK, NEW t \in payments,
         PaymentFails(t) \/ PaymentSent(t) \/ PaymentRecorded(t) \/ PaymentLost(t)
  PROVE  MatchTypes'
<1>1. PICK s \in PaymentStage : MovePayment(t, s)
  BY DEF PaymentFails, PaymentSent, PaymentRecorded, PaymentLost, PaymentStage
<1>2. t \in Payment BY DEF TypeOK, SettleType
<1>3. [t EXCEPT !.stage = s] \in Payment BY <1>2, PaymentStages
<1> QED
  BY <1>1, <1>3 DEF MovePayment, TypeOK, MatchTypes, LifeType, ProcType, SettleType, ScoreType,
                    lifeVars, procVars, scoreVars

LEMMA ExitTypes ==
  ASSUME TypeOK, Exit PROVE MatchTypes'
<1>1. PICK late : payments' =
        {CASE t.stage = "sent" \/ t \in late -> [t EXCEPT !.stage = "lost"]
           [] t.stage = "pending" /\ t \notin late -> [t EXCEPT !.stage = "failed"]
           [] OTHER -> t : t \in payments}
  BY DEF Exit
<1>2. \A t \in payments :
        [t EXCEPT !.stage = "lost"] \in Payment /\ [t EXCEPT !.stage = "failed"] \in Payment
  BY PaymentStages DEF TypeOK, SettleType, PaymentStage
<1>3. payments' \subseteq Payment
  BY <1>1, <1>2 DEF TypeOK, SettleType
<1>4. shut' \in [Closer -> ShutStage]
  BY DEF Exit, TypeOK, SettleType, ShutStage
<1> QED
  BY <1>3, <1>4 DEF Exit, TypeOK, MatchTypes, LifeType, ProcType, SettleType, ScoreType,
                    procVars, scoreVars

LEMMA MatchNextTypes ==
  ASSUME TypeOK, MatchNext PROVE MatchTypes'
<1>1. ASSUME NEW t \in live, TargetExits(t) PROVE MatchTypes'
  BY <1>1 DEF TargetExits, TypeOK, MatchTypes, LifeType, ProcType, SettleType, ScoreType,
              lifeVars, scoreVars, settleVars
<1> QED BY <1>1, StartTypes, ShutTypes, SettlementTypes, PaymentTypes, ExitTypes DEF MatchNext

\* What a step does to the boards: it scores once or not at all, and publishes
\* the boards it found or the ones it leaves.
LEMMA ScoreStep ==
  ASSUME TypeOK, [Next]_vars
  PROVE  Scored(boards, boards') /\ announced' \in {announced, boards'}
<1> DEFINE Goal == Scored(boards, boards') /\ announced' \in {announced, boards'}
<1>a. boards \in [Combatants -> Scoreboard] BY DEF TypeOK, ScoreType
<1>b. Difficulties \subseteq Difficulty BY ArenaAssumption
<1>0. ASSUME UNCHANGED boards, announced' \in {announced, boards'} PROVE Goal
  BY <1>0, <1>a, NothingScored
<1>1. CASE MatchNext BY <1>0, <1>1, MatchFrame
<1>2. ASSUME NEW k \in Claims, NEW hit \in BOOLEAN, NEW d \in Difficulties, ReplayDone(k, hit, d)
      PROVE  Goal
  <2>1. announced' \in {announced, boards'} BY <1>2 DEF ReplayDone, PublishScores
  <2>2. claim[k].by \in Combatants BY DEF TypeOK, ClaimState
  <2>3. Score(claim[k].by, hit, d) BY <1>2 DEF ReplayDone
  <2>4. d \in Difficulty BY <1>b
  <2>5. Scored(boards, boards')
    BY <2>2, <2>3, <2>4, <1>a, WoundScored, FailedClaimScored DEF Score
  <2> QED BY <2>1, <2>5
<1>3. CASE VerifyNext
  <2>1. ASSUME NEW k \in Claims, NEW c \in Combatants, VerifyCall(k, c) PROVE Goal
    BY <1>0, <2>1 DEF VerifyCall, scoreVars
  <2>2. ASSUME NEW k \in Claims, ArchiveReturns(k) \/ ArchiveRaises(k) PROVE Goal
    BY <1>0, <2>2 DEF ArchiveReturns, ArchiveRaises, PublishScores, scoreVars
  <2> QED BY <1>2, <1>3, <2>1, <2>2 DEF VerifyNext
<1>4. CASE PatchNext
  <2>1. \A p \in Patches : patch[p].of \in Combatants BY DEF TypeOK, PatchState
  <2>2. ASSUME NEW p \in Patches, NEW d \in Difficulties, SmokeOk(p, d) PROVE Goal
    <3>1. boards' = ApplyPatch(boards, patch[p].of, d) /\ announced' = boards'
      BY <2>2 DEF SmokeOk
    <3> QED BY <3>1, <2>1, <1>a, <1>b, PatchScored
  <2>3. ASSUME NEW p \in Patches, RevertHealthy(p) PROVE Goal
    <3>1. boards' = ApplyBrokenPatch(boards, patch[p].of) /\ announced' = announced
      BY <2>3 DEF RevertHealthy
    <3> QED BY <3>1, <2>1, <1>a, BrokenPatchScored
  <2>4. ASSUME NEW p \in Patches, NEW c \in Combatants, PatchCall(p, c) \/ PatchWriteFails(p, c)
        PROVE  Goal
    BY <1>0, <2>4 DEF PatchCall, PatchWriteFails, scoreVars
  <2>5. ASSUME NEW p \in Patches,
               \/ RestartHealthy(p) \/ RestartTimesOut(p) \/ SmokeBad(p) \/ RevertTimesOut(p)
        PROVE  Goal
    BY <1>0, <2>5 DEF RestartHealthy, RestartTimesOut, SmokeBad, RevertTimesOut, scoreVars
  <2> QED BY <1>4, <2>2, <2>3, <2>4, <2>5 DEF PatchNext
<1>5. CASE UNCHANGED vars BY <1>0, <1>5 DEF vars, scoreVars
<1> QED BY <1>1, <1>3, <1>4, <1>5 DEF Next

LEMMA VerifyNextTypes ==
  ASSUME TypeOK, VerifyNext
  PROVE  /\ claim' \in [Claims -> ClaimState]
         /\ counters' \in [ClaimKind -> Nat] /\ archive' \in BOOLEAN
<1> DEFINE Goal == /\ claim' \in [Claims -> ClaimState]
                   /\ counters' \in [ClaimKind -> Nat] /\ archive' \in BOOLEAN
<1>1. /\ claim \in [Claims -> ClaimState]
      /\ counters \in [ClaimKind -> Nat] /\ archive \in BOOLEAN
  BY DEF TypeOK, ScoreType
<1>2. ASSUME NEW k \in Claims, NEW c \in Combatants, VerifyCall(k, c) PROVE Goal
  BY <1>1, <1>2 DEF VerifyCall, ClaimState, ClaimStage, scoreVars
<1>3. ASSUME NEW k \in Claims, ArchiveReturns(k) \/ ArchiveRaises(k) PROVE Goal
  BY <1>1, <1>3 DEF ArchiveReturns, ArchiveRaises, ClaimState, ClaimStage, scoreVars
<1>4. ASSUME NEW k \in Claims, NEW hit \in BOOLEAN, NEW d \in Difficulties, ReplayDone(k, hit, d)
      PROVE  Goal
  <2>1. Kind(hit) \in ClaimKind BY DEF Kind, ClaimKind
  <2>2. Index(Kind(hit)) \in Nat BY <1>1, <2>1 DEF Index
  <2>3. archive' \in BOOLEAN BY <1>1, <1>4 DEF ReplayDone
  <2>4. counters' \in [ClaimKind -> Nat]
    <3>1. \/ counters' = [counters EXCEPT ![Kind(hit)] = Index(Kind(hit))]
          \/ counters' = counters
      BY <1>4, <2>3 DEF ReplayDone
    <3> QED BY <3>1, <1>1, <2>1, <2>2
  <2>5. claim' \in [Claims -> ClaimState]
    <3>1. \/ claim' = [claim EXCEPT ![k].stage = "archive",
                                    ![k].name = <<Kind(hit), Index(Kind(hit))>>]
          \/ claim' = [claim EXCEPT ![k].stage = "done"]
      BY <1>4 DEF ReplayDone
    <3> QED BY <3>1, <1>1, <2>1, <2>2 DEF ClaimState, ClaimStage
  <2> QED BY <2>3, <2>4, <2>5
<1> QED BY <1>2, <1>3, <1>4 DEF VerifyNext

LEMMA PatchNextTypes ==
  ASSUME TypeOK, PatchNext
  PROVE  ProcType' /\ FileType' /\ patch' \in [Patches -> PatchState]
<1> DEFINE Goal == ProcType' /\ FileType' /\ patch' \in [Patches -> PatchState]
<1>1. /\ live \subseteq Process /\ registered \subseteq Process
      /\ file \in [Combatants -> Module] /\ backup \in [Combatants -> Module \cup {NoFile}]
      /\ overlapped \subseteq Combatants /\ patch \in [Patches -> PatchState]
  BY DEF TypeOK, ProcType, FileType
<1>2. \A p \in Patches : patch[p].of \in Combatants BY <1>1 DEF PatchState
<1>3. \A p \in Patches, s \in PatchStage :
        Move(p, s) => patch' \in [Patches -> PatchState]
  BY <1>1 DEF Move, PatchState
<1>4. ASSUME NEW p \in Patches, NEW c \in Combatants, PatchCall(p, c) PROVE Goal
  <2>1. patch' \in [Patches -> PatchState]
    BY <1>1, <1>4 DEF PatchCall, PatchState, PatchStage
  <2>2. ProcType'
    BY <1>1, <1>4, TargetsAreProcesses DEF PatchCall, Respawn, ProcType
  <2>3. Append(file[c], p) \in Module /\ file[c] \in Module BY <1>1 DEF Module
  <2>4. FileType' BY <1>1, <1>4, <2>3 DEF PatchCall, MayCall, Original, FileType
  <2> QED BY <2>1, <2>2, <2>4
<1>5. ASSUME NEW p \in Patches, NEW c \in Combatants, PatchWriteFails(p, c) PROVE Goal
  <2>1. patch' \in [Patches -> PatchState]
    BY <1>1, <1>5 DEF PatchWriteFails, PatchState, PatchStage
  <2>2. ProcType' BY <1>1, <1>5 DEF PatchWriteFails, procVars, ProcType
  <2>3. FileType' BY <1>1, <1>5 DEF PatchWriteFails, MayCall, FileType
  <2> QED BY <2>1, <2>2, <2>3
<1>6. ASSUME NEW p \in Patches, Revert(p), registered' \subseteq Process PROVE Goal
  <2>1. CASE backup[patch[p].of] # NoFile
    <3>1. patch' \in [Patches -> PatchState]
      BY <1>3, <1>6, <2>1 DEF Revert, PatchStage
    <3>2. ProcType'
      BY <1>1, <1>2, <1>6, <2>1, TargetsAreProcesses DEF Revert, ProcType
    <3>3. backup[patch[p].of] \in Module BY <1>1, <1>2, <2>1
    <3>4. Restore(patch[p].of) BY <1>6, <2>1 DEF Revert
    <3>5. FileType' BY <1>1, <1>2, <3>3, <3>4 DEF Restore, FileType
    <3> QED BY <3>1, <3>2, <3>5
  <2>2. CASE backup[patch[p].of] = NoFile
    <3>1. Move(p, "lost") /\ UNCHANGED <<fileVars, live>>
      BY <1>6, <2>2 DEF Revert
    <3> QED BY <1>1, <1>3, <1>6, <3>1 DEF PatchStage, ProcType, FileType, fileVars
  <2> QED BY <2>1, <2>2
<1>7. ASSUME NEW p \in Patches, RestartHealthy(p) PROVE Goal
  <2>1. registered' \subseteq Process
    BY <1>1, <1>2, <1>7, TargetsAreProcesses DEF RestartHealthy, Registered
  <2>2. \/ Move(p, "smoke") /\ UNCHANGED <<fileVars, live>>
        \/ Revert(p)
    BY <1>7 DEF RestartHealthy
  <2> QED BY <1>1, <1>3, <1>6, <2>1, <2>2 DEF PatchStage, ProcType, FileType, fileVars
<1>8. ASSUME NEW p \in Patches, SmokeBad(p) PROVE Goal
  BY <1>1, <1>6, <1>8 DEF SmokeBad
<1>9. ASSUME NEW p \in Patches, NEW d \in Difficulties, SmokeOk(p, d) PROVE Goal
  <2>1. Move(p, "applied") /\ UNCHANGED <<procVars, file, overlapped>>
        /\ backup' = [backup EXCEPT ![patch[p].of] = NoFile]
    BY <1>9 DEF SmokeOk
  <2> QED BY <1>1, <1>2, <1>3, <2>1 DEF PatchStage, ProcType, FileType, procVars
<1>10. ASSUME NEW p \in Patches, RevertHealthy(p) PROVE Goal
  <2>1. Move(p, "broke") /\ UNCHANGED <<live, fileVars>>
        /\ registered' = Registered(patch[p].of, RevertedTarget(patch[p].of, p))
    BY <1>10 DEF RevertHealthy
  <2>2. registered' \subseteq Process BY <1>1, <1>2, <2>1, TargetsAreProcesses DEF Registered
  <2> QED BY <1>1, <1>3, <2>1, <2>2 DEF PatchStage, ProcType, FileType, fileVars
<1>11. ASSUME NEW p \in Patches, RestartTimesOut(p) \/ RevertTimesOut(p) PROVE Goal
  <2>1. /\ Move(p, "timedout") \/ Move(p, "wedged")
        /\ UNCHANGED <<procVars, fileVars>>
    BY <1>11 DEF RestartTimesOut, RevertTimesOut
  <2> QED BY <1>1, <1>3, <2>1 DEF PatchStage, ProcType, FileType, procVars, fileVars
<1> QED BY <1>4, <1>5, <1>7, <1>8, <1>9, <1>10, <1>11 DEF PatchNext

LEMMA InitTypeOK == Init => TypeOK
<1> SUFFICES ASSUME Init PROVE TypeOK OBVIOUS
<1>1. Chosen[1] \in Combatants BY DEF Combatants
<1>2. NewScoreboard \in Scoreboard
  <2>1. <<>> \in Seq(BreakdownEntry) OBVIOUS
  <2> QED BY <2>1 DEF NewScoreboard, Scoreboard
<1>3. LifeType /\ ProcType
  BY DEF Init, LifeType, ProcType, StartStage, MatchStatus
<1>4. ScoreType BY <1>2 DEF Init, ScoreType
<1>5. SettleType BY DEF Init, SettleType, ShutStage, NoSnapshot
<1>6. FileType
  <2>1. <<>> \in Module BY DEF Module
  <2> QED BY <2>1 DEF Init, FileType
<1>7. claim \in [Claims -> ClaimState] /\ patch \in [Patches -> PatchState]
  BY <1>1 DEF Init, ClaimState, ClaimStage, PatchState, PatchStage
<1> QED BY <1>3, <1>4, <1>5, <1>6, <1>7 DEF TypeOK

LEMMA NextTypeOK == TypeOK /\ [Next]_vars => TypeOK'
<1> SUFFICES ASSUME TypeOK, [Next]_vars PROVE TypeOK' OBVIOUS
<1>1. boards' \in [Combatants -> Scoreboard] /\ announced' \in [Combatants -> Scoreboard]
  BY ScoreStep DEF Scored, TypeOK, ScoreType
<1>2. CASE MatchNext
  BY <1>1, <1>2, MatchFrame, MatchNextTypes
  DEF MatchTypes, TypeOK, ScoreType, FileType, fileVars
<1>3. CASE VerifyNext
  BY <1>1, <1>3, VerifyFrame, VerifyNextTypes
  DEF TypeOK, LifeType, ProcType, ScoreType, SettleType, FileType,
      lifeVars, procVars, settleVars, fileVars
<1>4. CASE PatchNext
  BY <1>1, <1>4, PatchFrame, PatchNextTypes
  DEF TypeOK, LifeType, ScoreType, SettleType, lifeVars, settleVars
<1>5. CASE UNCHANGED vars
  BY <1>5 DEF vars, lifeVars, procVars, scoreVars, settleVars, fileVars,
              TypeOK, LifeType, ProcType, ScoreType, SettleType, FileType
<1> QED BY <1>2, <1>3, <1>4, <1>5 DEF Next

\* Every variable keeps its type: in particular no counter of a scoreboard and
\* no payment is ever negative (scoring.py, manager.py).
THEOREM TypesHold == Spec => []TypeOK
BY InitTypeOK, NextTypeOK, PTL DEF Spec

\* What one combatant inflicted is what the other one took, in every state
\* (scoring.py, apply_wound called from verify_exploit).
THEOREM WoundsAreMirrored == Spec => []MirroredWounds
<1>1. Init => MirroredWounds
  BY OpponentFacts DEF Init, MirroredWounds, NewScoreboard
<1>2. TypeOK /\ MirroredWounds /\ [Next]_vars => MirroredWounds'
  <2> SUFFICES ASSUME TypeOK, MirroredWounds, [Next]_vars, NEW c \in Combatants
               PROVE  boards'[c].wounds_inflicted = boards'[Opponent(c)].wounds_taken
    BY DEF MirroredWounds
  <2>1. Scored(boards, boards') BY ScoreStep
  <2>2. Opponent(c) \in Combatants BY OpponentFacts
  <2>3. /\ boards[c].wounds_inflicted \in Nat /\ boards'[c].wounds_inflicted \in Nat
        /\ boards[Opponent(c)].wounds_taken \in Nat /\ boards'[Opponent(c)].wounds_taken \in Nat
    BY <2>1, <2>2 DEF Scored, TypeOK, ScoreType, Scoreboard
  <2>4. boards[c].wounds_inflicted = boards[Opponent(c)].wounds_taken
    BY DEF MirroredWounds
  <2>5. boards'[c].wounds_inflicted - boards[c].wounds_inflicted
          = boards'[Opponent(c)].wounds_taken - boards[Opponent(c)].wounds_taken
    BY <2>1 DEF Scored
  <2> QED BY <2>3, <2>4, <2>5
<1> QED BY <1>1, <1>2, TypesHold, PTL DEF Spec

\* No step takes points away or rewrites a breakdown: a claim, a patch, a
\* settlement or a second shutdown only adds (scoring.py).
THEOREM PointsOnlyGrow == Spec => ScoresOnlyGrow
<1>1. TypeOK /\ [Next]_vars =>
        [\A c \in Combatants :
           /\ boards'[c].wounds_inflicted >= boards[c].wounds_inflicted
           /\ boards'[c].patches_applied >= boards[c].patches_applied
           /\ IsPrefix(boards[c].breakdown, boards'[c].breakdown)]_vars
  BY ScoreStep DEF Scored, Grown
<1> QED BY <1>1, TypesHold, PTL DEF Spec, ScoresOnlyGrow

-----------------------------------------------------------------------------
\* The life cycle.  LifecycleOrder alone is not inductive: that an appended
\* "started" or "aborted" comes second follows from where start_match is, and
\* that "finished" never comes first from who may call shutdown_match.
LifeInv ==
  /\ LifecycleOrder
  /\ start = "idle" => Len(history) = 0 /\ status = "absent"
  /\ start \in {"targets", "nodes"} => Len(history) = 1
  /\ start \in {"done", "failed"} => Len(history) >= 1
  /\ timer = "set" => start = "done"

Ordered(h) ==
  /\ h \in Seq(LifecycleEvent)
  /\ \A i \in 1 .. Len(h) :
       /\ h[i] = "opening" <=> i = 1
       /\ h[i] = "started" => i = 2
       /\ h[i] = "aborted" => i = 2

\* Appending one event keeps the order, if the event fits its place.
LEMMA AppendEvent ==
  ASSUME NEW g, Ordered(g), NEW e \in LifecycleEvent,
         e = "opening" <=> Len(g) = 0,
         e \in {"started", "aborted"} => Len(g) = 1
  PROVE  Ordered(Append(g, e)) /\ Len(Append(g, e)) = Len(g) + 1
<1> DEFINE h == Append(g, e)
<1>1. g \in Seq(LifecycleEvent) /\ Len(g) \in Nat BY DEF Ordered
<1>2. h \in Seq(LifecycleEvent) /\ Len(h) = Len(g) + 1 BY <1>1
<1>3. h[Len(g) + 1] = e BY <1>1
<1>4. \A i \in 1 .. Len(g) : h[i] = g[i] BY <1>1
<1> HIDE DEF h
<1>5. ASSUME NEW i \in 1 .. Len(h)
      PROVE  /\ h[i] = "opening" <=> i = 1
             /\ h[i] = "started" => i = 2
             /\ h[i] = "aborted" => i = 2
  <2>1. CASE i \in 1 .. Len(g) BY <2>1, <1>4 DEF Ordered
  <2>2. CASE i = Len(g) + 1
    <3>1. h[i] = e BY <1>3, <2>2
    <3>2. ASSUME NEW n \in Nat, i = n + 1 PROVE (i = 1 <=> n = 0) /\ (n = 1 => i = 2)
      BY <3>2
    <3>3. (i = 1 <=> Len(g) = 0) /\ (Len(g) = 1 => i = 2) BY <1>1, <2>2, <3>2
    <3> QED BY <3>1, <3>3
  <2> QED BY <1>1, <1>2, <2>1, <2>2
<1> QED BY <1>2, <1>5 DEF Ordered, h

LEMMA AppendOpening ==
  ASSUME NEW g, Ordered(g), Len(g) = 0
  PROVE  Ordered(Append(g, "opening")) /\ Len(Append(g, "opening")) = 1
<1> DEFINE e == "opening"
<1>1. e \in LifecycleEvent BY DEF LifecycleEvent
<1>2. e = "opening" <=> Len(g) = 0 OBVIOUS
<1>3. e \in {"started", "aborted"} => Len(g) = 1 OBVIOUS
<1> HIDE DEF e
<1>4. Ordered(Append(g, e)) /\ Len(Append(g, e)) = Len(g) + 1
  BY <1>1, <1>2, <1>3, AppendEvent
<1> QED BY <1>4 DEF e

LEMMA AppendSecond ==
  ASSUME NEW g, Ordered(g), Len(g) = 1, NEW e \in {"started", "aborted"}
  PROVE  Ordered(Append(g, e)) /\ Len(Append(g, e)) = 2
<1>1. e \in LifecycleEvent BY DEF LifecycleEvent
<1>2. e = "opening" <=> Len(g) = 0 OBVIOUS
<1>3. e \in {"started", "aborted"} => Len(g) = 1 OBVIOUS
<1>4. Ordered(Append(g, e)) /\ Len(Append(g, e)) = Len(g) + 1
  BY <1>1, <1>2, <1>3, AppendEvent
<1> QED BY <1>4

LEMMA AppendFinished ==
  ASSUME NEW g, Ordered(g), Len(g) \in Nat, Len(g) >= 1
  PROVE  Ordered(Append(g, "finished")) /\ Len(Append(g, "finished")) = Len(g) + 1
<1> DEFINE e == "finished"
<1>1. e \in LifecycleEvent BY DEF LifecycleEvent
<1>2. e = "opening" <=> Len(g) = 0 OBVIOUS
<1>3. e \in {"started", "aborted"} => Len(g) = 1 OBVIOUS
<1> HIDE DEF e
<1>4. Ordered(Append(g, e)) /\ Len(Append(g, e)) = Len(g) + 1
  BY <1>1, <1>2, <1>3, AppendEvent
<1> QED BY <1>4 DEF e

LEMMA NextLifeInv == TypeOK /\ LifeInv /\ [Next]_vars => LifeInv'
<1> SUFFICES ASSUME TypeOK, LifeInv, [Next]_vars PROVE LifeInv' OBVIOUS
<1>a. Ordered(history) BY DEF Ordered, LifeInv, LifecycleOrder, TypeOK, LifeType
<1>b. ASSUME Ordered(history') PROVE LifecycleOrder' BY <1>b DEF Ordered, LifecycleOrder
<1>0. ASSUME UNCHANGED <<start, status, history, timer>> PROVE LifeInv'
  BY <1>0 DEF LifeInv, LifecycleOrder
<1>1. CASE VerifyNext BY <1>0, <1>1, VerifyFrame DEF lifeVars
<1>2. CASE PatchNext BY <1>0, <1>2, PatchFrame DEF lifeVars
<1>3. CASE UNCHANGED vars BY <1>0, <1>3 DEF vars, lifeVars
<1>4. CASE StartMatch
  <2>1. history' = Append(history, "opening") /\ start' = "targets" /\ timer' = timer
    BY <1>4 DEF StartMatch
  <2>2. Len(history) = 0 /\ timer # "set" BY <1>4 DEF StartMatch, LifeInv
  <2>3. LifecycleOrder' /\ Len(history') = 1 BY <1>a, <1>b, <2>1, <2>2, AppendOpening
  <2> QED BY <2>1, <2>2, <2>3 DEF LifeInv
<1>5. CASE FirstTargetHealthy \/ SecondTargetHealthy \/ TargetNeverHealthy
  <2>1. /\ start = "targets" /\ start' \in {"targets", "nodes", "failed"}
        /\ UNCHANGED <<history, status, timer>>
    BY <1>5 DEF FirstTargetHealthy, SecondTargetHealthy, TargetNeverHealthy
  <2> QED BY <2>1 DEF LifeInv, LifecycleOrder
<1>6. CASE NodesReady
  <2>1. history' = Append(history, "started") /\ start' = "done" BY <1>6 DEF NodesReady
  <2>2. Len(history) = 1 BY <1>6 DEF NodesReady, LifeInv
  <2>3. LifecycleOrder' /\ Len(history') = 2 BY <1>a, <1>b, <2>1, <2>2, AppendSecond
  <2> QED BY <2>1, <2>3 DEF LifeInv
<1>7. CASE NodesFailed
  <2> DEFINE h == Append(history, "aborted")
  <2>1. Len(history) = 1 /\ timer # "set" BY <1>7 DEF NodesFailed, LifeInv
  <2>2. Ordered(h) /\ Len(h) = 2 BY <1>a, <2>1, AppendSecond
  <2>3. history \o <<"aborted">> = h
    <3>1. history \in Seq(LifecycleEvent) BY <1>a DEF Ordered
    <3> QED BY <3>1
  <2>4. h \o <<"finished">> = Append(h, "finished")
    <3> HIDE DEF h
    <3>1. h \in Seq(LifecycleEvent) BY <2>2 DEF Ordered
    <3> QED BY <3>1
  <2>5. history' = Append(h, "finished") /\ start' = "failed" /\ timer' = timer
    BY <1>7, <2>3, <2>4 DEF NodesFailed, Shutdown
  <2> HIDE DEF h
  <2>6. Ordered(Append(h, "finished")) /\ Len(Append(h, "finished")) = 3
    <3>1. Len(h) \in Nat /\ Len(h) >= 1 BY <2>2
    <3>2. Len(Append(h, "finished")) = Len(h) + 1 BY <2>2, <3>1, AppendFinished
    <3> QED BY <2>2, <3>1, <3>2, AppendFinished
  <2>7. LifecycleOrder' /\ Len(history') = 3 BY <1>b, <2>5, <2>6
  <2> QED BY <2>1, <2>5, <2>7 DEF LifeInv
<1>8. ASSUME NEW by \in Closer, Shutdown(by, <<>>), start \in {"done", "failed"},
             UNCHANGED start, timer' \in {timer, "fired"}
      PROVE  LifeInv'
  <2>1. history' = Append(history, "finished")
    <3>1. history \in Seq(LifecycleEvent) BY DEF TypeOK, LifeType
    <3> QED BY <1>8, <3>1 DEF Shutdown
  <2>2. Len(history) >= 1 /\ Len(history) \in Nat BY <1>8 DEF LifeInv, TypeOK, LifeType
  <2>3. LifecycleOrder' /\ Len(history') >= 1
    BY <1>a, <1>b, <2>1, <2>2, AppendFinished
  <2> QED BY <1>8, <2>3 DEF LifeInv
<1>9. CASE AutoFinish
  <2>1. start = "done" BY <1>9 DEF AutoFinish, LifeInv
  <2>2. CASE StillRunning BY <1>8, <1>9, <2>1, <2>2 DEF AutoFinish, Closer
  <2>3. CASE ~StillRunning
    BY <1>9, <2>1, <2>3 DEF AutoFinish, LifeInv, LifecycleOrder
  <2> QED BY <2>2, <2>3
<1>10. CASE LifespanShutdown
  <2>1. start \in {"done", "failed"}
    BY <1>10 DEF LifespanShutdown, RequestInFlight, LifeInv, TypeOK, LifeType, StartStage
  <2> QED BY <1>8, <1>10, <2>1 DEF LifespanShutdown, Closer
<1>11. CASE StopServer \/ Exit BY <1>0, <1>11 DEF StopServer, Exit
<1>12. CASE \E by \in Closer : CloseReturns(by) \/ CloseRaises(by) \/ SettlementDone(by)
  BY <1>0, <1>12 DEF CloseReturns, CloseRaises, SettlementDone, lifeVars
<1>13. CASE \E t \in payments :
              PaymentFails(t) \/ PaymentSent(t) \/ PaymentRecorded(t) \/ PaymentLost(t)
  BY <1>0, <1>13
  DEF PaymentFails, PaymentSent, PaymentRecorded, PaymentLost, MovePayment, lifeVars
<1>14. CASE \E t \in live : TargetExits(t) BY <1>0, <1>14 DEF TargetExits, lifeVars
<1> QED
  BY <1>1, <1>2, <1>3, <1>4, <1>5, <1>6, <1>7, <1>9, <1>10, <1>11, <1>12, <1>13, <1>14
  DEF Next, MatchNext

\* A match is announced in order, whichever of the three callers of
\* shutdown_match came first (manager.py, start_match and shutdown_match).
THEOREM AnnouncedInOrder == Spec => []LifecycleOrder
<1>1. Init => LifeInv BY DEF Init, LifeInv, LifecycleOrder
<1>2. LifeInv => LifecycleOrder BY DEF LifeInv
<1> QED BY <1>1, <1>2, NextLifeInv, TypesHold, PTL DEF Spec

-----------------------------------------------------------------------------
\* Settlement.  A caller of shutdown_match that has not reached settlement owns
\* no payment, so that the tasks it builds are new; when it is done, none of its
\* payments is open, so that what match.json holds of it is complete.  That the
\* abort path and the timer call it for the first time follows from where
\* start_match is.
SettledWell ==
  /\ PaidForPoints
  /\ SnapshotCoversOwnPayouts
  /\ \A t \in payments : shut[t.by] \notin {"idle", "closing"}
  /\ \A by \in Closer : shut[by] = "done" => Unsettled(by) = {}

CalledOnce ==
  /\ start # "done" => timer = "none"
  /\ start \in {"idle", "targets", "nodes"} => shut["abort"] = "idle"
  /\ timer \in {"none", "set"} => shut["auto"] = "idle"

SettleInv == SettledWell /\ CalledOnce

\* The points a payment stands on never shrink.
LEMMA PointsGrow ==
  ASSUME TypeOK, [Next]_vars, NEW c \in Combatants, NEW b \in Bounty
  PROVE  /\ Points(c, b) \in Nat /\ Points(c, b)' \in Nat
         /\ Points(c, b) <= Points(c, b)'
<1>1. Scored(boards, boards') BY ScoreStep
<1>2. boards[c] \in Scoreboard /\ boards'[c] \in Scoreboard
  BY <1>1 DEF Scored, TypeOK, ScoreType
<1>3. Grown(boards[c], boards'[c]) BY <1>1 DEF Scored
<1> QED BY <1>2, <1>3 DEF Grown, Scoreboard, Points

\* Nothing but the boards changes: a step of verify_exploit or apply_patch.
LEMMA SettleFrame ==
  ASSUME TypeOK, SettleInv, [Next]_vars,
         UNCHANGED <<settleVars, start, timer>>
  PROVE  SettleInv'
<1>1. UNCHANGED <<shut, payments, disk, start, timer>> BY DEF settleVars
<1>2. PaidForPoints'
  <2>1. ASSUME NEW t \in payments PROVE 0 < t.units /\ t.units <= Points(t.agent, t.bounty)'
    <3>1. t.units \in Nat /\ t.agent \in Combatants /\ t.bounty \in Bounty
      BY DEF TypeOK, SettleType, Payment
    <3>2. 0 < t.units /\ t.units <= Points(t.agent, t.bounty)
      BY DEF SettleInv, SettledWell, PaidForPoints
    <3> QED BY <3>1, <3>2, PointsGrow
  <2> QED BY <1>1, <2>1 DEF SettleInv, SettledWell, PaidForPoints
<1>3. SnapshotCoversOwnPayouts'
  BY <1>1 DEF SettleInv, SettledWell, SnapshotCoversOwnPayouts, Recorded
<1> QED BY <1>1, <1>2, <1>3 DEF SettleInv, SettledWell, CalledOnce, Unsettled

LEMMA PayoutTasksFacts ==
  ASSUME TypeOK, NEW by \in Closer
  PROVE  /\ \A t \in PayoutTasks(by) :
              /\ t.by = by /\ t.stage = "pending"
              /\ 0 < t.units /\ t.units = Points(t.agent, t.bounty)
         /\ \A t, u \in PayoutTasks(by) : t.agent = u.agent /\ t.bounty = u.bounty => t = u
<1>1. \A c \in Combatants, b \in Bounty : Points(c, b) \in Nat
  BY DEF TypeOK, ScoreType, Scoreboard, Points
<1>2. \A t \in PayoutTasks(by) :
        /\ t = [by |-> by, agent |-> t.agent, bounty |-> t.bounty,
                units |-> Points(t.agent, t.bounty), stage |-> "pending"]
        /\ t.agent \in Combatants /\ t.bounty \in Bounty /\ t.units > 0
  BY DEF PayoutTasks
<1>3. \A t \in PayoutTasks(by) :
        t.by = by /\ t.stage = "pending" /\ t.units = Points(t.agent, t.bounty)
  BY <1>2
<1>4. \A t \in PayoutTasks(by) : 0 < t.units
  BY <1>1, <1>2, <1>3
<1>5. \A t, u \in PayoutTasks(by) : t.agent = u.agent /\ t.bounty = u.bounty => t = u
  BY <1>2
<1> QED BY <1>3, <1>4, <1>5

\* A call that builds its tasks keeps every payment backed by points and unique.
LEMMA NewTasks ==
  ASSUME TypeOK, SettledWell, NEW by \in Closer, shut[by] \in {"idle", "closing"},
         payments' = payments \cup PayoutTasks(by), UNCHANGED boards
  PROVE  /\ PaidForPoints'
         /\ Recorded' = Recorded
         /\ \A b \in Closer : b # by => Unsettled(b)' = Unsettled(b)
         /\ \A t \in payments : t.by # by
<1>1. \A t \in payments : t.by # by
  BY DEF SettledWell
<1>2. \A t \in payments' : 0 < t.units /\ t.units <= Points(t.agent, t.bounty)'
  <2>1. ASSUME NEW t \in PayoutTasks(by)
        PROVE  0 < t.units /\ t.units <= Points(t.agent, t.bounty)
    <3>1. t.units \in Nat BY PayoutTasksType DEF Payment
    <3> QED BY <3>1, PayoutTasksFacts
  <2>2. \A c, b : Points(c, b)' = Points(c, b) BY DEF Points
  <2> QED BY <2>1, <2>2 DEF SettledWell, PaidForPoints
<1>3. ASSUME NEW t \in payments', NEW u \in payments',
             t.by = u.by, t.agent = u.agent, t.bounty = u.bounty
      PROVE  t = u
  <2>1. CASE t \in payments /\ u \in payments BY <1>3, <2>1 DEF SettledWell, PaidForPoints
  <2>2. CASE t \in PayoutTasks(by) /\ u \in PayoutTasks(by) BY <1>3, <2>2, PayoutTasksFacts
  <2>3. CASE t \in payments /\ u \in PayoutTasks(by) BY <1>1, <1>3, <2>3, PayoutTasksFacts
  <2>4. CASE t \in PayoutTasks(by) /\ u \in payments BY <1>1, <1>3, <2>4, PayoutTasksFacts
  <2> QED BY <2>1, <2>2, <2>3, <2>4
<1>4. Recorded' = Recorded BY PayoutTasksFacts DEF Recorded
<1>5. \A b \in Closer : b # by => Unsettled(b)' = Unsettled(b)
  BY PayoutTasksFacts DEF Unsettled
<1> QED BY <1>1, <1>2, <1>3, <1>4, <1>5 DEF PaidForPoints

\* A snapshot taken now covers what every finished call has recorded.
LEMMA PersistCovers ==
  ASSUME TypeOK, SettledWell, Persist, Recorded' = Recorded, NEW by \in Closer,
         \A b \in Closer \ {by} : shut'[b] = "done" => shut[b] = "done"
  PROVE  SnapshotCoversOwnPayouts'
<1>1. CASE DiskMayFail BY <1>1 DEF SnapshotCoversOwnPayouts
<1>2. CASE ~DiskMayFail
  <2>1. disk'.payouts = Recorded BY <1>2 DEF Persist, Snapshot
  <2> QED BY <2>1 DEF SnapshotCoversOwnPayouts
<1> QED BY <1>1, <1>2

LEMMA SettleStep ==
  ASSUME TypeOK, SettledWell, NEW by \in Closer, shut[by] \in {"idle", "closing"},
         Settle(by), UNCHANGED boards
  PROVE  SettledWell' /\ \A b \in Closer : b # by => shut'[b] = shut[b]
<1>1. shut \in [Closer -> ShutStage] /\ payments \subseteq Payment BY DEF TypeOK, SettleType
<1>2. payments' = payments \cup PayoutTasks(by) BY DEF Settle
<1>3. /\ PaidForPoints' /\ Recorded' = Recorded
      /\ \A b \in Closer : b # by => Unsettled(b)' = Unsettled(b)
      /\ \A t \in payments : t.by # by
  BY <1>2, NewTasks
<1>4. CASE PayoutTasks(by) = {}
  <2>1. shut' = [shut EXCEPT ![by] = "done"] /\ Persist BY <1>4 DEF Settle
  <2>2. payments' = payments BY <1>2, <1>4
  <2>3. SnapshotCoversOwnPayouts' BY <1>1, <1>3, <2>1, PersistCovers
  <2>4. \A t \in payments' : shut'[t.by] \notin {"idle", "closing"}
    BY <1>1, <1>3, <2>1, <2>2 DEF SettledWell, Payment
  <2>5. \A b \in Closer : shut'[b] = "done" => Unsettled(b)' = {}
    <3>1. Unsettled(by)' = {} BY <1>3, <2>2 DEF Unsettled
    <3> QED BY <1>1, <1>3, <2>1, <3>1 DEF SettledWell
  <2> QED BY <1>1, <1>3, <2>1, <2>3, <2>4, <2>5 DEF SettledWell
<1>5. CASE PayoutTasks(by) # {}
  <2>1. shut' = [shut EXCEPT ![by] = "settling"] /\ UNCHANGED disk BY <1>5 DEF Settle
  <2>2. SnapshotCoversOwnPayouts'
    BY <1>1, <1>3, <2>1 DEF SettledWell, SnapshotCoversOwnPayouts
  <2>3. \A t \in payments' : shut'[t.by] \notin {"idle", "closing"}
    <3>1. \A t \in PayoutTasks(by) : t.by = by BY PayoutTasksFacts
    <3> QED BY <1>1, <1>2, <1>3, <2>1, <3>1 DEF SettledWell, Payment
  <2>4. \A b \in Closer : shut'[b] = "done" => Unsettled(b)' = {}
    BY <1>1, <1>3, <2>1 DEF SettledWell
  <2> QED BY <1>1, <1>3, <2>1, <2>2, <2>3, <2>4 DEF SettledWell
<1> QED BY <1>4, <1>5

LEMMA ShutdownSettles ==
  ASSUME TypeOK, SettledWell, NEW by \in Closer, NEW lifecycle, shut[by] = "idle",
         Shutdown(by, lifecycle)
  PROVE  SettledWell' /\ \A b \in Closer : b # by => shut'[b] = shut[b]
<1>1. shut \in [Closer -> ShutStage] /\ payments \subseteq Payment BY DEF TypeOK, SettleType
<1>2. UNCHANGED boards BY DEF Shutdown, scoreVars
<1>3. \A t \in payments : t.by # by BY DEF SettledWell
<1>4. ASSUME UNCHANGED payments, NEW s \in {"done", "closing"},
             shut' = [shut EXCEPT ![by] = s],
             \/ s = "done" /\ Persist
             \/ s = "closing" /\ UNCHANGED disk
      PROVE  SettledWell' /\ \A b \in Closer : b # by => shut'[b] = shut[b]
  <2>1. PaidForPoints'
    BY <1>2, <1>4 DEF SettledWell, PaidForPoints, Points
  <2>2. Recorded' = Recorded /\ \A b : Unsettled(b)' = Unsettled(b)
    BY <1>4 DEF Recorded, Unsettled
  <2>3. SnapshotCoversOwnPayouts'
    <3>1. CASE s = "done" BY <1>1, <1>4, <2>2, <3>1, PersistCovers
    <3>2. CASE s = "closing"
      BY <1>1, <1>4, <2>2, <3>2 DEF SettledWell, SnapshotCoversOwnPayouts
    <3> QED BY <3>1, <3>2
  <2>4. \A t \in payments' : shut'[t.by] \notin {"idle", "closing"}
    BY <1>1, <1>3, <1>4 DEF SettledWell, Payment
  <2>5. \A b \in Closer : shut'[b] = "done" => Unsettled(b)' = {}
    <3>1. Unsettled(by) = {} BY <1>3 DEF Unsettled
    <3> QED BY <1>1, <1>4, <2>2, <3>1 DEF SettledWell
  <2> QED BY <1>1, <1>4, <2>1, <2>3, <2>4, <2>5 DEF SettledWell
<1>5. CASE ~archive BY <1>4, <1>5 DEF Shutdown
<1>6. CASE archive /\ ~ChainAvailable BY <1>2, <1>6, SettleStep DEF Shutdown
<1>7. CASE archive /\ ChainAvailable BY <1>4, <1>7 DEF Shutdown
<1>8. archive \in BOOLEAN BY DEF TypeOK, ScoreType
<1> QED BY <1>5, <1>6, <1>7, <1>8

LEMMA PaymentSettles ==
  ASSUME TypeOK, SettledWell, NEW t \in payments, t.stage \in {"pending", "sent"},
         NEW s \in PaymentStage, MovePayment(t, s)
  PROVE  SettledWell'
<1> DEFINE moved == [t EXCEPT !.stage = s]
<1>1. payments \subseteq Payment /\ t \in Payment BY DEF TypeOK, SettleType
<1>2. /\ payments' = (payments \ {t}) \cup {moved}
      /\ UNCHANGED <<shut, disk, boards>>
  BY DEF MovePayment, scoreVars
<1>3. /\ moved.by = t.by /\ moved.agent = t.agent /\ moved.bounty = t.bounty
      /\ moved.units = t.units /\ t.by \in Closer
  BY <1>1 DEF Payment
<1>4. shut[t.by] # "done"
  <2>1. t \in Unsettled(t.by) BY DEF Unsettled
  <2> QED BY <1>3, <2>1 DEF SettledWell
<1> HIDE DEF moved
<1>5. \A u \in payments' : u \in payments \/ u = moved BY <1>2
<1>6. PaidForPoints'
  <2>1. \A c, b : Points(c, b)' = Points(c, b) BY <1>2 DEF Points
  <2>2. \A u \in payments' : 0 < u.units /\ u.units <= Points(u.agent, u.bounty)'
    BY <1>3, <1>5, <2>1 DEF SettledWell, PaidForPoints
  <2>3. \A u, v \in payments' :
          u.by = v.by /\ u.agent = v.agent /\ u.bounty = v.bounty => u = v
    <3>1. \A u, v \in payments :
            u.by = v.by /\ u.agent = v.agent /\ u.bounty = v.bounty => u = v
      BY DEF SettledWell, PaidForPoints
    <3>2. ASSUME NEW u \in payments \ {t},
                 u.by = moved.by, u.agent = moved.agent, u.bounty = moved.bounty
          PROVE  FALSE
      BY <1>3, <3>1, <3>2
    <3> QED BY <1>2, <3>1, <3>2
  <2> QED BY <2>2, <2>3 DEF PaidForPoints
<1>7. ASSUME NEW by \in Closer, shut[by] = "done"
      PROVE  /\ {u \in Recorded : u.by = by}' = {u \in Recorded : u.by = by}
             /\ Unsettled(by)' = {}
  <2>1. by # t.by BY <1>4, <1>7
  <2>2. \A u : u \in payments' /\ u.by = by <=> u \in payments /\ u.by = by
    BY <1>2, <1>3, <2>1
  <2>3. Unsettled(by) = {} BY <1>7 DEF SettledWell
  <2> QED BY <2>2, <2>3 DEF Recorded, Unsettled
<1>8. SnapshotCoversOwnPayouts'
  BY <1>2, <1>7 DEF SettledWell, SnapshotCoversOwnPayouts
<1>9. \A u \in payments' : shut'[u.by] \notin {"idle", "closing"}
  BY <1>2, <1>3, <1>5 DEF SettledWell
<1> QED BY <1>2, <1>6, <1>7, <1>8, <1>9 DEF SettledWell

LEMMA CallEnds ==
  ASSUME TypeOK, SettledWell, NEW by \in Closer, CloseRaises(by) \/ SettlementDone(by)
  PROVE  SettledWell' /\ \A b \in Closer : b # by => shut'[b] = shut[b]
<1>1. shut \in [Closer -> ShutStage] /\ payments \subseteq Payment BY DEF TypeOK, SettleType
<1>2. UNCHANGED <<payments, boards>>
  BY DEF CloseRaises, SettlementDone, scoreVars
<1>3. PaidForPoints' BY <1>2 DEF SettledWell, PaidForPoints, Points
<1>4. Recorded' = Recorded /\ \A b : Unsettled(b)' = Unsettled(b)
  BY <1>2 DEF Recorded, Unsettled
<1>5. CASE CloseRaises(by)
  <2>1. shut' = [shut EXCEPT ![by] = "raised"] /\ UNCHANGED disk BY <1>5 DEF CloseRaises
  <2>2. SnapshotCoversOwnPayouts'
    BY <1>1, <1>4, <2>1 DEF SettledWell, SnapshotCoversOwnPayouts
  <2> QED BY <1>1, <1>2, <1>3, <1>4, <2>1, <2>2 DEF SettledWell, Payment
<1>6. CASE SettlementDone(by)
  <2>1. shut' = [shut EXCEPT ![by] = "done"] /\ Persist /\ Unsettled(by) = {}
    BY <1>6 DEF SettlementDone, Gathered
  <2>2. SnapshotCoversOwnPayouts' BY <1>1, <1>4, <2>1, PersistCovers
  <2>3. \A t \in payments' : shut'[t.by] \notin {"idle", "closing"}
    BY <1>1, <1>2, <2>1 DEF SettledWell, Payment
  <2>4. \A b \in Closer : shut'[b] = "done" => Unsettled(b)' = {}
    BY <1>1, <1>4, <2>1 DEF SettledWell
  <2> QED BY <1>1, <1>3, <2>1, <2>2, <2>3, <2>4 DEF SettledWell
<1> QED BY <1>5, <1>6

\* Cancelled settlements and the payments that worker threads still hold: every
\* open payment is closed as lost or failed, none becomes recorded.
LEMMA ExitSettles ==
  ASSUME TypeOK, SettledWell, Exit PROVE SettledWell'
<1>1. shut \in [Closer -> ShutStage] /\ payments \subseteq Payment BY DEF TypeOK, SettleType
<1>2. PICK late : payments' =
        {CASE t.stage = "sent" \/ t \in late -> [t EXCEPT !.stage = "lost"]
           [] t.stage = "pending" /\ t \notin late -> [t EXCEPT !.stage = "failed"]
           [] OTHER -> t : t \in payments}
        /\ late \subseteq {t \in payments : t.stage = "pending"}
  BY DEF Exit
<1>3. UNCHANGED <<boards, disk>> BY DEF Exit, scoreVars
<1>4. \A b \in Closer : /\ shut'[b] = "done" <=> shut[b] = "done"
                        /\ shut[b] \notin {"idle", "closing"} => shut'[b] \notin {"idle", "closing"}
  BY <1>1 DEF Exit
<1>5. ASSUME NEW u \in payments'
      PROVE  \E t \in payments :
               /\ u.by = t.by /\ u.agent = t.agent /\ u.bounty = t.bounty /\ u.units = t.units
               /\ u.stage \notin {"pending", "sent"}
               /\ u.stage = "recorded" => u = t
               /\ t.stage \in {"sent", "pending"} \/ u = t
               /\ u = CASE t.stage = "sent" \/ t \in late -> [t EXCEPT !.stage = "lost"]
                        [] t.stage = "pending" /\ t \notin late -> [t EXCEPT !.stage = "failed"]
                        [] OTHER -> t
  <2>1. PICK t \in payments :
          u = CASE t.stage = "sent" \/ t \in late -> [t EXCEPT !.stage = "lost"]
                [] t.stage = "pending" /\ t \notin late -> [t EXCEPT !.stage = "failed"]
                [] OTHER -> t
    BY <1>2
  <2>2. t \in Payment BY <1>1
  <2>3. CASE t.stage = "sent" \/ t \in late
    <3>1. u = [t EXCEPT !.stage = "lost"] BY <2>1, <2>3
    <3>2. t.stage \in {"sent", "pending"} BY <1>2, <2>3
    <3> QED BY <2>1, <2>2, <3>1, <3>2 DEF Payment
  <2>4. CASE t.stage = "pending" /\ t \notin late
    <3>1. u = [t EXCEPT !.stage = "failed"] BY <2>1, <2>4
    <3> QED BY <2>1, <2>2, <2>4, <3>1 DEF Payment
  <2>5. CASE t.stage \notin {"sent", "pending"}
    <3>1. u = t BY <1>2, <2>1, <2>5
    <3> QED BY <2>1, <2>5, <3>1
  <2> QED BY <2>3, <2>4, <2>5
<1>6. PaidForPoints'
  <2>1. \A c, b : Points(c, b)' = Points(c, b) BY <1>3 DEF Points
  <2>2. \A u \in payments' : 0 < u.units /\ u.units <= Points(u.agent, u.bounty)'
    <3> SUFFICES ASSUME NEW u \in payments'
                 PROVE  0 < u.units /\ u.units <= Points(u.agent, u.bounty)'
      OBVIOUS
    <3>1. PICK t \in payments :
            u.agent = t.agent /\ u.bounty = t.bounty /\ u.units = t.units
      BY <1>5
    <3>2. 0 < t.units /\ t.units <= Points(t.agent, t.bounty)
      BY DEF SettledWell, PaidForPoints
    <3> QED BY <2>1, <3>1, <3>2
  <2>3. ASSUME NEW u \in payments', NEW v \in payments',
               u.by = v.by, u.agent = v.agent, u.bounty = v.bounty
        PROVE  u = v
    <3>1. PICK t \in payments :
            /\ u.by = t.by /\ u.agent = t.agent /\ u.bounty = t.bounty
            /\ u = CASE t.stage = "sent" \/ t \in late -> [t EXCEPT !.stage = "lost"]
                     [] t.stage = "pending" /\ t \notin late -> [t EXCEPT !.stage = "failed"]
                     [] OTHER -> t
      BY <1>5
    <3>2. PICK w \in payments :
            /\ v.by = w.by /\ v.agent = w.agent /\ v.bounty = w.bounty
            /\ v = CASE w.stage = "sent" \/ w \in late -> [w EXCEPT !.stage = "lost"]
                     [] w.stage = "pending" /\ w \notin late -> [w EXCEPT !.stage = "failed"]
                     [] OTHER -> w
      BY <1>5
    <3>3. t.by = w.by /\ t.agent = w.agent /\ t.bounty = w.bounty BY <2>3, <3>1, <3>2
    <3>4. t = w BY <3>3 DEF SettledWell, PaidForPoints
    <3> QED BY <3>1, <3>2, <3>4
  <2> QED BY <2>2, <2>3 DEF PaidForPoints
<1>7. \A u \in Recorded' : u \in Recorded
  BY <1>5 DEF Recorded
<1>8. SnapshotCoversOwnPayouts'
  BY <1>3, <1>4, <1>7 DEF SettledWell, SnapshotCoversOwnPayouts
<1>9. \A u \in payments' : shut'[u.by] \notin {"idle", "closing"}
  <2> SUFFICES ASSUME NEW u \in payments' PROVE shut'[u.by] \notin {"idle", "closing"}
    OBVIOUS
  <2>1. PICK t \in payments : u.by = t.by BY <1>5
  <2>2. t.by \in Closer BY <1>1 DEF Payment
  <2>3. shut[t.by] \notin {"idle", "closing"} BY DEF SettledWell
  <2> QED BY <1>4, <2>1, <2>2, <2>3
<1>10. \A b \in Closer : Unsettled(b)' = {} BY <1>5 DEF Unsettled
<1> QED BY <1>6, <1>8, <1>9, <1>10 DEF SettledWell

LEMMA NextSettleInv == TypeOK /\ SettleInv /\ [Next]_vars => SettleInv'
<1> SUFFICES ASSUME TypeOK, SettleInv, [Next]_vars PROVE SettleInv' OBVIOUS
<1>a. SettledWell /\ CalledOnce BY DEF SettleInv
<1>b. "abort" \in Closer /\ "auto" \in Closer /\ "lifespan" \in Closer BY DEF Closer
<1>1. CASE VerifyNext BY <1>1, VerifyFrame, SettleFrame DEF lifeVars
<1>2. CASE PatchNext BY <1>2, PatchFrame, SettleFrame DEF lifeVars
<1>3. CASE UNCHANGED vars BY <1>3, SettleFrame DEF vars, lifeVars
<1>4. ASSUME UNCHANGED <<settleVars, boards>> PROVE SettledWell'
  BY <1>a, <1>4 DEF SettledWell, PaidForPoints, SnapshotCoversOwnPayouts, Unsettled, Recorded,
                    Points, settleVars
<1>5. CASE StartMatch \/ FirstTargetHealthy \/ SecondTargetHealthy \/ TargetNeverHealthy
           \/ NodesReady \/ StopServer
  <2>1. UNCHANGED <<settleVars, boards>>
    BY <1>5 DEF StartMatch, FirstTargetHealthy, SecondTargetHealthy, TargetNeverHealthy,
                NodesReady, StopServer, scoreVars
  <2>2. start' \in {"idle", "targets", "nodes"} => start \in {"idle", "targets", "nodes"}
    BY <1>5 DEF StartMatch, FirstTargetHealthy, SecondTargetHealthy, TargetNeverHealthy,
                NodesReady, StopServer
  <2>3. /\ timer' \in {"none", "set"} => timer \in {"none", "set"}
        /\ start' # "done" => timer' = "none"
    <3>1. CASE NodesReady
      <4>1. start = "nodes" /\ start' = "done" /\ timer = "none"
        BY <1>a, <3>1 DEF NodesReady, CalledOnce
      <4> QED BY <4>1
    <3>2. CASE ~NodesReady
      <4>1. timer' = timer /\ (start' # "done" => start # "done")
        BY <1>5, <3>2 DEF StartMatch, FirstTargetHealthy, SecondTargetHealthy,
                          TargetNeverHealthy, StopServer
      <4> QED BY <1>a, <4>1 DEF CalledOnce
    <3> QED BY <3>1, <3>2
  <2> QED BY <1>a, <1>4, <2>1, <2>2, <2>3 DEF SettleInv, CalledOnce, settleVars
<1>c. shut \in [Closer -> ShutStage] /\ timer \in {"none", "set", "fired"}
  BY DEF TypeOK, LifeType, SettleType
<1>d. ASSUME NEW by \in Closer, SettledWell', shut[by] # "idle",
             \A b \in Closer : b # by => shut'[b] = shut[b], UNCHANGED <<start, timer>>
      PROVE  SettleInv'
  BY <1>a, <1>b, <1>d DEF SettleInv, CalledOnce
<1>6. CASE NodesFailed
  <2>1. shut["abort"] = "idle" BY <1>a, <1>6 DEF NodesFailed, CalledOnce
  <2>2. Shutdown("abort", <<"aborted">>) BY <1>6 DEF NodesFailed
  <2>3. SettledWell' /\ shut'["auto"] = shut["auto"]
    <3>1. SettledWell' /\ \A b \in Closer : b # "abort" => shut'[b] = shut[b]
      BY <1>a, <1>b, <2>1, <2>2, ShutdownSettles
    <3> QED BY <1>b, <3>1
  <2>4. start' = "failed" /\ timer' = timer /\ timer = "none"
    BY <1>a, <1>6 DEF NodesFailed, CalledOnce
  <2> QED BY <1>a, <2>3, <2>4 DEF SettleInv, CalledOnce
<1>7. CASE AutoFinish
  <2>1. start = "done" /\ start' = start /\ timer = "set" /\ timer' = "fired"
    BY <1>a, <1>7 DEF AutoFinish, CalledOnce
  <2>2. CASE StillRunning
    <3>1. Shutdown("auto", <<>>) BY <1>7, <2>2 DEF AutoFinish
    <3>2. shut["auto"] = "idle" BY <1>a, <2>1 DEF CalledOnce
    <3>3. SettledWell' /\ \A b \in Closer : b # "auto" => shut'[b] = shut[b]
      BY <1>a, <1>b, <3>1, <3>2, ShutdownSettles
    <3>4. shut'["abort"] = shut["abort"] BY <1>b, <3>3
    <3> QED BY <1>a, <2>1, <3>3, <3>4 DEF SettleInv, CalledOnce
  <2>3. CASE ~StillRunning
    <3>1. UNCHANGED <<settleVars, boards>> BY <1>7, <2>3 DEF AutoFinish, scoreVars
    <3>2. shut' = shut BY <3>1 DEF settleVars
    <3> QED BY <1>a, <1>4, <2>1, <3>1, <3>2 DEF SettleInv, CalledOnce
  <2> QED BY <2>2, <2>3
<1>8. CASE LifespanShutdown
  <2>1. /\ Shutdown("lifespan", <<>>) /\ shut["lifespan"] = "idle"
        /\ UNCHANGED <<start, timer>>
    BY <1>8 DEF LifespanShutdown
  <2>2. SettledWell' /\ \A b \in Closer : b # "lifespan" => shut'[b] = shut[b]
    BY <1>a, <1>b, <2>1, ShutdownSettles
  <2>3. shut'["abort"] = shut["abort"] /\ shut'["auto"] = shut["auto"] BY <1>b, <2>2
  <2> QED BY <1>a, <2>1, <2>2, <2>3 DEF SettleInv, CalledOnce
<1>9. ASSUME NEW by \in Closer, CloseReturns(by) PROVE SettleInv'
  <2>1. /\ shut[by] = "closing" /\ Settle(by)
        /\ UNCHANGED <<boards, start, timer>>
    BY <1>9 DEF CloseReturns, lifeVars, scoreVars
  <2>2. SettledWell' /\ \A b \in Closer : b # by => shut'[b] = shut[b]
    BY <1>a, <2>1, SettleStep
  <2> QED BY <1>d, <2>1, <2>2
<1>10. ASSUME NEW by \in Closer, CloseRaises(by) \/ SettlementDone(by) PROVE SettleInv'
  <2>1. shut[by] # "idle" /\ UNCHANGED <<start, timer>>
    BY <1>10 DEF CloseRaises, SettlementDone, lifeVars
  <2>2. SettledWell' /\ \A b \in Closer : b # by => shut'[b] = shut[b]
    BY <1>a, <1>10, CallEnds
  <2> QED BY <1>d, <2>1, <2>2
<1>11. ASSUME NEW t \in payments,
              PaymentFails(t) \/ PaymentSent(t) \/ PaymentRecorded(t) \/ PaymentLost(t)
       PROVE  SettleInv'
  <2>1. PICK s \in PaymentStage : MovePayment(t, s)
    BY <1>11 DEF PaymentFails, PaymentSent, PaymentRecorded, PaymentLost, PaymentStage
  <2>2. t.stage \in {"pending", "sent"}
    BY <1>11 DEF PaymentFails, PaymentSent, PaymentRecorded, PaymentLost
  <2>3. SettledWell' BY <1>a, <2>1, <2>2, PaymentSettles
  <2>4. UNCHANGED <<shut, start, timer>> BY <2>1 DEF MovePayment, lifeVars
  <2> QED BY <1>a, <2>3, <2>4 DEF SettleInv, CalledOnce
<1>12. CASE Exit
  <2>1. SettledWell' BY <1>a, <1>12, ExitSettles
  <2>2. \A b \in Closer : shut[b] = "idle" => shut'[b] = "idle" BY <1>12 DEF Exit
  <2>3. UNCHANGED <<start, timer>> BY <1>12 DEF Exit
  <2> QED BY <1>a, <1>b, <2>1, <2>2, <2>3 DEF SettleInv, CalledOnce
<1>13. ASSUME NEW t \in live, TargetExits(t) PROVE SettleInv'
  <2>1. UNCHANGED <<settleVars, boards, start, timer>>
    BY <1>13 DEF TargetExits, lifeVars, scoreVars
  <2> QED BY <1>a, <1>4, <2>1 DEF SettleInv, CalledOnce, settleVars
<1> QED
  BY <1>1, <1>2, <1>3, <1>5, <1>6, <1>7, <1>8, <1>9, <1>10, <1>11, <1>12, <1>13
  DEF Next, MatchNext

LEMMA InitSettleInv == Init => SettleInv
<1> SUFFICES ASSUME Init PROVE SettleInv OBVIOUS
<1>1. payments = {} /\ \A by \in Closer : shut[by] = "idle" BY DEF Init
<1>2. "abort" \in Closer /\ "auto" \in Closer BY DEF Closer
<1>3. CalledOnce BY <1>1, <1>2 DEF CalledOnce, Init
<1>4. PaidForPoints /\ SnapshotCoversOwnPayouts
  BY <1>1 DEF PaidForPoints, SnapshotCoversOwnPayouts, Recorded
<1> QED BY <1>1, <1>3, <1>4 DEF SettleInv, SettledWell

LEMMA SettleInvHolds == Spec => []SettleInv
BY InitSettleInv, NextSettleInv, TypesHold, PTL DEF Spec

\* No settlement pays for points that are not there, and none pays the same
\* bounty twice, whatever scores while it waits (manager.py, _settle_payouts).
THEOREM PaymentsBacked == Spec => []PaidForPoints
<1>1. SettleInv => PaidForPoints BY DEF SettleInv, SettledWell
<1> QED BY <1>1, SettleInvHolds, PTL

\* What a finished shutdown_match call has recorded stays in match.json, also
\* when another call settles and writes after it (manager.py, _persist).
THEOREM SnapshotsCover == Spec => []SnapshotCoversOwnPayouts
<1>1. SettleInv => SnapshotCoversOwnPayouts BY DEF SettleInv, SettledWell
<1> QED BY <1>1, SettleInvHolds, PTL

-----------------------------------------------------------------------------
\* A handler that changes a scoreboard publishes it, or is still to publish, or
\* leaves a claim or a patch behind that tells why it never did.
LEMMA NextScoresAnnounced == TypeOK /\ ScoresAnnounced /\ [Next]_vars => ScoresAnnounced'
<1> SUFFICES ASSUME TypeOK, ScoresAnnounced, [Next]_vars PROVE ScoresAnnounced' OBVIOUS
<1>a. claim \in [Claims -> ClaimState] /\ patch \in [Patches -> PatchState]
  BY DEF TypeOK
<1>0. ASSUME UNCHANGED <<announced, boards, claim, patch>> PROVE ScoresAnnounced'
  BY <1>0 DEF ScoresAnnounced
<1>b. ASSUME announced' = boards' PROVE ScoresAnnounced'
  BY <1>b DEF ScoresAnnounced
<1>1. CASE MatchNext BY <1>0, <1>1, MatchFrame
<1>2. ASSUME NEW k \in Claims, NEW c \in Combatants, VerifyCall(k, c) PROVE ScoresAnnounced'
  <2>1. /\ UNCHANGED <<announced, boards, patch>> /\ claim[k].stage = "new"
        /\ \A j \in Claims \ {k} : claim'[j] = claim[j]
    BY <1>2, <1>a DEF VerifyCall, scoreVars
  <2> QED BY <2>1 DEF ScoresAnnounced
<1>3. ASSUME NEW k \in Claims, NEW hit \in BOOLEAN, NEW d \in Difficulties, ReplayDone(k, hit, d)
      PROVE  ScoresAnnounced'
  <2>1. CASE archive' /\ ChainAvailable
    <3>1. claim' = [claim EXCEPT ![k].stage = "archive",
                                 ![k].name = <<Kind(hit), Index(Kind(hit))>>]
      BY <1>3, <2>1 DEF ReplayDone
    <3>2. claim'[k].stage = "archive" BY <1>a, <3>1 DEF ClaimState
    <3> QED BY <3>2 DEF ScoresAnnounced
  <2>2. CASE ~(archive' /\ ChainAvailable)
    BY <1>3, <1>b, <2>2 DEF ReplayDone, PublishScores
  <2> QED BY <2>1, <2>2
<1>4. ASSUME NEW k \in Claims, ArchiveReturns(k) PROVE ScoresAnnounced'
  BY <1>4, <1>b DEF ArchiveReturns, PublishScores
<1>5. ASSUME NEW k \in Claims, ArchiveRaises(k) PROVE ScoresAnnounced'
  <2>1. claim'[k].stage = "raised" BY <1>5, <1>a DEF ArchiveRaises, ClaimState
  <2> QED BY <2>1 DEF ScoresAnnounced
<1>6. ASSUME NEW p \in Patches, patch[p].stage # "broke",
             \A q \in Patches \ {p} : patch'[q] = patch[q],
             UNCHANGED <<announced, boards, claim>>
      PROVE  ScoresAnnounced'
  BY <1>6 DEF ScoresAnnounced
<1>7. ASSUME NEW p \in Patches, NEW c \in Combatants, PatchCall(p, c) \/ PatchWriteFails(p, c)
      PROVE  ScoresAnnounced'
  <2>1. /\ UNCHANGED <<announced, boards, claim>> /\ patch[p].stage = "new"
        /\ \A q \in Patches \ {p} : patch'[q] = patch[q]
    BY <1>7, <1>a DEF PatchCall, PatchWriteFails, MayCall, scoreVars
  <2> QED BY <1>6, <2>1
<1>8. ASSUME NEW p \in Patches, NEW d \in Difficulties, SmokeOk(p, d) PROVE ScoresAnnounced'
  BY <1>8, <1>b DEF SmokeOk
<1>9. ASSUME NEW p \in Patches,
             \/ RestartHealthy(p) \/ RestartTimesOut(p) \/ SmokeBad(p) \/ RevertTimesOut(p)
      PROVE  ScoresAnnounced'
  <2>1. UNCHANGED <<announced, boards, claim>> /\ patch[p].stage # "broke"
    BY <1>9 DEF RestartHealthy, RestartTimesOut, SmokeBad, RevertTimesOut, scoreVars
  <2>2. \E s \in PatchStage : Move(p, s)
    BY <1>9 DEF RestartHealthy, RestartTimesOut, SmokeBad, RevertTimesOut, Revert, PatchStage
  <2>3. \A q \in Patches \ {p} : patch'[q] = patch[q] BY <1>a, <2>2 DEF Move
  <2> QED BY <1>6, <2>1, <2>3
<1>10. ASSUME NEW p \in Patches, RevertHealthy(p) PROVE ScoresAnnounced'
  <2>1. patch'[p].stage = "broke" BY <1>10, <1>a DEF RevertHealthy, Move, PatchState
  <2> QED BY <2>1 DEF ScoresAnnounced
<1>11. CASE VerifyNext BY <1>2, <1>3, <1>4, <1>5, <1>11 DEF VerifyNext
<1>12. CASE PatchNext BY <1>7, <1>8, <1>9, <1>10, <1>12 DEF PatchNext
<1>13. CASE UNCHANGED vars BY <1>0, <1>13 DEF vars, scoreVars
<1> QED BY <1>1, <1>11, <1>12, <1>13 DEF Next

\* What spectators were told last are the scores, unless a claim waits for the
\* archive or failed there, or a broken patch was penalised without a word
\* (manager.py, verify_exploit and apply_patch).
THEOREM SpectatorsAreTold == Spec => []ScoresAnnounced
<1>1. Init => ScoresAnnounced BY DEF Init, ScoresAnnounced
<1> QED BY <1>1, NextScoresAnnounced, TypesHold, PTL DEF Spec
=============================================================================
