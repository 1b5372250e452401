---------------------------------- MODULE Duel ----------------------------------
(***************************************************************************)
(* The target of one combatant between its owner, who edits the bug        *)
(* modules of the workspace, and the arena, which judges claims with those *)
(* modules (_verify_against_workspace in services/arena/manager.py).  The  *)
(* target itself loads the modules by another file name.                   *)
(***************************************************************************)
EXTENDS Target

VARIABLES
  module,     \* of a seeded template, in the workspace: "intact", "edited" or "broken"
  served,     \* the code the running target serves for it
  restarting, \* apply_patch has written a module and not restarted the target yet
  wounds      \* verdicts that scored: the bug, the code that judged and the route that served

duelVars == <<module, served, restarting, wounds>>
vars == <<targetVars, duelVars>>

\* The files of a workspace: one per template, named without the version.
Stem(t) == <<t, "module">>
ById(t) == <<t, "bug_id">>
BugsDir == {Stem(t) : t \in seeded}

\* _load_bug_template_overlay looks for bugs/<bug_id>.py.
Overlay(t) == ById(t) \in BugsDir

Load == [t \in seeded |-> IF Overlay(t) THEN module[t] ELSE "intact"]

DuelInit ==
  /\ module = [t \in seeded |-> "intact"]
  /\ served = [t \in seeded |-> "intact"]
  /\ restarting = FALSE /\ wounds = {}

Init == TargetInit /\ DuelInit

\* apply_patch replaces a text of the module: it judges otherwise, does not
\* import any more, or an earlier text is back; a revert writes the backup.
Patch(t) ==
  /\ ~restarting /\ boot < MaxBoots
  /\ \E code \in {"intact", "edited", "broken"} \ {module[t]} :
       module' = [module EXCEPT ![t] = code]
  /\ restarting' = TRUE
  /\ UNCHANGED <<targetVars, served, wounds>>

\* _restart_target.
Restart ==
  /\ restarting /\ Reboot
  /\ restarting' = FALSE /\ served' = Load
  /\ UNCHANGED <<module, wounds>>

Spent(log, u) ==
  LET Sum[i \in 0 .. Len(log)] ==
        IF i = 0 THEN 0
        ELSE Sum[i - 1] + IF log[i].kind = Transfers /\ log[i].pay.from = u
                          THEN log[i].pay.amount ELSE 0
  IN  Sum[Len(log)]

Settled(log, pay) ==
  Cardinality({i \in 1 .. Len(log) : /\ log[i].kind = Signed
                                     /\ log[i].pay.from = pay.from
                                     /\ log[i].pay.nonce = pay.nonce})

\* verify() of template t as it is written, on the exchange c and a state of
\* which it reads the sessions and the log.
Verifies(t, c, known, log) ==
  /\ c.endpoint = t.endpoint /\ c.status = 200 /\ t \in c.shows
  /\ t.witness = "session" => c.token \in known /\ c.token[1] \notin Admins
  /\ t.witness = "ledger" =>
       IF t.endpoint = Signed THEN Settled(log, c.pay) >= 2
       ELSE \E u \in Users : Spent(log, u) > SeedBalance

\* Mutant: the form of the request is enough.
Judgements_ByForm(t, c) ==
  CASE module[t] = "intact" -> {t \in c.asks}
    [] module[t] = "edited" -> BOOLEAN
    [] module[t] = "broken" -> {FALSE}

\* The module of the workspace judges on a mirror that is built afresh, with no
\* session and an empty log.  One that was edited may say anything; one that
\* does not import is passed over.
Judgements(t, c) ==
  CASE module[t] = "intact" -> {Verifies(t, c, {}, <<>>)}
    [] module[t] = "edited" -> BOOLEAN
    [] module[t] = "broken" -> {FALSE}

\* verify_exploit has the response: the first module that says so makes a wound.
Judge(s) ==
  /\ call[s].pc = "answered" /\ call[s].claim
  /\ \/ \E t \in seeded :
          /\ TRUE \in Judgements(t, call[s])
          /\ wounds' = wounds \cup {[bug |-> t, judge |-> module[t], by |-> call[s].by]}
     \/ /\ \A t \in seeded : FALSE \in Judgements(t, call[s])
        /\ UNCHANGED wounds
  /\ call' = [call EXCEPT ![s] = NoCall]
  /\ UNCHANGED <<seeded, boot, sessions, balances, ledger, raced, sent, module, served, restarting>>

Next ==
  \/ \E s \in Slots :
       \/ (Send(s) \/ Handler(s) \/ TimesOut(s)) /\ UNCHANGED duelVars
       \/ Judge(s)
  \/ \E t \in seeded : Patch(t)
  \/ Restart

Spec == Init /\ [][Next]_vars
-----------------------------------------------------------------------------
TypeOK ==
  /\ TargetTypeOK
  /\ module \in [seeded -> {"intact", "edited", "broken"}]
  /\ served \in [seeded -> {"intact", "edited", "broken"}]
  /\ restarting \in BOOLEAN
  /\ \A w \in wounds : w.bug \in seeded /\ w.judge \in {"intact", "edited"}

\* A verdict of a module as it was seeded scores only what the live target did:
\* the request was served by the route of that very bug, whatever was patched,
\* restarted or given up between the replay and the verdict
\* (manager.py:543-580, verifier.py:32-34: "a wound only counts if the live
\* target actually behaved insecurely").
WoundWasServed ==
  \A w \in wounds : w.judge = "intact" => w.by = {w.bug}

\* The target runs a module that was patched once it has been restarted:
\* services/target/main.py:7-9, "any patch the combatant writes to the workspace
\* overrides the installed copy of the same bug template module on import".
PatchIsServed ==
  ~restarting => \A t \in seeded : module[t] = "edited" => served[t] = "edited"
=============================================================================
