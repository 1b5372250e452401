---------------------------- MODULE RegisterParent ----------------------------
(***************************************************************************)
(* The bootstrap script (scripts/register_sepolia_parent.py): make or      *)
(* reuse the registrar's key, wait until it is funded, commit to a free    *)
(* name and register it, and only then write the key and the name to .env. *)
(* Each call of write_env_var rewrites the file; the user may interrupt    *)
(* the script anywhere.                                                    *)
(***************************************************************************)
CONSTANTS
  Labels,       \* the .eth names of the registry
  FirstLabel,   \* the parent name in .env before the script runs
  OldKey, NewKey,
  MissingKey

ASSUME ScriptAssumption ==
  FirstLabel \in Labels /\ MissingKey \notin {OldKey, NewKey} /\ OldKey # NewKey

Keys == {OldKey, NewKey}

VARIABLES
  stage,        \* where main() is, or "exited"
  acct,         \* the account of the script
  label,        \* the name it registers
  env,          \* .env: the registrar's key and the parent name
  owner,        \* the registry: who owns a name
  cut           \* history: a run ended between its two writes of .env

scriptVars == <<stage, acct, label, env, owner, cut>>

RunStage == {"funding", "committing", "aging", "registering", "landing", "key", "parent"}
Over == {"never", "exited"}

\* main() returns or raises; its account is gone with it.
Exit ==
  /\ stage' = "exited" /\ acct' = MissingKey /\ label' = FirstLabel

Available(l) == owner[l] = MissingKey

\* get_or_create_wallet, choose_label: a requested name may be taken.
Begin(reuse, l) ==
  /\ stage = "never"
  /\ \/ /\ Available(l)
        /\ stage' = "funding" /\ label' = l
        /\ acct' = IF reuse /\ env.key # MissingKey THEN env.key ELSE NewKey
     \/ ~Available(l) /\ Exit
  /\ UNCHANGED <<env, owner, cut>>

Move(from, to) ==
  /\ stage = from /\ stage' = to
  /\ UNCHANGED <<acct, label, env, owner, cut>>

Leave(from) == stage = from /\ Exit /\ UNCHANGED <<env, owner, cut>>

\* wait_for_funding polls until somebody has sent the money.
Fund == Move("funding", "committing")
Commit == Move("committing", "aging") \/ Leave("committing")
Age == Move("aging", "registering")

\* The register transaction is mined (or reverts: status 4) ...
Register ==
  \/ /\ stage = "registering" /\ Available(label)
     /\ owner' = [owner EXCEPT ![label] = acct]
     /\ stage' = "landing"
     /\ UNCHANGED <<acct, label, env, cut>>
  \/ Leave("registering")

\* ... and its receipt arrives, or waiting for it times out with an exception.
Land == Move("landing", "key") \/ Leave("landing")

\* Mutant: the name is written first.
WriteKey_NameFirst ==
  /\ stage = "key" /\ stage' = "parent"
  /\ env' = [env EXCEPT !.parent = label]
  /\ UNCHANGED <<acct, label, owner, cut>>

WriteKey ==
  /\ stage = "key" /\ stage' = "parent"
  /\ env' = [env EXCEPT !.key = acct]
  /\ UNCHANGED <<acct, label, owner, cut>>

WriteParent ==
  /\ stage = "parent" /\ Exit
  /\ env' = [env EXCEPT !.parent = label]
  /\ UNCHANGED <<owner, cut>>

\* Ctrl-C, or an RPC error that nothing catches.
Abort ==
  /\ stage \in RunStage /\ Exit
  /\ cut' = (stage = "parent")
  /\ UNCHANGED <<env, owner>>

\* .env before the script: the example file, or that of an earlier run.
ScriptInit ==
  /\ stage = "never" /\ acct = MissingKey /\ cut = FALSE
  /\ label = FirstLabel
  /\ \E key \in {OldKey, MissingKey} :
       /\ env = [key |-> key, parent |-> FirstLabel]
       /\ owner = [x \in Labels |-> IF x = FirstLabel THEN key ELSE MissingKey]

ScriptStep ==
  \/ Fund \/ Commit \/ Age \/ Register \/ Land \/ WriteKey \/ WriteParent
  \/ Abort

ScriptNext == ScriptStep \/ \E reuse \in BOOLEAN, l \in Labels : Begin(reuse, l)

ScriptTypeOK ==
  /\ stage \in RunStage \cup Over
  /\ acct \in Keys \cup {MissingKey}
  /\ label \in Labels
  /\ env \in [key : Keys \cup {MissingKey}, parent : Labels]
  /\ owner \in [Labels -> Keys \cup {MissingKey}]
  /\ cut \in BOOLEAN

\* The arena that starts with this .env can write below its parent name.
Owned == env.key # MissingKey /\ owner[env.parent] = env.key
=============================================================================
