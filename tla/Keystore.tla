------------------------------- MODULE Keystore -------------------------------
(***************************************************************************)
(* The wallets on disk (hostile_mesh_ens/wallet.py).  The arena and the    *)
(* process of an agent share the keystore directory, and each calls        *)
(* ensure(agent_id): unlock the keystore if its file exists, else generate *)
(* a key, encrypt it, and write the file.  A key is named by the process   *)
(* that generated it.                                                      *)
(***************************************************************************)
CONSTANT Agents   \* agent ids; the process of an agent has its name

ASSUME KeystoreAssumption == {"arena", "none", "torn"} \cap Agents = {}

Process == Agents \cup {"arena"}
Users(a) == {"arena", a}

VARIABLES
  keyfile,    \* <agent>.json: "none", "torn" (opened, not yet written) or a key
  wallet,     \* WalletManager._cache of a process, by agent
  making      \* what _generate of a process is doing

keyVars == <<keyfile, wallet, making>>

Idle == [stage |-> "idle"]
Making == [stage : {"encrypting", "writing"}, agent : Agents]

IsFile(a) == keyfile[a] # "none"

Unlock(p, a) ==
  /\ keyfile[a] \in Process
  /\ wallet' = [wallet EXCEPT ![p][a] = keyfile[a]]
  /\ UNCHANGED <<keyfile, making>>

\* Mutant: a keystore that cannot be read is replaced.
MustGenerate_Torn(a) == keyfile[a] \in {"none", "torn"}

MustGenerate(a) == ~IsFile(a)

\* The file is not there: a key is made, and encrypting it takes a while.
Generate(p, a) ==
  /\ making[p] = Idle /\ wallet[p][a] = "none" /\ MustGenerate(a)
  /\ making' = [making EXCEPT ![p] = [stage |-> "encrypting", agent |-> a]]
  /\ UNCHANGED <<keyfile, wallet>>

\* write_text opens the file, which empties it, ...
OpenKeyfile(p) ==
  /\ making[p].stage = "encrypting"
  /\ keyfile' = [keyfile EXCEPT ![making[p].agent] = "torn"]
  /\ making' = [making EXCEPT ![p].stage = "writing"]
  /\ UNCHANGED wallet

\* ... and writes the key.
WriteKeyfile(p) ==
  LET a == making[p].agent IN
  /\ making[p].stage = "writing"
  /\ keyfile' = [keyfile EXCEPT ![a] = p]
  /\ wallet' = [wallet EXCEPT ![p][a] = p]
  /\ making' = [making EXCEPT ![p] = Idle]

GenerateStep(p) == OpenKeyfile(p) \/ WriteKeyfile(p)

\* ensure on a file that does not parse raises.
Unreadable(a) == keyfile[a] = "torn"

\* The process dies, in the middle of writing or not.
KeystoreDie(p) ==
  /\ wallet' = [wallet EXCEPT ![p] = [a \in Agents |-> "none"]]
  /\ making' = [making EXCEPT ![p] = Idle]
  /\ UNCHANGED keyfile

KeystoreInit ==
  /\ keyfile = [a \in Agents |-> "none"]
  /\ wallet = [p \in Process |-> [a \in Agents |-> "none"]]
  /\ making = [p \in Process |-> Idle]

KeystoreTypeOK ==
  /\ keyfile \in [Agents -> Process \cup {"none", "torn"}]
  /\ wallet \in [Process -> [Agents -> Process \cup {"none"}]]
  /\ making \in [Process -> Making \cup {Idle}]

Quiet(a) == \A p \in Users(a) : making[p] = Idle \/ making[p].agent # a

\* Once an agent has a keystore and nobody is generating one, nobody ever will
\* again: whoever starts later unlocks the key its predecessors unlocked, also
\* after a process died between opening the file and writing it, when the file
\* stays unreadable (wallet.py, 55-71).
KeystoreSettles ==
  [][\A a \in Agents :
       IsFile(a) /\ Quiet(a) => Quiet(a)' /\ keyfile'[a] = keyfile[a]]_keyVars
=============================================================================
