------------------------------ MODULE Registrar ------------------------------
(***************************************************************************)
(* The registrar account of the arena (hostile_mesh_ens/chain.py): worker  *)
(* threads build, sign and submit transactions under one nonce counter;    *)
(* the node pools what it accepts and mines it in nonce order.             *)
(*                                                                         *)
(* The counter is read from the node once in the life of a process and     *)
(* only incremented after that, so a nonce whose submission failed is      *)
(* never handed out again by that process.                                 *)
(***************************************************************************)
EXTENDS Integers, Sequences

CONSTANTS
  Tasks,      \* the asyncio tasks that write; each has at most one send running
  Names,      \* the ENS names below the parent name
  Root,       \* the parent name itself, owned by the registrar
  Parent,     \* the name each name is a subname of
  MaxNonce    \* bound: the largest nonce used

ASSUME RegistrarAssumption ==
  /\ Root \notin Names
  /\ Parent \in [Names -> Names \cup {Root}]
  /\ MaxNonce \in Nat

Nonce == 0..MaxNonce
None  == -1

\* "mint" is setSubnodeRecord, "set" the multicall of setText, "pay" a transfer.
Tx   == [kind : {"mint", "set", "pay"}, name : Names, by : Tasks]
NoTx == [kind |-> "none"]

VARIABLES
  owned,      \* the registrar's key owns the parent name
  counted,    \* self._next_nonce is not None
  next,       \* self._next_nonce
  held,       \* the nonce the worker thread of a task has allocated, or None
  lost,       \* history: the nonces of this process whose submission failed
  pool,       \* the node's pool, by nonce
  chain       \* the mined transactions of the account; the i-th has nonce i - 1

regVars == <<owned, counted, next, held, lost, pool, chain>>

-----------------------------------------------------------------------------
\* eth_getTransactionCount(registrar, "pending"): the first nonce that is
\* neither mined nor pooled.
IsPending(n) ==
  /\ n \in Len(chain)..(MaxNonce + 1)
  /\ n \in Nonce => pool[n] = NoTx
  /\ \A m \in Len(chain)..(n - 1) : pool[m] # NoTx

\* Mutant: the node is asked each time, also while other sends are under way.
Allocated_AskEachTime(n) == IsPending(n)

\* Two threads inside the lock of _allocate_nonce never read the same number.
Allocated(n) == IF counted THEN n = next ELSE IsPending(n)

\* _build_tx_kwargs: the gas price is read first, then the nonce is taken.
Allocate(t, n) ==
  /\ held[t] = None
  /\ n \in Nonce /\ Allocated(n)
  /\ held' = [held EXCEPT ![t] = n]
  /\ counted' = TRUE
  /\ next' = n + 1
  /\ UNCHANGED <<owned, lost, pool, chain>>

\* Reading the gas price, or the first count, fails: no nonce is taken.
BuildFails(t) ==
  /\ held[t] = None
  /\ UNCHANGED regVars

\* The node takes a transaction for a nonce that is not mined.  A pooled one
\* with the same nonce is replaced when the new one pays enough.
Accepts(n) == n >= Len(chain)

\* send_raw_transaction: the node has accepted; its answer may get lost on the
\* way, then the caller sees an exception and the transaction is in the pool.
Submitted(t, tx) ==
  /\ held[t] # None /\ Accepts(held[t])
  /\ pool' = [pool EXCEPT ![held[t]] = tx]
  /\ held' = [held EXCEPT ![t] = None]
  /\ UNCHANGED <<owned, counted, next, lost, chain>>

\* Mutant: the counter is set back after a submission that failed.
Forfeit_SetBack(n) == next' = next - 1 /\ lost' = lost

\* A nonce whose submission failed is not handed out again.
Forfeit(n) == next' = next /\ lost' = lost \cup {n}

\* The request never arrived, or the node refused it.
Refused(t) ==
  /\ held[t] # None
  /\ Forfeit(held[t])
  /\ held' = [held EXCEPT ![t] = None]
  /\ UNCHANGED <<owned, counted, pool, chain>>

-----------------------------------------------------------------------------
\* The chain.  A name can be minted below a name that exists, and has records
\* once it is minted; anything else reverts.
Minted(x) ==
  \/ x = Root /\ owned
  \/ \E i \in 1..Len(chain) :
       chain[i].ok /\ chain[i].tx.kind = "mint" /\ chain[i].tx.name = x

Succeeds(tx) ==
  CASE tx.kind = "mint" -> Minted(Parent[tx.name])
    [] tx.kind = "set"  -> Minted(tx.name)
    [] OTHER            -> TRUE

Mine ==
  LET n == Len(chain) IN
  /\ n \in Nonce /\ pool[n] # NoTx
  /\ chain' = Append(chain, [tx |-> pool[n], ok |-> Succeeds(pool[n])])
  /\ pool' = [pool EXCEPT ![n] = NoTx]
  /\ UNCHANGED <<owned, counted, next, held, lost>>

\* The process dies: its threads and its counter are gone.
Die ==
  /\ counted' = FALSE /\ next' = 0
  /\ held' = [t \in Tasks |-> None]
  /\ lost' = {}
  /\ UNCHANGED <<owned, pool, chain>>

RegInit ==
  /\ owned \in BOOLEAN
  /\ counted = FALSE /\ next = 0
  /\ held = [t \in Tasks |-> None]
  /\ lost = {}
  /\ pool = [n \in Nonce |-> NoTx]
  /\ chain = <<>>

RegNext ==
  \/ \E t \in Tasks :
       \/ \E n \in Nonce : Allocate(t, n)
       \/ \E tx \in Tx : Submitted(t, tx)
       \/ Refused(t)
  \/ Mine
  \/ Die

RegSpec == RegInit /\ [][RegNext]_regVars

-----------------------------------------------------------------------------
RegTypeOK ==
  /\ owned \in BOOLEAN
  /\ counted \in BOOLEAN
  /\ next \in 0..(MaxNonce + 1)
  /\ held \in [Tasks -> Nonce \cup {None}]
  /\ lost \subseteq Nonce
  /\ pool \in [Nonce -> Tx \cup {NoTx}]
  /\ chain \in Seq([tx : Tx, ok : BOOLEAN])
  /\ Len(chain) <= MaxNonce + 1

NoncesDistinct ==
  \A t, u \in Tasks : held[t] # None /\ held[t] = held[u] => t = u

\* Two transactions being sent never share a nonce, and every nonce the process
\* has taken is mined, pooled, held by a worker, or was lost by a submission
\* that failed: a transaction that waits in the pool waits for a nonce this
\* process lost or has not used yet (chain.py, 99-127; the sends of
\* record_event, of _write_match_open and of the payouts overlap).
NoncesAccounted ==
  /\ NoncesDistinct
  /\ counted =>
       /\ \A n \in 0..(next - 1) :
            \/ n < Len(chain) \/ pool[n] # NoTx \/ n \in lost
            \/ \E t \in Tasks : held[t] = n
       /\ \A t \in Tasks : held[t] < next
=============================================================================
