--------------------------------- MODULE Target ---------------------------------
(***************************************************************************)
(* The live target of one combatant (hostile_mesh_combat/target_factory.py *)
(* and state.py, started by services/target/main.py): a service whose      *)
(* state is in memory, which serves a seeded template where one has the    *)
(* route and a base handler elsewhere.  Handlers run to completion on one  *)
(* event loop, except where a template yields.  Requests come from the     *)
(* agents' probes and from the arena, which replays the request of a       *)
(* claim.                                                                  *)
(***************************************************************************)
EXTENDS BugBank, Sequences

CONSTANTS
  Size,          \* bugs_per_combatant
  Users, Admins, \* of the seeded state
  SeedBalance,   \* balance of every seeded user
  Amounts,       \* positive amounts a request may ask to move
  Nonces,        \* of signed transfers
  Endpoints,     \* the routes that are asked for
  Slots,         \* requests at once
  MaxRequests,   \* bound: requests in all
  MaxBoots       \* bound: starts of the process

ASSUME TargetAssumption ==
  /\ Size \in Nat /\ SeedBalance \in Nat /\ Amounts \subseteq Nat \ {0}
  /\ Admins \subseteq Users /\ MaxRequests \in Nat /\ MaxBoots \in Nat \ {0}

VARIABLES
  seeded,    \* the templates of this target
  boot,      \* which process serves; 1 is the first
  sessions,  \* tokens it knows: <<user, boot that issued it>>
  balances,  \* of its users
  ledger,    \* audit_log: the transfers
  raced,     \* history: payers whose balance changed between their transfer's read and write
  call,      \* the request in every slot
  sent       \* requests so far

targetVars == <<seeded, boot, sessions, balances, ledger, raced, call, sent>>

Login == "POST /auth/login"
Transfers == "POST /transfers"
Signed == "POST /signed/transfer"
BaseOpen == {Login, "GET /files/{name}"}
BaseGuarded == {"GET /users", "GET /users/{user_id}", "GET /invoices/{invoice_id}", Transfers}

NoToken == <<"nobody", 0>>
NoPay == [from |-> "nobody", to |-> "nobody", amount |-> 0, nonce |-> 0]

\* What a request may ask to move: the payer of a plain transfer is its caller.
Pays(endpoint, user) ==
  CASE endpoint = Transfers ->
         [from : {user}, to : Users, amount : Amounts, nonce : {0}]
    [] endpoint = Signed -> [from : Users, to : Users, amount : Amounts, nonce : Nonces]
    [] OTHER -> {NoPay}

NoCall == [pc |-> "free", claim |-> FALSE, endpoint |-> Login, token |-> NoToken,
           asks |-> {}, pay |-> NoPay, read |-> 0, status |-> 0, by |-> {}, shows |-> {}]

\* seed_match and TargetState.seeded.
TargetInit ==
  /\ seeded \in Samples(Size)
  /\ boot = 1 /\ sessions = {} /\ ledger = <<>> /\ raced = {} /\ sent = 0
  /\ balances = [u \in Users |-> SeedBalance]
  /\ call = [s \in Slots |-> NoCall]
-----------------------------------------------------------------------------
\* A probe of an agent, or the replay of a claim by the arena, with a token that
\* is known, one of an earlier process or none.  "asks" names the templates whose
\* verify() would recognise the form of the request.
Send(s) ==
  /\ call[s].pc = "free" /\ sent < MaxRequests
  /\ sent' = sent + 1
  /\ \E claim \in BOOLEAN, endpoint \in Endpoints,
        token \in sessions \cup (Users \X (1 .. boot - 1)) \cup {NoToken} :
     \E asks \in SUBSET {t \in Bank : t.endpoint = endpoint /\ t.asks},
        pay \in Pays(endpoint, token[1]) :
       call' = [call EXCEPT ![s] = [NoCall EXCEPT !.pc = "sent", !.claim = claim,
                  !.endpoint = endpoint, !.token = token, !.asks = asks, !.pay = pay]]
  /\ UNCHANGED <<seeded, boot, sessions, balances, ledger, raced>>

\* A probe has its response and is over; a claim waits to be judged on it.
Answered(c, status, by, shows) ==
  IF c.claim
  THEN [c EXCEPT !.pc = "answered", !.read = 0, !.status = status, !.by = by, !.shows = shows]
  ELSE NoCall

Answer(s, status, by, shows) ==
  call' = [call EXCEPT ![s] = Answered(call[s], status, by, shows)]

Route(endpoint) == {t \in seeded : t.endpoint = endpoint}

\* A login that succeeds makes a token for some user.
OpensSession(endpoint) ==
  IF endpoint = Login
  THEN \E u \in Users : sessions' = sessions \cup {<<u, boot>>}
  ELSE UNCHANGED sessions

\* What the response of template t shows: always what it leaks to any caller,
\* and, at will, what a request of the right form draws from it.
Shown(t, asks) == {(IF t.asks THEN {} ELSE {t}) \cup drawn : drawn \in SUBSET asks}

\* A seeded handler that only reads, or logs in.
ServeSeeded(s) ==
  /\ call[s].pc = "sent"
  /\ \E t \in Route(call[s].endpoint) :
       /\ t.witness # "ledger" /\ (t.session => call[s].token \in sessions)
       /\ \E shows \in Shown(t, call[s].asks) : Answer(s, 200, {t}, shows)
  /\ OpensSession(call[s].endpoint)
  /\ UNCHANGED <<seeded, boot, balances, ledger, raced, sent>>

\* The base handler of the route; it shows nothing a template looks for.
ServeBase(s) ==
  /\ call[s].pc = "sent" /\ Route(call[s].endpoint) = {}
  /\ \/ call[s].endpoint \in BaseOpen
     \/ call[s].endpoint \in BaseGuarded \ {Transfers} /\ call[s].token \in sessions
  /\ Answer(s, 200, {}, {})
  /\ OpensSession(call[s].endpoint)
  /\ UNCHANGED <<seeded, boot, balances, ledger, raced, sent>>

\* An HTTPException, or no route: credentials, rights, ids and bodies may be wrong.
Refuse(s) ==
  /\ call[s].pc = "sent"
  /\ Answer(s, 400, {}, {})
  /\ UNCHANGED <<seeded, boot, sessions, balances, ledger, raced, sent>>
-----------------------------------------------------------------------------
\* Mutant: both balances are read first, as in a transfer to oneself.
Move_ReadsBoth(funds, pay) ==
  [funds EXCEPT ![pay.from] = @ - pay.amount, ![pay.to] = funds[pay.to] + pay.amount]

\* The payer is debited before the balance of the payee is read.
Move(funds, pay) ==
  LET debited == [funds EXCEPT ![pay.from] = @ - pay.amount] IN
  [debited EXCEPT ![pay.to] = @ + pay.amount]

Book(kind, pay) == ledger' = Append(ledger, [kind |-> kind, pay |-> pay])

\* transfer and signed_transfer: check, debit and credit under the lock, the
\* entry after it; nothing yields in between.
Transfer(s) ==
  /\ call[s].pc = "sent"
  /\ \/ call[s].endpoint = Transfers /\ Route(Transfers) = {} /\ call[s].token \in sessions
     \/ call[s].endpoint = Signed /\ Route(Signed) # {}
  /\ balances[call[s].pay.from] >= call[s].pay.amount
  /\ balances' = Move(balances, call[s].pay)
  /\ Book(call[s].endpoint, call[s].pay)
  /\ Answer(s, 200, Route(call[s].endpoint), Route(call[s].endpoint))
  /\ UNCHANGED <<seeded, boot, sessions, raced, sent>>

\* transfer_vuln reads the balance and yields ...
ReadBalance(s) ==
  /\ call[s].pc = "sent" /\ call[s].endpoint = Transfers
  /\ Route(Transfers) # {} /\ call[s].token \in sessions
  /\ balances[call[s].pay.from] >= call[s].pay.amount
  /\ call' = [call EXCEPT ![s].pc = "yielded", ![s].read = balances[call[s].pay.from]]
  /\ UNCHANGED <<seeded, boot, sessions, balances, ledger, raced, sent>>

\* ... and writes what it has read, less the amount.
WriteBalance(s) ==
  /\ call[s].pc = "yielded"
  /\ balances' = Move([balances EXCEPT ![call[s].pay.from] = call[s].read], call[s].pay)
  /\ raced' = IF call[s].read = balances[call[s].pay.from] THEN raced
              ELSE raced \cup {call[s].pay.from}
  /\ Book(Transfers, call[s].pay)
  /\ Answer(s, 200, Route(Transfers), Route(Transfers))
  /\ UNCHANGED <<seeded, boot, sessions, sent>>
-----------------------------------------------------------------------------
\* The client of the arena gives up: the claim is judged on a response 599, and
\* the target goes on with the request all the same.
TimesOut(s) ==
  /\ call[s].pc \in {"sent", "yielded"} /\ call[s].claim
  /\ call' = [call EXCEPT ![s].claim = FALSE]
  /\ UNCHANGED <<seeded, boot, sessions, balances, ledger, raced, sent>>

\* Requests in flight when the process is terminated fail.
Cut == [s \in Slots |-> IF call[s].pc \in {"sent", "yielded"}
                        THEN Answered(call[s], 599, {}, {})
                        ELSE call[s]]

\* The arena terminates the target and starts it again: all state is seeded anew.
Reboot ==
  /\ boot < MaxBoots
  /\ boot' = boot + 1 /\ sessions' = {} /\ ledger' = <<>> /\ raced' = {}
  /\ balances' = [u \in Users |-> SeedBalance]
  /\ call' = Cut
  /\ UNCHANGED <<seeded, sent>>

Handler(s) ==
  \/ ServeSeeded(s) \/ ServeBase(s) \/ Refuse(s)
  \/ Transfer(s) \/ ReadBalance(s) \/ WriteBalance(s)
-----------------------------------------------------------------------------
\* As many templates as were asked for, or all there are.
Wanted == IF Size < Cardinality(Bank) THEN Size ELSE Cardinality(Bank)

TargetTypeOK ==
  /\ seeded \subseteq Bank
  /\ \A t, u \in seeded : t.endpoint = u.endpoint => t = u
  /\ Cardinality(seeded) \in {Wanted - 1, Wanted}
  /\ boot \in 1 .. MaxBoots /\ sent \in 0 .. MaxRequests
  /\ sessions \subseteq Users \X {boot}
  /\ balances \in [Users -> Nat] /\ raced \subseteq Users
  /\ \A i \in 1 .. Len(ledger) : ledger[i].kind \in {Transfers, Signed}
  /\ \A s \in Slots : /\ call[s].by \subseteq seeded
                      /\ call[s].status # 200 => call[s].by = {} /\ call[s].shows = {}

\* What the ledger says user u has gained, less what u has paid.
Net(u) ==
  LET Sum[i \in 0 .. Len(ledger)] ==
        IF i = 0 THEN 0
        ELSE Sum[i - 1] + (IF ledger[i].pay.to = u THEN ledger[i].pay.amount ELSE 0)
                        - (IF ledger[i].pay.from = u THEN ledger[i].pay.amount ELSE 0)
  IN  Sum[Len(ledger)]

\* Every balance is the seeded one and what the audit log explains, whichever
\* transfers, plain, racing and signed, overlap and wherever a restart falls.
\* Only a payer whose balance changed while its own racing transfer had yielded
\* has something else, and nobody it pays (target_factory.py:132-139,
\* race_condition_transfer.py:42-50, sig_replay_transfer.py:58-72): the verifiers
\* of the transfer bugs read the log for the money.
BooksBalance ==
  \A u \in Users \ raced : balances[u] = SeedBalance + Net(u)
=============================================================================
