-------------------------------- MODULE BugBank --------------------------------
(***************************************************************************)
(* The bug templates (hostile_mesh_combat/bugs/) and how a target is       *)
(* seeded with some of them (bug_bank.py).  Of a template the model keeps  *)
(* what the service, the sampling and the verdict tell apart:              *)
(*   endpoint  the route its apply() registers,                            *)
(*   tier      its difficulty,                                             *)
(*   session   whether its handler asks for a session,                     *)
(*   asks      whether its verify() demands a request of a certain form,   *)
(*   witness   what verify() consults: the "response" alone, the "session" *)
(*             of the caller, or the "ledger" (audit_log) of the target.   *)
(***************************************************************************)
EXTENDS Integers, FiniteSets

CONSTANT Bank    \* the templates of the bank: AllTemplates, or some of them

Template(endpoint, tier, session, asks, witness) ==
  [endpoint |-> endpoint, tier |-> tier, session |-> session, asks |-> asks, witness |-> witness]

auth_bypass_login_empty_password == Template("POST /auth/login", "easy", FALSE, TRUE, "response")
sqli_login_concat                == Template("POST /auth/login", "hard", FALSE, TRUE, "response")
auth_bypass_admin_header         == Template("GET /users", "medium", FALSE, TRUE, "response")
idor_user_lookup                 == Template("GET /users/{user_id}", "medium", TRUE, FALSE, "session")
idor_invoice_owner_skip          == Template("GET /invoices/{invoice_id}", "easy", TRUE, FALSE, "session")
sqli_user_search                 == Template("GET /users/search", "medium", TRUE, TRUE, "response")
cmd_injection_ping               == Template("POST /diagnostics/ping", "easy", TRUE, TRUE, "response")
cmd_injection_archive            == Template("POST /export/archive", "hard", TRUE, TRUE, "response")
path_traversal_secrets           == Template("GET /files/{name}", "medium", FALSE, TRUE, "response")
broken_access_priv_export        == Template("GET /priv/keys", "easy", TRUE, FALSE, "session")
race_condition_transfer          == Template("POST /transfers", "medium", TRUE, FALSE, "ledger")
sig_replay_transfer              == Template("POST /signed/transfer", "hard", FALSE, FALSE, "ledger")

AllTemplates ==
  {auth_bypass_login_empty_password, sqli_login_concat, auth_bypass_admin_header,
   idor_user_lookup, idor_invoice_owner_skip, sqli_user_search, cmd_injection_ping,
   cmd_injection_archive, path_traversal_secrets, broken_access_priv_export,
   race_condition_transfer, sig_replay_transfer}

ASSUME BankAssumption == Bank \subseteq AllTemplates
-----------------------------------------------------------------------------
\* round() of a / 4, which takes a tie to the even neighbour.
Quarters(a) ==
  LET low == a \div 4 IN
  IF a % 4 > 2 \/ (a % 4 = 2 /\ low % 2 = 1) THEN low + 1 ELSE low

\* _scale_mix(n, (2, 1, 1)): how many of each tier.
Mix(n) ==
  LET easy == Quarters(2 * n)
      medium == Quarters(n)
  IN  [easy |-> easy, medium |-> medium,
       hard |-> IF n > easy + medium THEN n - easy - medium ELSE 0]

\* rng.sample(tier, min(k, len(tier))): any of them.
Draws(S, k) ==
  LET size == IF k < Cardinality(S) THEN k ELSE Cardinality(S) IN
  {D \in SUBSET S : Cardinality(D) = size}

Tier(tier) == {t \in Bank : t.tier = tier}

\* What is drawn: easy ones first, then medium, hard, and what tops up.
Drawn(n) ==
  UNION {UNION {UNION {{<<easy, medium, hard, top>> :
                          top \in LET so_far == easy \cup medium \cup hard IN
                                  Draws(Bank \ so_far, n - Cardinality(so_far))} :
                       hard \in Draws(Tier("hard"), Mix(n).hard)} :
                medium \in Draws(Tier("medium"), Mix(n).medium)} :
         easy \in Draws(Tier("easy"), Mix(n).easy)}

\* Mutant: endpoints are not compared.
Dedupe_Not(rounds) == {UNION {rounds[i] : i \in DOMAIN rounds}}

\* Of two templates of one endpoint the one drawn first stays.  Two may be drawn
\* in the same round, to top up; then either is the first.
Dedupe(rounds) ==
  LET drawn == UNION {rounds[i] : i \in DOMAIN rounds}
      Round(t) == CHOOSE i \in DOMAIN rounds : t \in rounds[i]
  IN  {S \in SUBSET drawn :
         \A t \in drawn : \E u \in S :
            /\ u.endpoint = t.endpoint /\ Round(u) <= Round(t)
            /\ \A v \in S : v.endpoint = t.endpoint => v = u}

\* seed_match: what a target may be seeded with.
Samples(n) == UNION {Dedupe(rounds) : rounds \in Drawn(n)}
=============================================================================
