--------------------------------- MODULE MCDuel ---------------------------------
(***************************************************************************)
(* An instance of Duel for TLC: templates of every kind of witness, two of *)
(* one endpoint, one that races and one that is signed; two requests at a  *)
(* time against a target that is restarted once.  A session may have been  *)
(* opened by an earlier request, so that two transfers can meet.           *)
(***************************************************************************)
EXTENDS Duel, TLC

CONSTANTS s1, s2

MCSlots == {s1, s2}
Alike == Permutations(MCSlots)

MCBank ==
  {auth_bypass_login_empty_password, broken_access_priv_export,
   race_condition_transfer, auth_bypass_admin_header,
   sqli_login_concat, sig_replay_transfer}

MCEndpoints == {t.endpoint : t \in MCBank}

MCInit ==
  /\ seeded \in Samples(Size)
  /\ boot = 1 /\ ledger = <<>> /\ raced = {} /\ sent = 0
  /\ sessions \in {{}, {<<"alice", 1>>}}
  /\ balances = [u \in Users |-> SeedBalance]
  /\ call = [s \in Slots |-> NoCall]
  /\ DuelInit

MCSpec == MCInit /\ [][Next]_vars
=============================================================================
