------------------------------ MODULE MCArchive ------------------------------
(***************************************************************************)
(* Four scenes.  "match": the configuration is sound and the keystore is  *)
(* there; a match opens on the chain while a claim is archived and the     *)
(* match closes.  "fresh": the bootstrap script runs first, and the arena  *)
(* registers and pays an agent while the agent's own process starts.       *)
(* "chorus": a comment is recorded, its subnames first.  "guest": what the *)
(* archive offers and the arena does not call, after a match was opened.   *)
(***************************************************************************)
EXTENDS Archive, TLC
MCParent == [x \in {"m", "a", "chorus"} |-> "root"]
            @@ ("e" :> "m") @@ ("h" :> "chorus") @@ ("k" :> "h")
MCProgram == ("open" :> <<OpenMatch("m")>>)
          @@ ("claim" :> <<RecordEvent("e"), CloseMatch("m")>>)
          @@ ("agent" :> <<RegisterAgent("a"), Payout("a")>>)
          @@ ("tool" :> <<ChorusComment("k")>>)
          @@ ("guest" :> <<OpenMatch("m"), GrantSpectator("e"), RotateEndpoint("a")>>)

Present == {{"open", "claim"}, {"agent"}, {"tool"}, {"guest"}}

MCInit ==
  /\ RegInit /\ owned = FALSE
  /\ wallet = [p \in Process |-> [a \in Agents |-> "none"]]
  /\ making = [p \in Process |-> Idle]
  /\ arena = "down" /\ crashes = 0
  /\ results = [t \in Tasks |-> <<>>]
  /\ \E present \in Present :
       /\ task = [t \in Tasks |->
                    [stage |-> IF t \in present THEN "new" ELSE "over",
                     op |-> 1, step |-> 1, nonce |-> None]]
       /\ IF "agent" \notin present
            THEN /\ keyfile = [a \in Agents |-> "arena"]
                 /\ stage = "exited" /\ acct = MissingKey /\ cut = FALSE
                 /\ label = FirstLabel
                 /\ env = [key |-> OldKey, parent |-> FirstLabel]
                 /\ owner = [l \in Labels |-> IF l = FirstLabel THEN OldKey ELSE MissingKey]
            ELSE /\ keyfile = [a \in Agents |-> "none"]
                 /\ ScriptInit

MCSpec == MCInit /\ [][Next]_vars /\ Fairness
=============================================================================
