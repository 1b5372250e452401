------------------------------ MODULE MCSpectators ------------------------------
(***************************************************************************)
(* Three scenes of a match.  "page": a page connects twice, nobody talks.  *)
(* "talk": commentator and judge have followed up to the wound of a fight. *)
(* "quiet": commentator and judge start late in a match nobody fights.     *)
(***************************************************************************)
EXTENDS Spectators

MCConnections == <<"page1", "page2">>

Opened == <<"opening", "seeded", "started">>
Talkers == {Commentator} \cup Judges

MCInit ==
  /\ script = <<>>
  /\ resting = [j \in Judges |-> FALSE] /\ late = [j \in Judges |-> FALSE]
  /\ online = FALSE /\ wire = <<>> /\ log = <<>> /\ bugs = <<>> /\ board = -1
  /\ \/ /\ feed = <<>> /\ stage = 0 /\ fights = 0 /\ unscored = 0
        /\ judge = [j \in Judges |-> "exited"] /\ link = 0
        /\ reader = [r \in Readers |-> IF r \in Talkers THEN "gone" ELSE "absent"]
        /\ pos = [r \in Readers |-> 0]
     \/ /\ feed = Opened \o <<"verified">> /\ stage = 3 /\ fights = MaxFights /\ unscored = 1
        /\ judge = [j \in Judges |-> "reading"] /\ link = Len(Connections)
        /\ reader = [r \in Readers |-> IF r \in Talkers THEN "attached" ELSE "gone"]
        /\ pos = [r \in Readers |-> IF r \in Talkers THEN 3 ELSE 0]
     \/ /\ feed = Opened /\ stage = 3 /\ fights = MaxFights /\ unscored = 0
        /\ judge = [j \in Judges |-> "off"] /\ link = Len(Connections)
        /\ reader = [r \in Readers |-> IF r \in Talkers THEN "absent" ELSE "gone"]
        /\ pos = [r \in Readers |-> 0]
  /\ length = Len(feed)
  /\ end = [r \in Readers |-> IF reader[r] = "attached" THEN length ELSE 0]

MCSpec == MCInit /\ [][Next]_vars /\ Fairness
=============================================================================
