------------------------------ MODULE MCCombatant ------------------------------
(***************************************************************************)
(* Three scenes.  "bring-up": the supervisors of two matches start and     *)
(* stop their nodes, the process is gone.  "mesh": the process idles and   *)
(* its node receives.  "fight": the process runs, the mesh is silent.      *)
(***************************************************************************)
EXTENDS Combatant
MCSpecs == <<"hub", "alice", "bob">>

Still == [m \in Meshes |-> "stopped"]

MCInit ==
  /\ RunInit
  /\ \/ /\ SupInit /\ MeshInit
        /\ stage = "exited" /\ clock = "out" /\ crosstalk = 0
     \/ /\ MeshInit /\ MainInit
        /\ sup = Still /\ cursor = [m \in Meshes |-> 0] /\ polled = [m \in Meshes |-> FALSE]
        /\ proc = [m \in Meshes |-> [i \in Index |-> "none"]]
        /\ port = [i \in Index |-> Nobody]
        /\ peer = [m \in Meshes |-> [i \in Index |-> Nobody]]

\* The mesh speaks only to a process that idles.
Scene == stage \in {"fight", "finally"} => spoken = 0 /\ wire[Garbage] = 0 /\ wire[Foreign] = 0

MCSpec == MCInit /\ [][Next /\ Scene']_vars /\ Fairness
=============================================================================
