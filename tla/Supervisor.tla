------------------------------ MODULE Supervisor ------------------------------
(***************************************************************************)
(* The AXL nodes of a match (hostile_mesh_axl/config.py, supervisor.py, as *)
(* start_match and shutdown_match of the arena use them): the layout gives *)
(* the i-th agent the i-th port, the supervisor spawns the nodes one by    *)
(* one, hub first, and takes as a node's identity what answers on its      *)
(* port.  Every match lays its nodes out on the same ports.                *)
(***************************************************************************)
EXTENDS Naturals, Sequences, FiniteSets

CONSTANTS
  Meshes,    \* the matches, each with a supervisor
  Specs,     \* the agents of a match, in the order of their specs
  Hubs,      \* those marked as hub
  Nobody

ASSUME SupervisorAssumption ==
  /\ Nobody \notin Meshes
  /\ Specs \in Seq(STRING) /\ Len(Specs) > 0 /\ Cardinality(Hubs) <= 1

VARIABLES
  sup,       \* where each supervisor is
  cursor,    \* how many nodes it has spawned
  polled,    \* its current node was alive, /topology is being asked
  proc,      \* the process of each node: "none", "live" or "dead"
  port,      \* the match whose node has the port of this index
  peer       \* the match whose node gave its key to this node

supVars == <<sup, cursor, polled, proc, port, peer>>

Index == 1..Len(Specs)

\* The first agent is promoted when no hub is marked.
Hub == IF Hubs = {} THEN Specs[1] ELSE CHOOSE h \in Hubs : TRUE

\* materialize: a node's port is a fixed base plus its index.
ApiPort(i) == i

\* start_all: hub first, the others in their order.
SpawnOrder ==
  LET IsHub(i) == Specs[i] = Hub  IsSpoke(i) == Specs[i] # Hub
      all == [i \in Index |-> i]
  IN SelectSeq(all, IsHub) \o SelectSeq(all, IsSpoke)

Current(m) == SpawnOrder[cursor[m]]

-----------------------------------------------------------------------------
\* _spawn, for the first node and after each that is ready.
Spawn(m) ==
  /\ \/ sup[m] = "new" \/ sup[m] = "next"
  /\ cursor[m] < Len(Specs)
  /\ sup' = [sup EXCEPT ![m] = "waiting"]
  /\ cursor' = [cursor EXCEPT ![m] = @ + 1]
  /\ proc' = [proc EXCEPT ![m][SpawnOrder[cursor[m] + 1]] = "live"]
  /\ UNCHANGED <<polled, port, peer>>

\* One round of _await_ready: a dead process ends start_all.
Poll(m) ==
  /\ sup[m] = "waiting" /\ ~polled[m]
  /\ \/ /\ proc[m][Current(m)] = "live"
        /\ polled' = [polled EXCEPT ![m] = TRUE] /\ UNCHANGED sup
     \/ /\ proc[m][Current(m)] = "dead"
        /\ sup' = [sup EXCEPT ![m] = "failed"] /\ UNCHANGED polled
  /\ UNCHANGED <<cursor, proc, port, peer>>

\* /topology answers: whoever has the port gives its key.
TopologyAnswers(m) ==
  LET owner == port[ApiPort(Current(m))] IN
  /\ sup[m] = "waiting" /\ polled[m] /\ owner # Nobody
  /\ peer' = [peer EXCEPT ![m][Current(m)] = owner]
  /\ polled' = [polled EXCEPT ![m] = FALSE]
  /\ sup' = [sup EXCEPT ![m] = IF cursor[m] = Len(Specs) THEN "started" ELSE "next"]
  /\ UNCHANGED <<cursor, proc, port>>

\* It does not: another round, or the deadline has passed.
TopologyFails(m) ==
  /\ sup[m] = "waiting" /\ polled[m]
  /\ polled' = [polled EXCEPT ![m] = FALSE]
  /\ \/ UNCHANGED sup
     \/ sup' = [sup EXCEPT ![m] = "failed"]
  /\ UNCHANGED <<cursor, proc, port, peer>>

\* Mutant: the hub outlives its match.
Terminated_Spokes(m) == {i \in Index : proc[m][i] = "live" /\ Specs[i] # Hub}

\* shutdown_match terminates the nodes of a registered supervisor, which one
\* whose start_all failed never is.
Terminated(m) == {i \in Index : proc[m][i] = "live"}

Shutdown(m) ==
  /\ sup[m] = "started"
  /\ sup' = [sup EXCEPT ![m] = "stopped"]
  /\ LET ended == Terminated(m) IN
     /\ proc' = [proc EXCEPT ![m] = [i \in Index |-> IF i \in ended THEN "dead" ELSE @[i]]]
     /\ port' = [i \in Index |-> IF port[i] = m /\ i \in ended THEN Nobody ELSE port[i]]
  /\ UNCHANGED <<cursor, polled, peer>>

-----------------------------------------------------------------------------
\* The AXL binary: binds its port, or exits when another has it; may crash.
Bind(m, i) ==
  /\ proc[m][i] = "live" /\ port[i] # m
  /\ IF port[i] = Nobody THEN port' = [port EXCEPT ![i] = m] /\ UNCHANGED proc
                         ELSE proc' = [proc EXCEPT ![m][i] = "dead"] /\ UNCHANGED port
  /\ UNCHANGED <<sup, cursor, polled, peer>>

NodeCrash(m, i) ==
  /\ proc[m][i] = "live"
  /\ proc' = [proc EXCEPT ![m][i] = "dead"]
  /\ port' = [port EXCEPT ![i] = IF @ = m THEN Nobody ELSE @]
  /\ UNCHANGED <<sup, cursor, polled, peer>>

SupInit ==
  /\ sup = [m \in Meshes |-> "new"] /\ cursor = [m \in Meshes |-> 0]
  /\ polled = [m \in Meshes |-> FALSE]
  /\ proc = [m \in Meshes |-> [i \in Index |-> "none"]]
  /\ port = [i \in Index |-> Nobody]
  /\ peer = [m \in Meshes |-> [i \in Index |-> Nobody]]

SupNext ==
  \E m \in Meshes :
    \/ Spawn(m) \/ Poll(m) \/ TopologyAnswers(m) \/ TopologyFails(m) \/ Shutdown(m)
    \/ \E i \in Index : Bind(m, i) \/ NodeCrash(m, i)

SupTypeOK ==
  /\ sup \in [Meshes -> {"new", "waiting", "next", "started", "failed", "stopped"}]
  /\ cursor \in [Meshes -> 0..Len(Specs)] /\ polled \in [Meshes -> BOOLEAN]
  /\ proc \in [Meshes -> [Index -> {"none", "live", "dead"}]]
  /\ port \in [Index -> Meshes \cup {Nobody}]
  /\ peer \in [Meshes -> [Index -> Meshes \cup {Nobody}]]

\* A node never gets its identity from the mesh of a match that was shut down:
\* a foreign one comes from a match that still runs on the same ports, or from
\* one whose start failed half-way and left its nodes (supervisor.py, 108-158).
NoStaleIdentity ==
  [][\A m \in Meshes : \A i \in Index :
       peer'[m][i] # peer[m][i] => sup[peer'[m][i]] # "stopped"]_supVars
=============================================================================
