--------------------------------- MODULE Mesh ---------------------------------
(***************************************************************************)
(* One combatant's view of the AXL mesh (hostile_mesh_axl/mesh.py,         *)
(* client.py): the opponent broadcasts on the duel channel through its own *)
(* node, AXL carries the envelopes to this agent's node, and the receive   *)
(* loop polls them, drops those it has seen and queues the others.  AXL    *)
(* may lose an envelope, deliver it twice or out of order.                 *)
(***************************************************************************)
EXTENDS Naturals, Sequences, FiniteSets

CONSTANTS
  MaxEnvelopes,  \* bound: how many envelopes the opponent broadcasts
  SeenLimit,     \* ids remembered before the set is trimmed (4096)
  SeenKept       \* ids kept by the trim (2048)

ASSUME MeshAssumption ==
  /\ MaxEnvelopes \in Nat /\ SeenLimit \in Nat /\ SeenKept \in 0..SeenLimit

VARIABLES
  spoken,   \* how many envelopes the opponent has broadcast; an id is a number
  wire,     \* what AXL holds for this node: copies of each envelope
  loop,     \* the receive loop: "off", "on", "dead" or "stopped"
  seen,     \* _seen_ids
  inbox,    \* the envelopes queued, in order
  trimmed   \* history: the set of seen ids has been trimmed

meshVars == <<spoken, wire, loop, seen, inbox, trimmed>>

Envelope == 1..MaxEnvelopes

\* What else a node may be handed: bytes that are no JSON, and JSON that is no
\* envelope.
Garbage == MaxEnvelopes + 1
Foreign == MaxEnvelopes + 2

\* send and broadcast of the opponent's process: the bridge takes the envelope,
\* or not (AxlError, no peer id); either way the broadcast goes on.
OpponentBroadcasts ==
  /\ spoken < MaxEnvelopes
  /\ spoken' = spoken + 1
  /\ \E copies \in 0..2 : wire' = [wire EXCEPT ![spoken + 1] = copies]
  /\ UNCHANGED <<loop, seen, inbox, trimmed>>

StrangerSends ==
  /\ \E x \in {Garbage, Foreign} : wire[x] = 0 /\ wire' = [wire EXCEPT ![x] = 1]
  /\ UNCHANGED <<spoken, loop, seen, inbox, trimmed>>

\* start_recv_loop.
Listen ==
  /\ loop = "off" /\ loop' = "on"
  /\ UNCHANGED <<spoken, wire, seen, inbox, trimmed>>

\* recv takes the message off the node's queue.
Take(x) ==
  /\ loop = "on" /\ wire[x] > 0
  /\ wire' = [wire EXCEPT ![x] = @ - 1]

Malformed ==
  /\ Take(Garbage) /\ UNCHANGED <<spoken, loop, seen, inbox, trimmed>>

\* CombatEnvelope(**data) raises TypeError, which nothing in the loop catches.
UnexpectedFields ==
  /\ Take(Foreign) /\ loop' = "dead"
  /\ UNCHANGED <<spoken, seen, inbox, trimmed>>

Duplicate(id) ==
  /\ Take(id) /\ id \in seen
  /\ UNCHANGED <<spoken, loop, seen, inbox, trimmed>>

\* Mutant: the id is remembered only once the set has been trimmed.
Remember_Trimmed(id, kept) ==
  IF Cardinality(seen \cup {id}) > SeenLimit
    THEN Cardinality(kept) = SeenKept /\ kept \subseteq seen \cup {id}
    ELSE kept = seen

\* The ids kept: all of them, or when they are too many any SeenKept of them.
Remember(id, kept) ==
  IF Cardinality(seen \cup {id}) > SeenLimit
    THEN Cardinality(kept) = SeenKept /\ kept \subseteq seen \cup {id}
    ELSE kept = seen \cup {id}

Accepted(id) ==
  /\ Take(id) /\ id \notin seen
  /\ \E kept \in SUBSET Envelope : Remember(id, kept) /\ seen' = kept
  /\ trimmed' = (trimmed \/ Cardinality(seen \cup {id}) > SeenLimit)
  /\ inbox' = Append(inbox, id)
  /\ UNCHANGED <<spoken, loop>>

\* Mesh.stop, MeshNode.stop.
StopListening == loop' = IF loop = "on" THEN "stopped" ELSE loop

MeshInit ==
  /\ spoken = 0 /\ wire = [x \in Envelope \cup {Garbage, Foreign} |-> 0]
  /\ loop = "off" /\ seen = {} /\ inbox = <<>> /\ trimmed = FALSE

MeshNext ==
  \/ OpponentBroadcasts \/ StrangerSends \/ Malformed \/ UnexpectedFields
  \/ \E id \in Envelope : Duplicate(id) \/ Accepted(id)

MeshTypeOK ==
  /\ spoken \in 0..MaxEnvelopes /\ loop \in {"off", "on", "dead", "stopped"}
  /\ wire \in [Envelope \cup {Garbage, Foreign} -> 0..2]
  /\ seen \subseteq 1..spoken /\ inbox \in Seq(1..spoken) /\ trimmed \in BOOLEAN

\* Until the set of seen ids is first trimmed no envelope is queued twice, in
\* whatever order its copies arrive (mesh.py, 138-144).
ReplayOnlyAfterTrim ==
  ~trimmed => \A i, j \in 1..Len(inbox) : inbox[i] = inbox[j] => i = j
=============================================================================
