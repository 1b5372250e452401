----------------------------- MODULE MCEventBus -----------------------------
(***************************************************************************)
(* An instance of EventBus for TLC: a queue barely longer than the deque   *)
(* and enough events to evict from the deque and to overrun a queue.       *)
(***************************************************************************)
EXTENDS EventBus

CONSTANTS s1, s2

MCSubscribers == {s1, s2}
=============================================================================
