---------------------------- MODULE BroadcastLog ----------------------------
(***************************************************************************)
(* What the event bus promises, without queues: an append-only log and one *)
(* cursor per reader.  A reader starts at most MaxReplay entries behind,   *)
(* moves forward one entry at a time, and is cut off from later entries    *)
(* only when it is MaxLag entries behind.                                  *)
(***************************************************************************)
EXTENDS Integers

CONSTANTS Readers, MaxReplay, MaxLag

VARIABLES
  length,   \* entries in the log
  pos,      \* entries before the reader's cursor
  end,      \* entries the reader may still come to see
  reader    \* "absent", "attached", "cut" or "gone"

vars == <<length, pos, end, reader>>

Init ==
  /\ length = 0
  /\ pos = [r \in Readers |-> 0]
  /\ end = [r \in Readers |-> 0]
  /\ reader = [r \in Readers |-> "absent"]

\* One more entry; attached readers follow, those too far behind may be cut.
Extend ==
  /\ length' = length + 1
  /\ \E cut \in SUBSET {r \in Readers : reader[r] = "attached" /\ length - pos[r] >= MaxLag} :
       /\ reader' = [r \in Readers |-> IF r \in cut THEN "cut" ELSE reader[r]]
       /\ end' = [r \in Readers |->
                    IF reader[r] = "attached" /\ r \notin cut THEN length + 1 ELSE end[r]]
  /\ UNCHANGED pos

Join(r) ==
  /\ reader[r] = "absent"
  /\ reader' = [reader EXCEPT ![r] = "attached"]
  /\ \E start \in 0 .. length :
       /\ length - start <= MaxReplay
       /\ pos' = [pos EXCEPT ![r] = start]
  /\ end' = [end EXCEPT ![r] = length]
  /\ UNCHANGED length

Read(r) ==
  /\ reader[r] \in {"attached", "cut"}
  /\ pos[r] < end[r]
  /\ pos' = [pos EXCEPT ![r] = @ + 1]
  /\ UNCHANGED <<length, end, reader>>

Quit(r) ==
  /\ reader[r] \in {"attached", "cut"}
  /\ reader' = [reader EXCEPT ![r] = "gone"]
  /\ UNCHANGED <<length, pos, end>>

Next == Extend \/ \E r \in Readers : Join(r) \/ Read(r) \/ Quit(r)

Spec == Init /\ [][Next]_vars
=============================================================================
