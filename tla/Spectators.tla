------------------------------- MODULE Spectators -------------------------------
(***************************************************************************)
(* Who follows a match on the event bus: the scripted commentator, which   *)
(* publishes on the bus it reads (services/arena/commentary.py), the       *)
(* judges of the chorus, processes that read the stream and post comments  *)
(* (services/chorus/main.py), and the store of the web page, which loses   *)
(* its connection and is replayed the backlog (apps/ui).  The bus is the   *)
(* log that EventBus implements.                                           *)
(***************************************************************************)
EXTENDS Integers, Sequences, FiniteSets

CONSTANTS
  Commentator, Judges,
  Connections,   \* of the page, one after the other: a sequence of readers
  MaxReplay,     \* length of the backlog
  MaxLag,        \* length of a subscriber's queue
  MaxReactions,  \* scripted chorus lines for one event
  LogKept,       \* entries the page keeps in its action log
  MaxWire,       \* bound: frames between the arena and the page
  Fights,        \* kinds of combat events that happen
  MaxFights      \* bound: combat events

Lifecycle == <<"opening", "seeded", "started", "finished">>
Combat == {"probe", "attempt", "verified", "failed", "patched", "broke"}
Logged == Combat \cup {"submitted"}
Noteworthy == Logged \cup {"claim", "opening", "finished"}

\* Every stream is a subscriber of its own.
ASSUME SpectatorsAssumption ==
  /\ MaxReplay \in Nat /\ MaxLag \in Nat /\ MaxReactions \in Nat
  /\ LogKept \in Nat \ {0} /\ MaxWire \in Nat \ {0} /\ MaxFights \in Nat
  /\ Fights \subseteq Logged
  /\ IsFiniteSet(Judges) /\ Commentator \notin Judges
  /\ Connections \in Seq({Connections[i] : i \in DOMAIN Connections})
  /\ \A i, j \in DOMAIN Connections : Connections[i] = Connections[j] => i = j
  /\ \A i \in DOMAIN Connections : Connections[i] \notin Judges \cup {Commentator}

VARIABLES length, pos, end, reader     \* the bus, as its readers see it

Readers == {Commentator} \cup Judges \cup {Connections[i] : i \in DOMAIN Connections}
Bus == INSTANCE BroadcastLog

VARIABLES
  feed,    \* the kinds of the events published
  stage,   \* lifecycle events published so far
  fights,  \* combat events so far
  unscored,\* verdicts whose score.updated is still to be published
  script,  \* what the commentator has yet to say of the event it handles
  judge,   \* of every judge: where its loop stands
  resting, \* its rate limit has not passed
  late,    \* its deadline has passed
  link,    \* the connection of the page; 0 before the first
  online,  \* it is open
  wire,    \* frames on their way to the page
  log,     \* actionLog: positions in the feed
  bugs,    \* seededBugs: positions in the feed
  board    \* matchState.scores, -1 while there are none

busVars == <<length, pos, end, reader, feed>>
arenaVars == <<stage, fights, unscored>>
judgeVars == <<judge, resting, late>>
pageVars == <<link, online, wire, log, bugs, board>>
vars == <<busVars, arenaVars, script, judgeVars, pageVars>>

Count(kinds, upto) == Cardinality({i \in 1 .. upto : feed[i] \in kinds})

Init ==
  /\ Bus!Init /\ feed = <<>>
  /\ stage = 0 /\ fights = 0 /\ unscored = 0 /\ script = <<>>
  /\ judge = [j \in Judges |-> "off"]
  /\ resting = [j \in Judges |-> FALSE] /\ late = [j \in Judges |-> FALSE]
  /\ link = 0 /\ online = FALSE /\ wire = <<>>
  /\ log = <<>> /\ bugs = <<>> /\ board = -1

\* bus.publish; a subscriber whose queue is full is discarded.
Publish(kind) == Bus!Extend /\ feed' = Append(feed, kind)

\* bus.subscribe replays the whole deque.
Subscribe(r) ==
  /\ Bus!Join(r)
  /\ pos'[r] = IF length > MaxReplay THEN length - MaxReplay ELSE 0
  /\ UNCHANGED feed
-----------------------------------------------------------------------------
\* start_match and shutdown_match; nobody here acts on combat.payout.
Advance ==
  /\ stage < Len(Lifecycle)
  /\ Publish(Lifecycle[stage + 1]) /\ stage' = stage + 1
  /\ UNCHANGED <<fights, unscored, script, judgeVars, pageVars>>

\* The nodes did not start: no agent is spawned, and shutdown_match is called.
Aborted == \E i \in DOMAIN feed : feed[i] = "aborted"

Abort ==
  /\ stage = 2 /\ \A j \in Judges : judge[j] \in {"off", "exited"}
  /\ Publish("aborted") /\ stage' = 3
  /\ UNCHANGED <<fights, unscored, script, judgeVars, pageVars>>

\* The tools and the two verdict handlers, also while the match is settled;
\* what a combatant says is posted to /api/commentary/say.
Fight ==
  /\ stage >= 3 /\ ~Aborted /\ fights < MaxFights
  /\ \E kind \in Fights \cup {"claim"} :
       /\ Publish(kind)
       /\ unscored' = unscored + IF kind \in {"verified", "failed", "patched"} THEN 1 ELSE 0
  /\ fights' = fights + 1
  /\ UNCHANGED <<stage, script, judgeVars, pageVars>>

\* score.updated follows the verdict once the archive has answered.
ScoreUpdated ==
  /\ unscored > 0
  /\ Publish("score") /\ unscored' = unscored - 1
  /\ UNCHANGED <<stage, fights, script, judgeVars, pageVars>>
-----------------------------------------------------------------------------
\* The task of the commentator starts with the server.
CommentatorStarts ==
  /\ Subscribe(Commentator)
  /\ UNCHANGED <<arenaVars, script, judgeVars, pageVars>>

\* The lines of attacker and defender, then one to three archetypes.
Bubbles(kind) ==
  LET claims == IF kind \in {"verified", "failed"} THEN <<"claim", "claim">> ELSE <<"claim">>
      Comments(n) == [i \in 1 .. n |-> "comment"]
  IN  IF kind = "probe" THEN {claims} ELSE {claims \o Comments(n) : n \in 1 .. MaxReactions}

\* Mutant: claims have a script of their own.
Scripted_Claims(kind) == kind \in Combat \cup {"claim"}

Scripted(kind) == kind \in Combat

\* _handle: what has no template is passed over.
CommentatorHears ==
  /\ script = <<>> /\ Bus!Read(Commentator)
  /\ LET kind == feed[pos[Commentator] + 1] IN
     IF Scripted(kind) THEN script' \in Bubbles(kind) ELSE UNCHANGED script
  /\ UNCHANGED <<feed, arenaVars, judgeVars, pageVars>>

\* After a delay of its own, every line is published.
CommentatorSpeaks ==
  /\ script # <<>>
  /\ Publish(Head(script)) /\ script' = Tail(script)
  /\ UNCHANGED <<arenaVars, judgeVars, pageVars>>
-----------------------------------------------------------------------------
\* A judge process starts: without an API key it sleeps through the match.
JudgeStarts(j) ==
  /\ judge[j] = "off" /\ stage >= 2 /\ ~Aborted
  /\ \/ Subscribe(j) /\ judge' = [judge EXCEPT ![j] = "reading"]
     \/ judge' = [judge EXCEPT ![j] = "mute"] /\ UNCHANGED busVars
  /\ UNCHANGED <<arenaVars, script, resting, late, pageVars>>

\* A line with an event that is passed over or asks for a reaction.
JudgeReads(j) ==
  /\ judge[j] = "reading" /\ ~late[j] /\ Bus!Read(j)
  /\ LET kind == feed[pos[j] + 1] IN
     /\ kind # "finished"
     /\ judge' = [judge EXCEPT ![j] =
                    IF kind \in Noteworthy /\ ~resting[j] THEN "asking" ELSE "reading"]
  /\ UNCHANGED <<feed, arenaVars, script, resting, late, pageVars>>

\* _react returns a line, or nothing after an error.  The rate limit counts from
\* the time before the call, and may be over when it returns.
JudgeReacts(j) ==
  /\ judge[j] = "asking"
  /\ \/ /\ judge' = [judge EXCEPT ![j] = "posting"]
        /\ resting' \in {resting, [resting EXCEPT ![j] = TRUE]}
     \/ judge' = [judge EXCEPT ![j] = "reading"] /\ UNCHANGED resting
  /\ UNCHANGED <<busVars, arenaVars, script, late, pageVars>>

\* The comment is posted; a post that fails is ignored.
JudgePosts(j) ==
  /\ judge[j] = "posting"
  /\ Publish("comment") \/ UNCHANGED busVars
  /\ judge' = [judge EXCEPT ![j] = "reading"]
  /\ UNCHANGED <<arenaVars, script, resting, late, pageVars>>

\* Mutant: the deadline is looked at when an event has been parsed.
Overdue_OnEvents(j) == late[j] /\ pos[j] < end[j]

\* The deadline is looked at for any line, the keep-alive comments included.
Overdue(j) == late[j]

\* The loop is left, or the stream raises; the connection is closed.
JudgeLeaves(j) ==
  /\ \/ judge[j] = "reading" /\ Overdue(j)
     \/ judge[j] = "reading" /\ pos[j] < end[j] /\ feed[pos[j] + 1] = "finished"
  /\ judge' = [judge EXCEPT ![j] = "exited"]
  /\ Bus!Quit(j)
  /\ UNCHANGED <<feed, arenaVars, script, resting, late, pageVars>>

StreamFails(j) ==
  /\ judge[j] = "reading"
  /\ judge' = [judge EXCEPT ![j] = "exited"]
  /\ Bus!Quit(j)
  /\ UNCHANGED <<feed, arenaVars, script, resting, late, pageVars>>

MuteEnds(j) ==
  /\ judge[j] = "mute" /\ late[j]
  /\ judge' = [judge EXCEPT ![j] = "exited"]
  /\ UNCHANGED <<busVars, arenaVars, script, resting, late, pageVars>>

\* Time: the rate limit is over; the deadline of a running judge passes.
Rested(j) ==
  /\ resting[j] /\ resting' = [resting EXCEPT ![j] = FALSE]
  /\ UNCHANGED <<busVars, arenaVars, script, judge, late, pageVars>>

Deadline(j) ==
  /\ judge[j] \notin {"off", "exited"} /\ ~late[j]
  /\ late' = [late EXCEPT ![j] = TRUE]
  /\ UNCHANGED <<busVars, arenaVars, script, judge, resting, pageVars>>
-----------------------------------------------------------------------------
Stream == Connections[link]

\* connect().
Connect ==
  /\ ~online /\ link < Len(Connections) /\ stage > 0
  /\ link' = link + 1 /\ online' = TRUE /\ Subscribe(Connections[link + 1])
  /\ UNCHANGED <<arenaVars, script, judgeVars, wire, log, bugs, board>>

\* Mutant: events carry a copy of the scoreboards.
Score_Copied(at) == Count({"verified"}, at)

\* Events carry the __dict__ of the scoreboards: what is serialised is the score
\* at that time, not when the event was published.
Score(at) == Count({"verified"}, length)

\* The arena writes the next frame of the stream.
SendFrame ==
  /\ online /\ Len(wire) < MaxWire /\ Bus!Read(Stream)
  /\ wire' = Append(wire, [at |-> pos[Stream] + 1, score |-> Score(pos[Stream] + 1)])
  /\ UNCHANGED <<feed, arenaVars, script, judgeVars, link, online, log, bugs, board>>

\* onerror: the frames that were not read are lost.
Disconnect ==
  /\ online
  /\ online' = FALSE /\ wire' = <<>> /\ Bus!Quit(Stream)
  /\ UNCHANGED <<feed, arenaVars, script, judgeVars, link, log, bugs, board>>

Last(n, s) == IF Len(s) > n THEN SubSeq(s, Len(s) - n + 1, Len(s)) ELSE s

\* pushLogEntry: a wound has an entry on either side.
Entries(at) ==
  CASE feed[at] = "verified" -> <<at, at>>
    [] feed[at] \in Logged \ {"verified"} -> <<at>>
    [] OTHER -> <<>>

\* Mutant: the lists are emptied when the match has started.
Resets_OnStart(kind) == kind = "started"

Resets(kind) == kind = "opening"

\* ingest(), for a frame of a type the page listens for.
Ingest ==
  /\ wire # <<>>
  /\ wire' = Tail(wire)
  /\ LET at == Head(wire).at
         kind == feed[at]
         kept(list) == IF Resets(kind) THEN <<>> ELSE list
     IN  /\ log' = Last(LogKept, kept(log) \o Entries(at))
         /\ bugs' = kept(bugs) \o IF kind = "seeded" THEN <<at>> ELSE <<>>
         /\ board' = IF kind = "aborted" THEN -1
                     ELSE IF kind \in {"started", "finished"} \/ (kind = "score" /\ board >= 0)
                     THEN Head(wire).score ELSE board
  /\ UNCHANGED <<busVars, arenaVars, script, judgeVars, link, online>>
-----------------------------------------------------------------------------
Next ==
  \/ Advance \/ Abort \/ Fight \/ ScoreUpdated
  \/ CommentatorStarts \/ CommentatorHears \/ CommentatorSpeaks
  \/ \E j \in Judges :
       \/ JudgeStarts(j) \/ JudgeReads(j) \/ JudgeReacts(j) \/ JudgePosts(j)
       \/ JudgeLeaves(j) \/ StreamFails(j) \/ MuteEnds(j) \/ Rested(j) \/ Deadline(j)
  \/ Connect \/ SendFrame \/ Disconnect \/ Ingest

\* Time passes; a judge goes on with what it does: its model answers or fails,
\* its post takes 4 s at most, and a stream that is silent carries keep-alives.
Fairness ==
  \A j \in Judges :
    /\ WF_vars(Deadline(j)) /\ WF_vars(JudgeReacts(j)) /\ WF_vars(JudgePosts(j))
    /\ WF_vars(JudgeLeaves(j)) /\ WF_vars(MuteEnds(j))

Spec == Init /\ [][Next]_vars /\ Fairness
-----------------------------------------------------------------------------
\* The chatter about the events of a match dies out: the commentator answers a
\* combat event with a script, a judge an event with one comment, and neither
\* answers what is only said about it.
ChatterIsBounded ==
  /\ Count({"claim"}, length) <= fights + 2 * Count(Combat, length)
  /\ Count({"comment"}, length) <=
       MaxReactions * Count(Combat, length) + Cardinality(Judges) * Count(Noteworthy, length)

TypeOK ==
  /\ Len(feed) = length /\ stage \in 0 .. Len(Lifecycle)
  /\ fights \in 0 .. MaxFights /\ unscored \in 0 .. MaxFights
  /\ \A j \in Judges : judge[j] \in {"off", "mute", "reading", "asking", "posting", "exited"}
  /\ link \in 0 .. Len(Connections) /\ Len(wire) <= MaxWire /\ Len(log) <= LogKept
  /\ ChatterIsBounded

\* What the page would show had it followed the match without a break.
Complete ==
  LET Listed[i \in 0 .. length] == IF i = 0 THEN <<>> ELSE Listed[i - 1] \o Entries(i)
  IN  Listed[length]

\* A page that has caught up on a connection whose replay began with the opening
\* of the match shows every combat event and every seeded bug once, in order, up
\* to what its log keeps - however often it was disconnected before, and though
\* every replay repeats what it has shown (store.ts:91-102, useEventStream.ts:34).
PageIsComplete ==
  /\ online /\ wire = <<>> /\ reader[Stream] = "attached"
  /\ pos[Stream] = length /\ length <= MaxReplay
  => /\ log = Last(LogKept, Complete)
     /\ Len(bugs) = Count({"seeded"}, length)

\* The scores the page shows never go back, though a reconnected page is replayed
\* old score.updated and match.started events (manager.py:655-661 and 99-115 hand
\* out the live __dict__ of the scoreboards); they are taken away only when a
\* match was aborted, whose event carries a reason and no scores.
BoardNeverDrops == [][board' >= board \/ (Aborted /\ board' = -1)]_board

\* Every judge process ends, also one whose stream was discarded by the bus and
\* carries no event any more.
ChorusExits == \A j \in Judges : judge[j] # "off" ~> judge[j] = "exited"
=============================================================================
