-------------------------------- MODULE Runtime --------------------------------
(***************************************************************************)
(* The agent runtime of one combatant (hostile_mesh_runtime): the          *)
(* orchestrator's turn loop, the conversation it keeps, the model client   *)
(* with its retries, the compressor, the tool registry and the loop        *)
(* detector.  run() is a generator: it gives control back at every event   *)
(* it yields, and stands still until it is asked for the next.             *)
(***************************************************************************)
EXTENDS Naturals, Sequences, SequencesExt

CONSTANTS
  MaxTurns,         \* turns of one run
  KeepLast,         \* messages kept by a compression
  MaxRetries,       \* of a model call
  MaxExactRepeats, MaxCycleLength,   \* the loop detector's limits
  Tools,            \* the names the model may call
  Registered,       \* the tools of the session
  Lines, Requests,  \* what the loop detector tells apart in replies and calls
  MaxCalls,         \* bound: tool calls in one reply
  MaxTurn           \* bound: no run starts after this many turns

ASSUME RuntimeAssumption ==
  /\ MaxTurns \in Nat \ {0} /\ KeepLast \in Nat \ {0} /\ MaxRetries \in Nat
  /\ MaxExactRepeats \in Nat \ {0} /\ MaxCycleLength \in Nat \ {0, 1}
  /\ Registered \subseteq Tools /\ MaxCalls \in Nat \ {0} /\ MaxTurn \in Nat

VARIABLES
  messages,   \* the conversation
  turn,       \* Session.turn
  ran,        \* turns of this run
  pc,         \* where the generator stands
  attempt,    \* of the model call in progress
  text,       \* the attempts whose text is in the reply
  calls,      \* the tool calls of the reply: the attempt each one is from
  k,          \* the call being run
  running,    \* the tool that is being awaited
  usage,      \* the tokens of the latest reply: "low", or past the threshold
  history     \* what the loop detector has recorded

runVars == <<messages, turn, ran, pc, attempt, text, calls, k, running, usage, history>>

None == "none"
User       == [kind |-> "user", turn |-> 0]
Summary    == [kind |-> "summary", turn |-> 0]
Text       == [kind |-> "text", turn |-> 0]
Uses(t)    == [kind |-> "uses", turn |-> t]
Results(t) == [kind |-> "results", turn |-> t]

\* Control is with the caller of the generator, or inside an await of it.
Yields == {"started", "turn", "compressed", "delta", "spoke", "call", "called",
           "looped", "turned"}
Awaits == {"compress", "stream", "tool"}

ReplaceWithSummary(ms) ==
  <<Summary>> \o (IF Len(ms) <= KeepLast THEN ms ELSE SubSeq(ms, Len(ms) - KeepLast + 1, Len(ms)))

\* The detector remembers more, but looks no further back.
Window == IF MaxExactRepeats > 2 * MaxCycleLength THEN MaxExactRepeats ELSE 2 * MaxCycleLength

\* Mutant: a history without maxlen.
Record_Unbounded(h, action) == Append(h, action)

Record(h, action) ==
  LET all == Append(h, action)
  IN IF Len(all) <= Window THEN all ELSE Tail(all)

Looping(h) ==
  LET n == Len(h) IN
  \/ /\ n >= MaxExactRepeats /\ n >= 2
     /\ \A i \in n - MaxExactRepeats + 1 .. n : h[i] = h[n]
  \/ /\ n >= 2 * MaxCycleLength
     /\ \E c \in 2..MaxCycleLength : \A i \in n - c + 1 .. n : h[i] = h[i - c]

-----------------------------------------------------------------------------
\* run(prompt): agent_start is yielded before the prompt is stored.
Launch ==
  /\ pc \in {"off", "over"}
  /\ pc' = "started" /\ ran' = 0
  /\ UNCHANGED <<messages, turn, attempt, text, calls, k, running, usage, history>>

BeginRun ==
  /\ pc = "started"
  /\ messages' = Append(messages, User)
  /\ turn' = turn + 1 /\ ran' = 1 /\ pc' = "turn"
  /\ UNCHANGED <<attempt, text, calls, k, running, usage, history>>

CallModel ==
  /\ pc' = "stream" /\ attempt' = 0 /\ text' = {} /\ calls' = <<>>
  /\ UNCHANGED <<messages, turn, ran, k, running, usage, history>>

BeginTurn ==
  /\ pc = "turn"
  /\ \/ usage = "high" /\ pc' = "compress"
        /\ UNCHANGED <<messages, turn, ran, attempt, text, calls, k, running, usage, history>>
     \/ usage = "low" /\ CallModel

\* The summary is whatever text arrived, before an error of the call or not.
Compress ==
  /\ pc = "compress"
  /\ messages' = ReplaceWithSummary(messages) /\ pc' = "compressed"
  /\ UNCHANGED <<turn, ran, attempt, text, calls, k, running, usage, history>>

NoSummary == pc = "compress" /\ CallModel
Compressed == pc = "compressed" /\ CallModel

\* A delta is yielded at once; a tool call only when the reply is complete.
TextDelta ==
  /\ pc = "stream" /\ attempt \notin text
  /\ text' = text \cup {attempt} /\ pc' = "delta"
  /\ UNCHANGED <<messages, turn, ran, attempt, calls, k, running, usage, history>>

NextDelta ==
  /\ pc = "delta" /\ pc' = "stream"
  /\ UNCHANGED <<messages, turn, ran, attempt, text, calls, k, running, usage, history>>

ToolCallStart ==
  /\ pc = "stream" /\ Len(calls) < MaxCalls
  /\ calls' = Append(calls, attempt)
  /\ UNCHANGED <<messages, turn, ran, pc, attempt, text, k, running, usage, history>>

\* Mutant: the calls begun by the attempt that failed are kept.
Begun_Kept(cs) == cs

\* partial_tool_calls belongs to the attempt, the text already yielded does not.
Begun(cs) == <<>>

Retry ==
  /\ pc = "stream" /\ attempt < MaxRetries
  /\ attempt' = attempt + 1 /\ calls' = Begun(calls)
  /\ UNCHANGED <<messages, turn, ran, pc, text, k, running, usage, history>>

\* The generator is over; its locals are gone.
Abandon ==
  /\ pc' = "over" /\ ran' = 0 /\ running' = None
  /\ attempt' = 0 /\ text' = {} /\ calls' = <<>> /\ k' = 1

\* An ERROR event ends the run; the reply is dropped.
GiveUp ==
  /\ pc = "stream" /\ Abandon
  /\ UNCHANGED <<messages, turn, usage, history>>

AddAssistantBlocks ==
  messages' = IF calls # <<>> THEN Append(messages, Uses(turn))
              ELSE IF text # {} THEN Append(messages, Text) ELSE messages

\* After the reply: its first tool call, or the end of the run.
Reply ==
  /\ AddAssistantBlocks
  /\ IF calls = <<>>
       THEN Abandon
       ELSE k' = 1 /\ text' = {} /\ pc' = "call" /\ UNCHANGED <<ran, attempt, calls, running>>

MessageComplete ==
  /\ pc = "stream"
  /\ usage' \in {"low", "high"}
  /\ IF text # {}
       THEN pc' = "spoke" /\ UNCHANGED <<messages, ran, attempt, text, calls, k, running>>
       ELSE Reply
  /\ UNCHANGED <<turn, history>>

Spoke ==
  /\ pc = "spoke" /\ Reply
  /\ \E line \in Lines : history' = Record(history, line)
  /\ UNCHANGED <<turn, usage>>

\* invoke refuses an unknown tool and parameters that do not fit its schema.
Refused(tool, valid) == tool \notin Registered \/ ~valid

\* A call is recorded with its tool and arguments.
RecordCall == \E request \in Requests : history' = Record(history, request)

\* A call that is refused, or whose tool has its result without waiting.
RunAtOnce ==
  /\ pc = "call" /\ pc' = "called"
  /\ RecordCall
  /\ UNCHANGED <<messages, turn, ran, attempt, text, calls, k, running, usage>>

Await(tool) ==
  /\ pc = "call" /\ tool \in Registered
  /\ pc' = "tool" /\ running' = tool
  /\ RecordCall
  /\ UNCHANGED <<messages, turn, ran, attempt, text, calls, k, usage>>

\* The result, or the tool's exception, which invoke turns into a result.
ToolReturns ==
  /\ pc = "tool" /\ pc' = "called" /\ running' = None
  /\ UNCHANGED <<messages, turn, ran, attempt, text, calls, k, usage, history>>

NextCall ==
  /\ pc = "called" /\ k < Len(calls)
  /\ k' = k + 1 /\ pc' = "call"
  /\ UNCHANGED <<messages, turn, ran, attempt, text, calls, running, usage, history>>

AddToolResults ==
  /\ pc = "called" /\ k = Len(calls)
  /\ messages' = Append(messages, Results(turn))
  /\ pc' = IF Looping(history) THEN "looped" ELSE "turned"
  /\ attempt' = 0 /\ calls' = <<>> /\ k' = 1
  /\ UNCHANGED <<turn, ran, text, running, usage, history>>

Nudge ==
  /\ pc = "looped" /\ pc' = "turned"
  /\ messages' = Append(messages, User)
  /\ UNCHANGED <<turn, ran, attempt, text, calls, k, running, usage, history>>

EndTurn ==
  /\ pc = "turned"
  /\ IF ran < MaxTurns
       THEN /\ pc' = "turn" /\ ran' = ran + 1 /\ turn' = turn + 1
            /\ UNCHANGED <<attempt, text, calls, k, running>>
       ELSE Abandon /\ UNCHANGED turn
  /\ UNCHANGED <<messages, usage, history>>

-----------------------------------------------------------------------------
\* _convert_messages_for_openai: tool results become messages of the role
\* "tool", everything else keeps its place.
Role(msg) ==
  CASE msg.kind \in {"user", "summary"} -> "user"
    [] msg.kind \in {"text", "uses"}    -> "assistant"
    [] msg.kind = "results"             -> "tool"

Wire(ms) == [i \in 1..Len(ms) |-> [role |-> Role(ms[i]), uses |-> ms[i].kind = "uses",
                                   turn |-> ms[i].turn]]

RunInit ==
  /\ messages = <<>> /\ turn = 0 /\ ran = 0 /\ pc = "off" /\ attempt = 0 /\ text = {}
  /\ calls = <<>> /\ k = 1 /\ running = None /\ usage = "low" /\ history = <<>>

\* The session is gone with its process.
RunGone ==
  /\ messages' = <<>> /\ turn' = 0 /\ ran' = 0 /\ pc' = "off" /\ attempt' = 0 /\ text' = {}
  /\ calls' = <<>> /\ k' = 1 /\ running' = None /\ usage' = "low" /\ history' = <<>>

RunTypeOK ==
  /\ \A i \in 1..Len(messages) :
       /\ messages[i].kind \in {"user", "summary", "text", "uses", "results"}
       /\ messages[i].turn \in 0..turn
  /\ turn \in 0..(MaxTurn + MaxTurns) /\ ran \in 0..MaxTurns
  /\ pc \in Yields \cup Awaits \cup {"off", "over", "raised"}
  /\ attempt \in 0..MaxRetries /\ text \subseteq 0..MaxRetries
  /\ calls \in Seq(0..MaxRetries) /\ Len(calls) <= MaxCalls /\ k \in 1..MaxCalls
  /\ running \in Tools \cup {None} /\ usage \in {"low", "high"}
  /\ history \in Seq(Requests \cup Lines) /\ Len(history) <= Window

\* Every request that reaches the model keeps the tool protocol: the message
\* with tool calls is followed at once by their results, and results follow
\* their calls, except where a compression has cut between the two: then they
\* come right after the summary (orchestrator.py, 22-145; combatant/main.py,
\* 203-212: the listener must not write to the conversation).
ToolUseAnswered ==
  pc = "stream" =>
    LET request == Wire(messages) IN
    /\ \A i \in 1..Len(request) : request[i].uses =>
         /\ i < Len(request)
         /\ request[i + 1].role = "tool" /\ request[i + 1].turn = request[i].turn
    /\ \A i \in 1..Len(request) : request[i].role = "tool" =>
         \/ i > 1 /\ request[i - 1].uses /\ request[i - 1].turn = request[i].turn
         \/ i = 2 /\ messages[1].kind = "summary"

\* The calls that are run all come from the attempt that completed, however
\* many attempts had begun calls before they failed (anthropic_client.py,
\* 128-147 and 149-241; openrouter_client.py likewise).
CallsFromOneReply ==
  pc \in {"spoke", "call", "tool", "called"} => \A i \in 1..Len(calls) : calls[i] = attempt
=============================================================================
