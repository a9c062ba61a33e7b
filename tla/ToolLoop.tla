------------------------------- MODULE ToolLoop -------------------------------
(***************************************************************************)
(* adapters/langchaingo/tools.go: the node function of ToolModelNode, which *)
(* lets a chat model call MCP tools until it replies without a tool call.  *)
(* The whole loop is one durable node: an attempt that fails, or whose     *)
(* process stops, leaves nothing but the tool workflows it has scheduled,  *)
(* and the next one starts the conversation over (DurableRun: RunNode).    *)
(*                                                                         *)
(* ModelNode and, in adapters/eino, ChatModelNode call the model once and  *)
(* put out what it says.  The model is external and replies anything.      *)
(* Prompts, contents and arguments are left out, except whether arguments  *)
(* decode.                                                                 *)
(***************************************************************************)
EXTENDS MCP

CONSTANTS
  ToolName,      \* names the model may use, one it makes up among them
  HasSystem,     \* whether the node has a system prompt
  maxToolTurns,
  MaxCalls,      \* bound: tool calls in one reply of the model
  MaxAttempts    \* attempts at the node: retries and redeliveries

ASSUME ToolLoopAssumption ==
  /\ Offers \in [Server -> Seq(ToolName)]
  /\ HasSystem \in BOOLEAN
  /\ maxToolTurns \in Nat /\ MaxCalls \in Nat \ {0} /\ MaxAttempts \in Nat

VARIABLES
  node,     \* which node function it is
  pc,       \* of the attempt: model, tools, or how it ended
  turn,     \* the loop variable
  msgs,     \* the conversation
  todo,     \* calls of the last reply that have not been run
  attempt   \* attempts begun

loop == <<node, pc, turn, msgs, todo, attempt>>
vars == <<loop, mcpvars>>

-----------------------------------------------------------------------------
(* Conversations *)

ToolCall == [name : ToolName, decodes : BOOLEAN]

Said(role)      == [role |-> role]
Calls(calls)    == [role |-> "ai", calls |-> calls]
ResultOf(call, k) == [role |-> "tool", index |-> k, name |-> call.name]

Replies == UNION {[1..n -> ToolCall] : n \in 1..MaxCalls}

Prompt == IF HasSystem THEN <<Said("system"), Said("human")>>
          ELSE <<Said("human")>>

LastReply == SelectLastInSeq(msgs, LAMBDA m : m.role = "ai")
Index     == Len(msgs) - LastReply + 1

Init ==
  /\ node \in {"ToolModelNode", "ModelNode", "ChatModelNode"}
  /\ pc = "idle" /\ turn = 0 /\ msgs = <<>> /\ todo = <<>>
  /\ attempt = 0 /\ MCPInit

-----------------------------------------------------------------------------
(* The tools the node was given *)

\* byName: of two tools with one name the later one stays.
ByName(name) == SelectLastInSeq(found.tools, LAMBDA t : t.name = name)
Known(name)  == ByName(name) # 0

-----------------------------------------------------------------------------
\* The durable backend runs the node, for the first time or again after an
\* attempt that returned no output, or one that was never recorded.
Begin ==
  /\ found.done \/ node # "ToolModelNode"
  /\ pc \in {"idle", "error", "output"}
  /\ attempt < MaxAttempts
  /\ attempt' = attempt + 1
  /\ pc' = "model" /\ turn' = 0 /\ msgs' = Prompt /\ todo' = <<>>
  /\ UNCHANGED <<node, mcpvars>>

Ends(next)   == pc' = next /\ UNCHANGED <<node, turn, msgs, todo, attempt>>
Fail         == Ends("error") /\ UNCHANGED mcpvars
PutOut       == Ends("output") /\ UNCHANGED mcpvars

\* The other adapters' nodes: an error, no choice or a nil message; or a reply.
ModelNode     == node = "ModelNode" /\ pc = "model" /\ (Fail \/ PutOut)
ChatModelNode == node = "ChatModelNode" /\ pc = "model" /\ (Fail \/ PutOut)

InLoop    == node = "ToolModelNode" /\ pc = "model"
TurnsLeft == turn < maxToolTurns

\* GenerateContent fails or returns no choice.
ModelFails == InLoop /\ TurnsLeft /\ Fail

\* A reply without tool calls is the node's output.
ModelAnswers == InLoop /\ TurnsLeft /\ PutOut

\* The reply is added to the conversation before its tools run.
ModelCalls ==
  /\ InLoop /\ TurnsLeft
  /\ \E calls \in Replies :
       msgs' = Append(msgs, Calls(calls)) /\ todo' = calls
  /\ pc' = "tools"
  /\ UNCHANGED <<node, turn, attempt, mcpvars>>

\* "tool loop exceeded turns"
TurnsExceeded == InLoop /\ ~TurnsLeft /\ Fail

Runnable(call) == Known(call.name) /\ call.decodes

\* The workflow of the call at hand.
Call == [attempt |-> attempt, turn |-> turn, index |-> Index,
         tool |-> found.tools[ByName(Head(todo).name)]]

\* runWorkflow schedules the next call and waits; the reply may be an error,
\* whether or not the workflow was scheduled.
ScheduleTool ==
  /\ pc = "tools" /\ Runnable(Head(todo))
  /\ Scheduled(Call)
  /\ Ends("wait") \/ Ends("error")

ScheduleFails == pc = "tools" /\ Runnable(Head(todo)) /\ Fail

\* The tool's text is added to the conversation.
Unanswered(call) == msgs                          \* faulty variant
Answered(call)   == Append(msgs, ResultOf(call, Index))

AfterTools(rest) == IF rest = <<>> THEN "model" ELSE "tools"

WithoutWaiting == TRUE                            \* faulty variant
ReplyArrived   == CallText(Call)

ToolReturns ==
  /\ pc = "wait" /\ ReplyArrived
  /\ msgs' = Answered(Head(todo))
  /\ todo' = Tail(todo)
  /\ pc' = AfterTools(Tail(todo))
  /\ turn' = IF Tail(todo) = <<>> THEN turn + 1 ELSE turn
  /\ UNCHANGED <<node, attempt, mcpvars>>

ToolFails == pc = "wait" /\ CallError(Call) /\ Fail

\* The node's context ends, or the connection to the sidecar does.
WaitFails == pc = "wait" /\ Fail

\* An unknown tool, or arguments that are not a JSON object: calls of the same
\* reply that came before have been run.
CallRejected == pc = "tools" /\ ~Runnable(Head(todo)) /\ Fail

\* The process stops.
Crash == pc \in {"model", "tools", "wait"} /\ Fail

NodeStep ==
  \/ Begin \/ ModelNode \/ ChatModelNode \/ ModelFails \/ ModelAnswers \/ ModelCalls \/ TurnsExceeded
  \/ ScheduleTool \/ ScheduleFails \/ ToolReturns \/ ToolFails \/ WaitFails
  \/ CallRejected \/ Crash

SidecarStep == (Discover \/ \E wf \in open : RunTool(wf)) /\ UNCHANGED loop

Next == NodeStep \/ SidecarStep

Spec == Init /\ [][Next]_vars

-----------------------------------------------------------------------------
(* Properties *)

\* What the model is asked with is a conversation: after the prompt, each of its
\* replies is followed by exactly one result per tool call, in order, before the
\* next reply, whatever attempts came before.  It has replied once per
\* turn, at most maxToolTurns times.
RepliesIn(s) == {k \in 1..Len(s) : s[k].role = "ai"}

\* The calls of all replies: which reply, and which of its calls.
CallsIn(s) == {c \in RepliesIn(s) \X (1..MaxCalls) : c[2] <= Len(s[c[1]].calls)}

AnsweredReply(s, k) ==
  LET calls == s[k].calls
      next  == k + Len(calls) + 1
  IN  /\ Len(s) >= k + Len(calls)
      /\ \A j \in 1..Len(calls) :
           s[k + j] = [role |-> "tool", index |-> j, name |-> calls[j].name]
      /\ next <= Len(s) => s[next].role = "ai"

WellFormedConversation ==
  pc = "model" =>
    /\ \A k \in 1..Len(Prompt) : msgs[k] = Prompt[k]
    /\ \A k \in RepliesIn(msgs) : AnsweredReply(msgs, k)
    /\ Len(msgs) > Len(Prompt) => msgs[Len(Prompt) + 1].role = "ai"
    /\ Cardinality(RepliesIn(msgs)) = turn /\ turn <= maxToolTurns

\* Calls in the order of the conversation.
Before(wf, x) == wf.turn < x.turn \/ (wf.turn = x.turn /\ wf.index < x.index)

Attempted(k) == {wf \in open \cup DOMAIN ended : wf.attempt = k}

\* Tools are used one at a time in the order the model called them, whatever
\* attempts, lost replies and orphaned workflows there are: when an attempt
\* schedules a call, every earlier call of that attempt has ended well, and only
\* its last one can still be under way, also long after the attempt is over.
UsedInOrder ==
  \A k \in 1..attempt : \A wf \in Attempted(k), x \in Attempted(k) :
    Before(wf, x) => Succeeded(wf) /\ wf \in effects

\* A tool takes effect only for a call the model made: in the attempt at hand it
\* is one of the conversation, of that tool's name, at a server that offers it,
\* and when the attempt puts out its reply every call the model made has been
\* carried out and none is under way.
Asked(wf) ==
  \E k \in RepliesIn(msgs) :
    /\ Cardinality({j \in RepliesIn(msgs) : j < k}) = wf.turn
    /\ wf.index \in 1..Len(msgs[k].calls)
    /\ msgs[k].calls[wf.index].name = wf.tool.name
    /\ wf.tool.name \in Range(Offers[wf.tool.server])

EffectsAreCalled ==
  /\ \A wf \in Attempted(attempt) : Asked(wf)
  /\ pc = "output" =>
       /\ \A wf \in Attempted(attempt) : wf \in effects /\ wf \notin open
       /\ Cardinality(Attempted(attempt)) = Cardinality(CallsIn(msgs))
=============================================================================
