--------------------------- MODULE ToolLoop_proofs ---------------------------
(***************************************************************************)
(* The tool loop, for any servers and tools, any length of replies, any    *)
(* number of turns and attempts: the conversation is well formed whenever  *)
(* the model is asked, tools are used one at a time in the order they were *)
(* called, and only for calls the model made.                              *)
(***************************************************************************)
EXTENDS ToolLoop, FiniteSetTheorems, SequenceTheorems, WellFoundedInduction, TLAPS

-----------------------------------------------------------------------------
(* The inductive invariant *)

Message == [role : {"system", "human"}]
           \cup [role : {"ai"}, calls : Replies]
           \cup [role : {"tool"}, index : Nat, name : ToolName]

Tool     == [server : Server, name : ToolName]
Workflow == [attempt : Nat, turn : Nat, index : Nat, tool : Tool]

Typed ==
  /\ node \in {"ToolModelNode", "ModelNode", "ChatModelNode"}
  /\ pc \in {"idle", "model", "tools", "wait", "error", "output"}
  /\ turn \in Nat /\ attempt \in Nat
  /\ msgs \in Seq(Message) /\ todo \in Seq(ToolCall)
  /\ found \in [asked : Nat, tools : Seq(Tool), done : BOOLEAN]
  /\ found.asked <= Len(Loaded)
  /\ \A i \in 1..Len(found.tools) :
       found.tools[i].name \in Range(Offers[found.tools[i].server])
  /\ open \cup DOMAIN ended \subseteq Workflow

\* A node that calls tools knows them, and does not look for them again.
Equipped ==
  /\ node = "ToolModelNode" /\ pc # "idle" => found.done
  /\ pc \in {"tools", "wait"} => node = "ToolModelNode"
  /\ pc = "wait" => Known(Head(todo).name)
  /\ pc # "idle" => attempt # 0

\* A workflow is of an attempt that was begun, runs once, and has its effect
\* when it ends well.
Scheduling ==
  /\ open \cap DOMAIN ended = {}
  /\ \A wf \in open \cup DOMAIN ended : wf.attempt \in 1..attempt
  /\ \A wf \in DOMAIN ended : ended[wf] = "text" => wf \in effects
  /\ IsFiniteSet(Attempted(attempt))

Begun ==
  /\ Len(Prompt) <= Len(msgs)
  /\ \A k \in 1..Len(Prompt) : msgs[k] = Prompt[k]
  /\ Len(msgs) > Len(Prompt) => msgs[Len(Prompt) + 1].role = "ai"

\* Every reply is answered, or the last one is up to the call at hand.
Settled ==
  /\ turn <= maxToolTurns
  /\ Cardinality(RepliesIn(msgs)) = turn
  /\ \A k \in RepliesIn(msgs) : AnsweredReply(msgs, k)

Answering(s, k, rest) ==
  /\ Len(s) < k + Len(s[k].calls)
  /\ Len(rest) = k + Len(s[k].calls) - Len(s)
  /\ \A j \in 1..Len(rest) : rest[j] = s[k].calls[Len(s) - k + j]
  /\ \A j \in 1..Len(s) - k :
       s[k + j] = [role |-> "tool", index |-> j, name |-> s[k].calls[j].name]

Unsettled ==
  /\ turn < maxToolTurns
  /\ Cardinality(RepliesIn(msgs)) = turn + 1
  /\ LastReply \in RepliesIn(msgs)
  /\ \A k \in RepliesIn(msgs) \ {LastReply} : AnsweredReply(msgs, k)
  /\ Answering(msgs, LastReply, todo)

Conversing ==
  /\ pc # "idle" => Begun
  /\ pc \in {"model", "output"} => Settled
  /\ pc \in {"tools", "wait"} => Unsettled

\* The calls that have their result in the conversation.
Results(s) ==
  {c \in CallsIn(s) : c[1] + c[2] <= Len(s)}

Passed(wf) ==
  \/ wf.turn < turn
  \/ pc \in {"tools", "wait"} /\ wf.turn = turn /\ wf.index < Index

\* Until the attempt is over, each of its workflows ended well and has its
\* result in the conversation, but the one it waits for.
Accounted ==
  pc \in {"model", "tools", "wait", "output"} =>
    /\ \A wf \in Attempted(attempt) :
         (pc = "wait" /\ wf = Call) \/ (Succeeded(wf) /\ Passed(wf))
    /\ pc = "wait" => Call \in Attempted(attempt)
    /\ Cardinality(Attempted(attempt)) =
         Cardinality(Results(msgs)) + (IF pc = "wait" THEN 1 ELSE 0)

AllAsked == \A wf \in Attempted(attempt) : Asked(wf)

LInv == Typed /\ Equipped /\ Scheduling /\ Conversing /\ Accounted /\ AllAsked
        /\ UsedInOrder

-----------------------------------------------------------------------------
(* The last element of a sequence that has a property *)

LEMMA MaxOf ==
  ASSUME NEW n \in Nat, NEW S \in SUBSET (1..n), S # {}
  PROVE  Max(S) \in S /\ \A x \in S : x <= Max(S)
<1> DEFINE R == {r \in Nat \X Nat : r[1] < r[2]}
           T == {n - x : x \in S}
<1>1. IsWellFoundedOn(R, Nat)
  BY NatLessThanWellFounded DEF OpToRel
<1>2. T \subseteq Nat /\ T # {}
  <2>1. ASSUME NEW x \in S PROVE n - x \in Nat
    <3>1. x \in 1..n
      OBVIOUS
    <3> QED BY <3>1
  <2>2. \A t \in T : \E x \in S : t = n - x
    OBVIOUS
  <2>3. PICK x \in S : TRUE
    OBVIOUS
  <2>4. n - x \in T
    OBVIOUS
  <2> HIDE DEF T
  <2> QED BY <2>1, <2>2, <2>4
<1>3. PICK t \in T : \A y \in T : <<y, t>> \notin R
  <2> HIDE DEF R, T
  <2> QED BY <1>1, <1>2, WFMin
<1>4. PICK m \in S : t = n - m
  BY <1>3
<1>5. ASSUME NEW x \in S PROVE x <= m
  <2>1. n - x \in T /\ n - x \in Nat /\ t \in Nat /\ x \in Nat /\ m \in Nat
    BY <1>2, <1>3, <1>5
  <2>2. ~(n - x < t)
    BY <1>3, <2>1
  <2> QED BY <1>4, <2>1, <2>2
<1>6. \E m2 \in S : \A y \in S : m2 >= y
  BY <1>5
<1> QED BY <1>6 DEF Max

\* The server and name of the tool that a name stands for.
LEMMA KnownTool ==
  ASSUME NEW tools \in Seq(Tool), found.tools = tools, NEW name, Known(name)
  PROVE  ByName(name) \in 1..Len(tools) /\ tools[ByName(name)].name = name
<1> DEFINE I == {i \in 1..Len(tools) : tools[i].name = name}
<1>1. ByName(name) = IF I # {} THEN Max(I) ELSE 0
  BY DEF ByName, SelectLastInSeq
<1>2. I # {}
  BY <1>1 DEF Known
<1>3. Max(I) \in I
  <2> HIDE DEF I
  <2>1. Len(tools) \in Nat /\ I \in SUBSET (1..Len(tools))
    BY DEF I
  <2> QED BY <1>2, <2>1, MaxOf
<1> QED BY <1>1, <1>2, <1>3

LastIn(s) == SelectLastInSeq(s, LAMBDA m : m.role = "ai")

LEMMA LastInIs ==
  ASSUME NEW s \in Seq(Message), RepliesIn(s) # {}
  PROVE  LastIn(s) \in RepliesIn(s) /\ \A k \in RepliesIn(s) : k <= LastIn(s)
<1>1. LastIn(s) = Max(RepliesIn(s))
  BY DEF LastIn, SelectLastInSeq, RepliesIn
<1>2. Len(s) \in Nat /\ RepliesIn(s) \in SUBSET (1..Len(s))
  BY DEF RepliesIn
<1> QED BY <1>1, <1>2, MaxOf

LEMMA LastReplies ==
  LastReply = LastIn(msgs) /\ LastReply' = LastIn(msgs')
BY DEF LastReply, LastIn, SelectLastInSeq

-----------------------------------------------------------------------------
(* Conversations *)

LEMMA MessageFacts ==
  ASSUME NEW m \in Message
  PROVE  /\ m.role = "ai" => m.calls \in Seq(ToolCall) /\ Len(m.calls) \in 1..MaxCalls
         /\ m.role # "ai" =>
              m \in [role : {"system", "human"}]
                    \cup [role : {"tool"}, index : Nat, name : ToolName]
<1>1. CASE m \in [role : {"ai"}, calls : Replies]
  <2>1. m.role = "ai" /\ m.calls \in Replies
    BY <1>1
  <2>2. PICK n \in 1..MaxCalls : m.calls \in [1..n -> ToolCall]
    BY <2>1 DEF Replies
  <2>3. n \in Nat
    BY ToolLoopAssumption
  <2>4. m.calls \in Seq(ToolCall) /\ Len(m.calls) = n
    BY <2>2, <2>3
  <2> QED BY <2>1, <2>4
<1> QED BY <1>1 DEF Message

\* A sequence with one more message.
Grows(s, m, t) ==
  /\ t \in Seq(Message) /\ Len(t) = Len(s) + 1
  /\ t[Len(s) + 1] = m /\ \A i \in 1..Len(s) : t[i] = s[i]
  /\ RepliesIn(t) = RepliesIn(s) \cup (IF m.role = "ai" THEN {Len(s) + 1} ELSE {})

LEMMA Appended ==
  ASSUME NEW s \in Seq(Message), NEW m \in Message
  PROVE  Grows(s, m, Append(s, m))
<1>1. PICK t : t = Append(s, m)
  OBVIOUS
<1>2. /\ t \in Seq(Message) /\ Len(t) = Len(s) + 1 /\ Len(s) \in Nat
      /\ t[Len(s) + 1] = m /\ \A i \in 1..Len(s) : t[i] = s[i]
  BY <1>1, AppendProperties
<1>3. RepliesIn(t) = RepliesIn(s) \cup (IF m.role = "ai" THEN {Len(s) + 1} ELSE {})
  BY <1>2 DEF RepliesIn
<1> QED BY <1>1, <1>2, <1>3 DEF Grows

LEMMA RepliesFinite ==
  ASSUME NEW s \in Seq(Message)
  PROVE  IsFiniteSet(RepliesIn(s)) /\ Cardinality(RepliesIn(s)) \in Nat
<1>1. RepliesIn(s) \in SUBSET (1..Len(s)) /\ Len(s) \in Int
  BY DEF RepliesIn
<1>2. IsFiniteSet(1..Len(s))
  BY <1>1, FS_Interval
<1>3. IsFiniteSet(RepliesIn(s))
  BY <1>1, <1>2, FS_Subset
<1> QED BY <1>3, FS_CardinalityType

LEMMA ReplyFacts ==
  ASSUME NEW s \in Seq(Message), NEW k \in RepliesIn(s)
  PROVE  /\ k \in 1..Len(s) /\ k \in Nat /\ Len(s) \in Nat
         /\ s[k] \in Message /\ s[k].role = "ai"
         /\ s[k].calls \in Seq(ToolCall) /\ Len(s[k].calls) \in 1..MaxCalls
         /\ Len(s[k].calls) \in Nat
<1>1. k \in 1..Len(s) /\ s[k].role = "ai" /\ s[k] \in Message
  BY DEF RepliesIn
<1> QED BY <1>1, MessageFacts

\* A reply that is answered stays so when the next reply comes.
LEMMA AnsweredStays ==
  ASSUME NEW s \in Seq(Message), NEW m, NEW t, Grows(s, m, t),
         NEW k \in RepliesIn(s), AnsweredReply(s, k),
         m.role = "ai" \/ k + Len(s[k].calls) + 1 <= Len(s)
  PROVE  AnsweredReply(t, k)
<1>1. PICK c, n : c = s[k].calls /\ n = Len(c)
  OBVIOUS
<1>2. n \in Nat /\ k \in Nat /\ Len(s) \in Nat /\ 1 <= k /\ t[k] = s[k] /\ t[k].calls = c
  BY <1>1, ReplyFacts DEF Grows
<1>3. k + n <= Len(s) /\ Len(t) = Len(s) + 1 /\ Len(t) >= k + n
  BY <1>1, <1>2 DEF Grows, AnsweredReply
<1>4. ASSUME NEW j \in 1..n
      PROVE  t[k + j] = [role |-> "tool", index |-> j, name |-> c[j].name]
  <2>1. k + j \in 1..Len(s)
    BY <1>2, <1>3
  <2>2. t[k + j] = s[k + j]
    BY <2>1 DEF Grows
  <2> QED BY <1>1, <2>2 DEF AnsweredReply
<1>5. ASSUME k + n + 1 <= Len(t) PROVE t[k + n + 1].role = "ai"
  <2>1. CASE k + n + 1 <= Len(s)
    <3>1. k + n + 1 \in 1..Len(s)
      BY <1>2, <2>1
    <3>2. t[k + n + 1] = s[k + n + 1]
      BY <3>1 DEF Grows
    <3> QED BY <1>1, <2>1, <3>2 DEF AnsweredReply
  <2>2. CASE ~(k + n + 1 <= Len(s))
    <3>1. k + n + 1 = Len(s) + 1
      BY <1>2, <1>3, <1>5, <2>2
    <3>2. m.role = "ai"
      BY <1>1, <2>2
    <3> QED BY <3>1, <3>2 DEF Grows
  <2> QED BY <2>1, <2>2
<1> QED BY <1>1, <1>2, <1>3, <1>4, <1>5 DEF AnsweredReply

\* Of an answered reply that is not the last, the next reply has come.
LEMMA NextReplyCame ==
  ASSUME NEW s \in Seq(Message), NEW k \in RepliesIn(s), NEW r \in RepliesIn(s),
         k < r, AnsweredReply(s, k)
  PROVE  k + Len(s[k].calls) + 1 <= r
<1>1. PICK n : n = Len(s[k].calls)
  OBVIOUS
<1>2. n \in Nat /\ k \in Nat /\ r \in Nat /\ s[r].role = "ai"
  BY <1>1, ReplyFacts
<1>3. ASSUME r <= k + n PROVE FALSE
  <2>1. PICK j \in 1..n : r = k + j
    <3>1. r - k \in 1..n /\ r = k + (r - k)
      BY <1>2, <1>3
    <3> QED BY <3>1
  <2>2. s[r] = [role |-> "tool", index |-> j, name |-> s[k].calls[j].name]
    BY <1>1, <2>1 DEF AnsweredReply
  <2> QED BY <1>2, <2>2
<1> QED BY <1>1, <1>2, <1>3

\* A result is one more, a reply none.
LEMMA ReplyIsNoResult ==
  ASSUME NEW s \in Seq(Message), NEW m, m.role = "ai", NEW t, Grows(s, m, t),
         \A k \in RepliesIn(s) : AnsweredReply(s, k)
  PROVE  Results(t) = Results(s)
<1>0. Len(s) \in Nat /\ Len(t) = Len(s) + 1
  BY DEF Grows
<1>1. ASSUME NEW c \in Results(t) PROVE c \in Results(s)
  <2>1. PICK k, j : /\ c = <<k, j>> /\ k \in RepliesIn(t) /\ j \in 1..MaxCalls
                    /\ j <= Len(t[k].calls) /\ k + j <= Len(t)
    BY <1>1 DEF Results, CallsIn
  <2>2. k \in RepliesIn(s)
    <3>1. k \in 1..Len(t) /\ j >= 1
      BY <2>1, ToolLoopAssumption DEF RepliesIn
    <3>2. k # Len(s) + 1
      BY <1>0, <2>1, <3>1, ToolLoopAssumption
    <3> QED BY <2>1, <3>2 DEF Grows
  <2>3. k \in 1..Len(s) /\ k \in Nat /\ Len(s[k].calls) \in Nat /\ t[k] = s[k]
    BY <2>2, ReplyFacts DEF Grows
  <2>4. k + Len(s[k].calls) <= Len(s)
    BY <2>2 DEF AnsweredReply
  <2>5. j \in Nat /\ k + j <= Len(s)
    BY <1>0, <2>1, <2>3, <2>4, ToolLoopAssumption
  <2> QED BY <2>1, <2>2, <2>3, <2>5 DEF Results, CallsIn
<1>2. ASSUME NEW c \in Results(s) PROVE c \in Results(t)
  <2>1. PICK k, j : /\ c = <<k, j>> /\ k \in RepliesIn(s) /\ j \in 1..MaxCalls
                    /\ j <= Len(s[k].calls) /\ k + j <= Len(s)
    BY <1>2 DEF Results, CallsIn
  <2>2. k \in RepliesIn(t) /\ t[k] = s[k] /\ k \in Nat
    BY <2>1, ReplyFacts DEF Grows
  <2>3. k + j <= Len(t)
    BY <1>0, <2>1, <2>2, ToolLoopAssumption
  <2> QED BY <2>1, <2>2, <2>3 DEF Results, CallsIn
<1> QED BY <1>1, <1>2

LEMMA ResultIsOneMore ==
  ASSUME NEW s \in Seq(Message), NEW m, m.role = "tool", NEW t, Grows(s, m, t),
         NEW r \in RepliesIn(s), \A k \in RepliesIn(s) \ {r} : AnsweredReply(s, k),
         Len(s) < r + Len(s[r].calls)
  PROVE  /\ Results(t) = Results(s) \cup {<<r, Len(s) + 1 - r>>}
         /\ <<r, Len(s) + 1 - r>> \notin Results(s)
<1>0. Len(s) \in Nat /\ Len(t) = Len(s) + 1 /\ RepliesIn(t) = RepliesIn(s)
  BY DEF Grows
<1>1. ASSUME NEW c \in Results(t)
      PROVE  c \in Results(s) \cup {<<r, Len(s) + 1 - r>>}
  <2>1. PICK k, j : /\ c = <<k, j>> /\ k \in RepliesIn(s) /\ j \in 1..MaxCalls
                    /\ j <= Len(t[k].calls) /\ k + j <= Len(t)
    BY <1>0, <1>1 DEF Results, CallsIn
  <2>2. /\ k \in 1..Len(s) /\ k \in Nat /\ Len(s[k].calls) \in Nat /\ t[k] = s[k]
        /\ j \in Nat
    BY <2>1, ReplyFacts, ToolLoopAssumption DEF Grows
  <2>3. CASE k + j <= Len(s)
    BY <2>1, <2>2, <2>3 DEF Results, CallsIn
  <2>4. CASE ~(k + j <= Len(s))
    <3>1. k + j = Len(s) + 1
      <4>1. PICK n, x : n = Len(s) /\ x = k + j
        OBVIOUS
      <4>2. n \in Nat /\ x \in Nat /\ x <= n + 1 /\ ~(x <= n)
        BY <1>0, <2>1, <2>2, <2>4, <4>1
      <4>3. x = n + 1
        BY ONLY <4>2
      <4> QED BY <4>1, <4>3
    <3>2. ~AnsweredReply(s, k)
      BY <1>0, <2>1, <2>2, <3>1 DEF AnsweredReply
    <3>3. k = r
      BY <2>1, <3>2
    <3>4. j = Len(s) + 1 - r
      BY <1>0, <2>2, <3>1, <3>3
    <3> QED BY <2>1, <3>3, <3>4
  <2> QED BY <2>3, <2>4
<1>2. ASSUME NEW c \in Results(s) PROVE c \in Results(t)
  <2>1. PICK k, j : /\ c = <<k, j>> /\ k \in RepliesIn(s) /\ j \in 1..MaxCalls
                    /\ j <= Len(s[k].calls) /\ k + j <= Len(s)
    BY <1>2 DEF Results, CallsIn
  <2>2. k \in RepliesIn(t) /\ t[k] = s[k] /\ k \in Nat
    BY <1>0, <2>1, ReplyFacts DEF Grows
  <2>3. k + j <= Len(t)
    BY <1>0, <2>1, <2>2, ToolLoopAssumption
  <2> QED BY <2>1, <2>2, <2>3 DEF Results, CallsIn
<1>3. PICK j : j = Len(s) + 1 - r
  OBVIOUS
<1>4. r \in 1..Len(s) /\ r \in Nat /\ Len(s[r].calls) \in 1..MaxCalls /\ t[r] = s[r]
  BY ReplyFacts DEF Grows
<1>5. j \in 1..MaxCalls /\ j <= Len(s[r].calls) /\ r + j = Len(s) + 1
  BY <1>0, <1>3, <1>4, ToolLoopAssumption
<1>6. <<r, j>> \in Results(t)
  BY <1>0, <1>4, <1>5 DEF Results, CallsIn
<1>7. <<r, j>> \notin Results(s)
  BY <1>0, <1>5 DEF Results
<1> QED BY <1>1, <1>2, <1>3, <1>6, <1>7

LEMMA ResultsFinite ==
  ASSUME NEW s \in Seq(Message)
  PROVE  IsFiniteSet(Results(s)) /\ Cardinality(Results(s)) \in Nat
<1>1. IsFiniteSet(RepliesIn(s))
  BY RepliesFinite
<1>2. IsFiniteSet(1..MaxCalls)
  BY ToolLoopAssumption, FS_Interval
<1>3. IsFiniteSet(RepliesIn(s) \X (1..MaxCalls))
  BY <1>1, <1>2, FS_Product
<1>4. Results(s) \in SUBSET (RepliesIn(s) \X (1..MaxCalls))
  BY DEF Results, CallsIn
<1>5. IsFiniteSet(Results(s))
  BY <1>3, <1>4, FS_Subset
<1> QED BY <1>5, FS_CardinalityType

\* When every reply is answered, every call has its result.
LEMMA AllHaveResults ==
  ASSUME NEW s \in Seq(Message), \A k \in RepliesIn(s) : AnsweredReply(s, k)
  PROVE  Results(s) = CallsIn(s)
<1>1. ASSUME NEW c \in CallsIn(s) PROVE c[1] + c[2] <= Len(s)
  <2>1. PICK k, j : /\ c = <<k, j>> /\ k \in RepliesIn(s) /\ j \in 1..MaxCalls
                    /\ j <= Len(s[k].calls)
    BY <1>1 DEF CallsIn
  <2>2. k \in Nat /\ Len(s[k].calls) \in Nat /\ j \in Nat /\ Len(s) \in Nat
    BY <2>1, ReplyFacts, ToolLoopAssumption
  <2>3. k + Len(s[k].calls) <= Len(s)
    BY <2>1 DEF AnsweredReply
  <2> QED BY <2>1, <2>2, <2>3
<1> QED BY <1>1 DEF Results

-----------------------------------------------------------------------------
(* The steps *)

LEMMA PromptFacts ==
  /\ Prompt \in Seq(Message) /\ Len(Prompt) \in Nat /\ RepliesIn(Prompt) = {}
  /\ Cardinality(RepliesIn(Prompt)) = 0
<1>1. Said("system") \in Message /\ Said("human") \in Message
  BY DEF Said, Message
<1>2. \A k \in 1..Len(Prompt) : Prompt[k].role # "ai"
  BY DEF Prompt, Said
<1>3. Prompt \in Seq(Message) /\ Len(Prompt) \in Nat
  BY <1>1 DEF Prompt
<1>4. RepliesIn(Prompt) = {}
  BY <1>2 DEF RepliesIn
<1> QED BY <1>3, <1>4, FS_EmptySet

LEMMA LInit == Init => LInv
<1> SUFFICES ASSUME Init PROVE LInv
  OBVIOUS
<1> USE DEF Init, MCPInit
<1>1. open \cup DOMAIN ended = {} /\ \A k : Attempted(k) = {}
  BY DEF Attempted
<1>2. Typed
  <2>1. found \in [asked : Nat, tools : Seq(Tool), done : BOOLEAN]
    BY DEF Undiscovered
  <2>2. found.asked = 0 /\ Len(found.tools) = 0 /\ Len(Loaded) \in Nat
    BY MCPAssumption DEF Undiscovered
  <2> QED BY <1>1, <2>1, <2>2 DEF Typed
<1>3. Equipped /\ Conversing /\ Accounted
  BY DEF Equipped, Conversing, Accounted
<1>4. Scheduling
  BY <1>1, FS_EmptySet DEF Scheduling
<1>5. AllAsked /\ UsedInOrder
  BY <1>1 DEF AllAsked, UsedInOrder
<1> QED BY <1>2, <1>3, <1>4, <1>5 DEF LInv

LEMMA SameRuns ==
  ASSUME UNCHANGED <<open, ended, effects>>
  PROVE  /\ \A k : Attempted(k)' = Attempted(k)
         /\ \A wf : Succeeded(wf)' = Succeeded(wf)
BY DEF Attempted, Succeeded, Ended

\* Nothing but the place in the code changes.
LEMMA EndsInv ==
  ASSUME LInv, NEW next \in {"error", "output"}, pc # "idle",
         next = "output" => pc = "model", Ends(next), UNCHANGED mcpvars
  PROVE  LInv'
<1> USE DEF LInv
<1>0. /\ UNCHANGED <<node, turn, msgs, todo, attempt, found, open, ended, effects>>
      /\ pc' = next
  BY DEF Ends, mcpvars
<1>1. Typed'
  BY <1>0 DEF Typed
<1>2. Equipped'
  BY <1>0 DEF Equipped
<1>3. \A k : Attempted(k)' = Attempted(k)
  BY <1>0, SameRuns
<1>4. Scheduling'
  BY <1>0 DEF Scheduling, Attempted
<1>5. Conversing'
  BY <1>0 DEF Conversing, Begun, Settled
<1>6. Accounted'
  <2>1. ASSUME next = "output", NEW wf \in Attempted(attempt)
        PROVE  Succeeded(wf)' /\ Passed(wf)'
    BY <1>0, <2>1 DEF Accounted, Passed, Succeeded, Ended
  <2>2. ASSUME next = "output"
        PROVE  Cardinality(Attempted(attempt)) = Cardinality(Results(msgs)) + 0
    BY <2>2 DEF Accounted
  <2> QED BY <1>0, <1>3, <2>1, <2>2 DEF Accounted
<1>7. AllAsked'
  BY <1>0, <1>3 DEF AllAsked, Asked
<1>8. UsedInOrder'
  BY <1>0, <1>3 DEF UsedInOrder, Succeeded, Ended
<1> QED BY <1>1, <1>2, <1>4, <1>5, <1>6, <1>7, <1>8

LEMMA BeginInv ==
  ASSUME LInv, Begin
  PROVE  LInv'
<1> USE DEF LInv
<1>0. /\ UNCHANGED <<node, found, open, ended, effects>>
      /\ pc' = "model" /\ turn' = 0 /\ msgs' = Prompt /\ todo' = <<>>
      /\ attempt' = attempt + 1 /\ attempt \in Nat
      /\ found.done \/ node # "ToolModelNode"
  BY DEF Begin, mcpvars, Typed
<1>1. Typed'
  BY <1>0, PromptFacts DEF Typed
<1>2. Equipped'
  BY <1>0 DEF Equipped
<1>3. \A k : Attempted(k)' = Attempted(k)
  BY <1>0, SameRuns
<1>4. Attempted(attempt + 1) = {}
  BY <1>0 DEF Attempted, Scheduling
<1>5. Attempted(attempt)' = {}
  <2>1. Attempted(attempt)' = Attempted(attempt + 1)
    BY <1>0 DEF Attempted
  <2> QED BY <1>4, <2>1
<1>6. Scheduling'
  <2>1. IsFiniteSet(Attempted(attempt))'
    BY <1>5, FS_EmptySet
  <2>2. \A wf \in open \cup DOMAIN ended : wf.attempt \in 1..attempt + 1
    BY <1>0 DEF Scheduling
  <2> QED BY <1>0, <2>1, <2>2 DEF Scheduling
<1>7. Conversing'
  <2>1. RepliesIn(msgs)' = {} /\ Cardinality(RepliesIn(msgs))' = 0
    BY <1>0, PromptFacts DEF RepliesIn
  <2>2. Settled'
    <3>1. 0 <= maxToolTurns
      BY ToolLoopAssumption
    <3> QED BY <1>0, <2>1, <3>1 DEF Settled
  <2>3. Begun'
    BY <1>0, PromptFacts DEF Begun, Prompt
  <2> QED BY <1>0, <2>2, <2>3 DEF Conversing
<1>8. Accounted'
  <2>1. Results(msgs)' = {}
    BY <1>0, PromptFacts DEF Results, CallsIn, RepliesIn
  <2>2. Cardinality(Attempted(attempt))' = 0 /\ Cardinality(Results(msgs))' = 0
    BY <1>5, <2>1, FS_EmptySet
  <2>3. pc' # "wait" /\ 0 = 0 + 0
    BY <1>0
  <2> QED BY <1>5, <2>2, <2>3 DEF Accounted
<1>9. AllAsked'
  BY <1>5 DEF AllAsked
<1>10. UsedInOrder'
  <2> SUFFICES ASSUME NEW k \in 1..attempt + 1, NEW wf \in Attempted(k),
                      NEW x \in Attempted(k), Before(wf, x)
               PROVE  Succeeded(wf) /\ wf \in effects
    BY <1>0, <1>3 DEF UsedInOrder, Before, Succeeded, Ended
  <2>1. k \in 1..attempt
    BY <1>0, <1>4
  <2> QED BY <2>1 DEF UsedInOrder
<1> QED BY <1>1, <1>2, <1>6, <1>7, <1>8, <1>9, <1>10

\* What the model asked for stays asked for as the conversation goes on.
LEMMA AskedStays ==
  ASSUME msgs \in Seq(Message), NEW m, Grows(msgs, m, msgs'), NEW wf, Asked(wf)
  PROVE  Asked(wf)'
<1>1. PICK k \in RepliesIn(msgs) :
        /\ Cardinality({j \in RepliesIn(msgs) : j < k}) = wf.turn
        /\ wf.index \in 1..Len(msgs[k].calls)
        /\ msgs[k].calls[wf.index].name = wf.tool.name
        /\ wf.tool.name \in Range(Offers[wf.tool.server])
  BY DEF Asked
<1>2. PICK t : t = msgs'
  OBVIOUS
<1>3. /\ k \in 1..Len(msgs) /\ k \in Nat /\ Len(msgs) \in Nat
      /\ k \in RepliesIn(t) /\ t[k] = msgs[k]
  BY <1>2, ReplyFacts DEF Grows
<1>4. {j \in RepliesIn(t) : j < k} = {j \in RepliesIn(msgs) : j < k}
  <2>1. ~(Len(msgs) + 1 < k)
    BY <1>3
  <2> QED BY <1>2, <2>1 DEF Grows
<1>5. RepliesIn(msgs)' = RepliesIn(t)
  BY <1>2 DEF RepliesIn
<1> QED BY <1>1, <1>2, <1>3, <1>4, <1>5 DEF Asked

\* The prompt stays where it is.
LEMMA BegunStays ==
  ASSUME msgs \in Seq(Message), Begun, NEW m, Grows(msgs, m, msgs'),
         m.role = "ai" \/ RepliesIn(msgs) # {}
  PROVE  Begun'
<1>1. PICK t, n, p : t = msgs' /\ n = Len(msgs) /\ p = Len(Prompt)
  OBVIOUS
<1>2. /\ n \in Nat /\ p \in Nat /\ p <= n /\ Len(t) = n + 1 /\ p <= n + 1
      /\ \A i \in 1..n : t[i] = msgs[i]
      /\ \A k \in 1..p : k \in 1..n
  BY <1>1, PromptFacts DEF Grows, Begun
<1>3. \A k \in 1..p : t[k] = Prompt[k]
  BY <1>1, <1>2 DEF Begun
<1>4. t[p + 1].role = "ai"
  <2>1. CASE p < n
    <3>1. p + 1 \in 1..n
      BY <1>2, <2>1
    <3> QED BY <1>1, <1>2, <2>1, <3>1 DEF Begun
  <2>2. CASE ~(p < n)
    <3>1. p = n
      BY <1>2, <2>2
    <3>2. ASSUME NEW k \in RepliesIn(msgs) PROVE FALSE
      <4>1. k \in 1..p /\ msgs[k].role = "ai"
        BY <1>1, <3>1 DEF RepliesIn
      <4>2. msgs[k] = Prompt[k]
        BY <1>1, <4>1 DEF Begun
      <4>3. Prompt[k].role # "ai"
        BY <1>1, <4>1 DEF Prompt, Said
      <4> QED BY <4>1, <4>2, <4>3
    <3>3. m.role = "ai"
      BY <3>2
    <3> QED BY <1>1, <3>1, <3>3 DEF Grows
  <2> QED BY <2>1, <2>2
<1> QED BY <1>1, <1>2, <1>3, <1>4 DEF Begun, Prompt

LEMMA ModelCallsInv ==
  ASSUME LInv, ModelCalls
  PROVE  LInv'
<1> USE DEF LInv
<1>0. /\ UNCHANGED <<node, turn, attempt, found, open, ended, effects>>
      /\ node = "ToolModelNode" /\ pc = "model" /\ pc' = "tools" /\ turn < maxToolTurns
      /\ turn \in Nat /\ msgs \in Seq(Message)
  BY DEF ModelCalls, InLoop, TurnsLeft, mcpvars, Typed
<1>1. PICK calls \in Replies : msgs' = Append(msgs, Calls(calls)) /\ todo' = calls
  BY DEF ModelCalls
<1>2. PICK m, t, n : m = Calls(calls) /\ t = msgs' /\ n = Len(msgs)
  OBVIOUS
<1>3. /\ m \in Message /\ m.role = "ai" /\ m.calls = calls
      /\ calls \in Seq(ToolCall) /\ Len(calls) \in Nat \ {0} /\ n \in Nat
  <2>1. m \in Message /\ m.role = "ai" /\ m.calls = calls
    BY <1>2 DEF Calls, Message
  <2>2. calls \in Seq(ToolCall) /\ Len(calls) \in 1..MaxCalls
    BY <2>1, MessageFacts
  <2> QED BY <1>0, <1>2, <2>1, <2>2, ToolLoopAssumption
<1>4. Grows(msgs, m, t) /\ Grows(msgs, m, msgs')
  BY <1>0, <1>1, <1>2, <1>3, Appended
<1>5. /\ t \in Seq(Message) /\ Len(t) = n + 1 /\ t[n + 1] = m
      /\ RepliesIn(t) = RepliesIn(msgs) \cup {n + 1} /\ n + 1 \notin RepliesIn(msgs)
  BY <1>2, <1>3, <1>4 DEF Grows, RepliesIn
<1>6. LastReply' = n + 1
  <2>1. LastReply' = LastIn(t)
    BY <1>2, LastReplies
  <2>2. LastIn(t) \in RepliesIn(t) /\ \A k \in RepliesIn(t) : k <= LastIn(t)
    BY <1>5, LastInIs
  <2>3. n + 1 <= LastIn(t) /\ LastIn(t) \in 1..n + 1
    BY <1>5, <2>2 DEF RepliesIn
  <2> QED BY <1>3, <2>1, <2>3
<1>7. Settled /\ Begun
  BY <1>0 DEF Conversing
<1>8. Unsettled'
  <2>1. Cardinality(RepliesIn(msgs)) = turn /\ IsFiniteSet(RepliesIn(msgs))
    BY <1>0, <1>7, RepliesFinite DEF Settled
  <2>2. Cardinality(RepliesIn(t)) = turn + 1
    BY <1>5, <2>1, FS_AddElement
  <2>3. \A k \in RepliesIn(msgs) : AnsweredReply(t, k)
    BY <1>0, <1>3, <1>4, <1>7, AnsweredStays DEF Settled
  <2>4. Answering(t, n + 1, calls)
    <3>1. t[n + 1].calls = calls
      BY <1>3, <1>5
    <3>2. n + 1 < n + 1 + Len(calls) /\ Len(calls) = n + 1 + Len(calls) - (n + 1)
      BY <1>3
    <3>3. \A j \in 1..Len(calls) : n + 1 - (n + 1) + j = j
      BY <1>3
    <3>4. 1..n + 1 - (n + 1) = {}
      BY <1>3
    <3> QED BY <1>5, <3>1, <3>2, <3>3, <3>4 DEF Answering
  <2>5. RepliesIn(msgs)' = RepliesIn(t) /\ Cardinality(RepliesIn(msgs))' = turn + 1
    BY <1>2, <2>2 DEF RepliesIn
  <2>6. \A k \in RepliesIn(t) \ {n + 1} : AnsweredReply(msgs, k)'
    BY <1>2, <1>5, <2>3 DEF AnsweredReply
  <2>7. Answering(msgs, n + 1, todo)'
    BY <1>1, <1>2, <2>4 DEF Answering
  <2> QED BY <1>0, <1>5, <1>6, <2>5, <2>6, <2>7 DEF Unsettled
<1>9. Conversing'
  BY <1>0, <1>3, <1>4, <1>7, <1>8, BegunStays DEF Conversing
<1>10. \A k : Attempted(k)' = Attempted(k)
  BY <1>0, SameRuns
<1>11. Attempted(attempt)' = Attempted(attempt)
  BY <1>0 DEF Attempted
<1>12. Typed'
  BY <1>0, <1>1, <1>2, <1>3, <1>5 DEF Typed
<1>13. Equipped' /\ Scheduling'
  BY <1>0, <1>11 DEF Equipped, Scheduling
<1>14. Accounted'
  <2>1. Results(msgs)' = Results(msgs)
    <3>1. Results(t) = Results(msgs)
      BY <1>0, <1>3, <1>4, <1>7, ReplyIsNoResult DEF Settled
    <3> QED BY <1>2, <3>1 DEF Results, CallsIn, RepliesIn
  <2>2. ASSUME NEW wf \in Attempted(attempt) PROVE Succeeded(wf)' /\ Passed(wf)'
    BY <1>0 DEF Accounted, Passed, Succeeded, Ended
  <2>3. Cardinality(Attempted(attempt)) = Cardinality(Results(msgs)) + 0
    BY <1>0 DEF Accounted
  <2>4. Cardinality(Attempted(attempt))' = Cardinality(Results(msgs))' + 0
    BY <1>11, <2>1, <2>3
  <2> QED BY <1>0, <1>11, <2>2, <2>4 DEF Accounted
<1>15. AllAsked'
  BY <1>0, <1>4, <1>11, AskedStays DEF AllAsked
<1>16. UsedInOrder'
  BY <1>0, <1>10 DEF UsedInOrder, Succeeded, Ended
<1> QED BY <1>9, <1>12, <1>13, <1>14, <1>15, <1>16

\* While a call is at hand.
LEMMA AtCall ==
  ASSUME LInv, pc \in {"tools", "wait"}
  PROVE  /\ msgs \in Seq(Message) /\ Len(msgs) \in Nat
         /\ LastReply \in RepliesIn(msgs) /\ LastReply \in 1..Len(msgs)
         /\ \A k \in RepliesIn(msgs) : k <= LastReply
         /\ Index \in Nat \ {0} /\ Index <= Len(msgs[LastReply].calls)
         /\ LastReply + Index = Len(msgs) + 1
         /\ msgs[LastReply].calls \in Seq(ToolCall)
         /\ todo \in Seq(ToolCall) /\ todo # <<>>
         /\ Head(todo) = msgs[LastReply].calls[Index]
         /\ Head(todo) \in ToolCall
<1> USE DEF LInv
<1>1. PICK s, r, c : s = msgs /\ r = LastReply /\ c = s[r].calls
  OBVIOUS
<1>2. Unsettled /\ s \in Seq(Message) /\ todo \in Seq(ToolCall)
  BY <1>1 DEF Conversing, Typed
<1>3. r \in RepliesIn(s) /\ Answering(s, r, todo)
  BY <1>1, <1>2 DEF Unsettled
<1>4. /\ r \in 1..Len(s) /\ r \in Nat /\ Len(s) \in Nat /\ Len(c) \in Nat
      /\ c \in Seq(ToolCall)
  BY <1>1, <1>2, <1>3, ReplyFacts
<1>5. /\ Len(s) < r + Len(c) /\ Len(todo) = r + Len(c) - Len(s)
      /\ \A j \in 1..Len(todo) : todo[j] = c[Len(s) - r + j]
  BY <1>1, <1>3 DEF Answering
<1>6. PICK i : i = Len(s) - r + 1
  OBVIOUS
<1>7. i \in Nat \ {0} /\ i <= Len(c) /\ r + i = Len(s) + 1
  BY <1>4, <1>5, <1>6
<1>8. Index = i
  BY <1>1, <1>6 DEF Index
<1>9. 1 \in 1..Len(todo)
  BY <1>4, <1>5
<1>10. todo # <<>> /\ Head(todo) = todo[1] /\ todo[1] \in ToolCall
  BY <1>2, <1>9
<1>11. todo[1] = c[i]
  BY <1>5, <1>6, <1>9
<1>12. \A k \in RepliesIn(s) : k <= r
  <2>1. r = LastIn(s)
    BY <1>1, LastReplies
  <2> QED BY <1>2, <1>3, <2>1, LastInIs
<1> QED BY <1>1, <1>2, <1>3, <1>4, <1>7, <1>8, <1>10, <1>11, <1>12

\* The workflow of the call at hand is a new one, and one the model asked for.
LEMMA CallFacts ==
  ASSUME LInv, pc \in {"tools", "wait"}, Known(Head(todo).name)
  PROVE  Call \in Workflow /\ Call.attempt = attempt /\ Call.turn = turn
         /\ Call.index = Index /\ Asked(Call)
<1> USE DEF LInv
<1>1. PICK tools, name, b : /\ tools = found.tools /\ name = Head(todo).name
                            /\ b = ByName(name)
  OBVIOUS
<1>2. tools \in Seq(Tool) /\ turn \in Nat /\ attempt \in Nat
  BY <1>1 DEF Typed
<1>3. b \in 1..Len(tools) /\ tools[b].name = name
  BY <1>1, <1>2, KnownTool
<1>4. /\ tools[b] \in Tool
      /\ tools[b].name \in Range(Offers[tools[b].server])
  BY <1>1, <1>2, <1>3 DEF Typed
<1>5. Index \in Nat \ {0}
  BY AtCall
<1>6. Call = [attempt |-> attempt, turn |-> turn, index |-> Index, tool |-> tools[b]]
  BY <1>1 DEF Call
<1>7. /\ Call.attempt = attempt /\ Call.turn = turn /\ Call.index = Index
      /\ Call.tool = tools[b]
  BY <1>6
<1>8. Call \in Workflow
  BY <1>2, <1>4, <1>5, <1>6 DEF Workflow
<1>9. Asked(Call)
  <2>1. PICK r, c : r = LastReply /\ c = msgs[r].calls
    OBVIOUS
  <2>2. /\ r \in RepliesIn(msgs) /\ msgs \in Seq(Message) /\ Index \in 1..Len(c)
        /\ c[Index].name = name /\ r \in Nat
        /\ \A k \in RepliesIn(msgs) : k <= r /\ k \in Nat
    <3>1. Len(c) \in Nat
      BY <2>1, AtCall
    <3> QED BY <1>1, <2>1, <3>1, AtCall, ReplyFacts
  <2>3. {j \in RepliesIn(msgs) : j < r} = RepliesIn(msgs) \ {r}
    <3>1. ASSUME NEW j \in RepliesIn(msgs) PROVE j < r <=> j # r
      <4>1. j \in Nat /\ j <= r
        BY <2>2
      <4> QED BY <2>2, <4>1
    <3> QED BY <3>1
  <2>4. Cardinality(RepliesIn(msgs)) = turn + 1
    BY DEF Conversing, Unsettled
  <2>5. Cardinality(RepliesIn(msgs) \ {r}) = turn
    <3>1. IsFiniteSet(RepliesIn(msgs))
      BY <2>2, RepliesFinite
    <3>2. Cardinality(RepliesIn(msgs) \ {r}) = Cardinality(RepliesIn(msgs)) - 1
      BY <2>2, <3>1, FS_RemoveElement
    <3> QED BY <1>2, <2>4, <3>2
  <2> QED BY <1>3, <1>4, <1>7, <2>1, <2>2, <2>3, <2>5 DEF Asked
<1> QED BY <1>7, <1>8, <1>9

LEMMA ScheduleToolInv ==
  ASSUME LInv, ScheduleTool
  PROVE  LInv'
<1> USE DEF LInv
<1>0. /\ UNCHANGED <<node, turn, msgs, todo, attempt, found, ended, effects>>
      /\ pc = "tools" /\ pc' \in {"wait", "error"} /\ Known(Head(todo).name)
      /\ open' = open \cup {Call} /\ turn \in Nat /\ attempt \in Nat
  BY DEF ScheduleTool, Runnable, Scheduled, Ends, Typed
<1>1. /\ Call \in Workflow /\ Call.attempt = attempt /\ Call.turn = turn
      /\ Call.index = Index /\ Asked(Call)
  BY <1>0, CallFacts
<1>2. PICK w : w = Call
  OBVIOUS
<1>3. ASSUME NEW x \in Attempted(attempt)
      PROVE  /\ x # w /\ ~Before(w, x) /\ Succeeded(x) /\ x \in effects /\ Passed(x)
             /\ x \in Workflow
  <2>1. Succeeded(x) /\ Passed(x)
    BY <1>0 DEF Accounted
  <2>2. x \in effects
    BY <2>1 DEF Scheduling, Succeeded, Ended
  <2>3. x \in Workflow /\ x.turn \in Nat /\ x.index \in Nat
    BY DEF Attempted, Typed, Workflow
  <2>4. Index \in Nat
    BY <1>0, AtCall
  <2>5. x.turn < turn \/ (x.turn = turn /\ x.index < Index)
    BY <1>0, <2>1 DEF Passed
  <2>6. w.turn = turn /\ w.index = Index
    BY <1>1, <1>2
  <2>7. x # w /\ ~Before(w, x)
    BY <1>0, <2>3, <2>4, <2>5, <2>6 DEF Before
  <2> QED BY <2>1, <2>2, <2>3, <2>7
<1>4. Attempted(attempt)' = Attempted(attempt) \cup {w} /\ w \notin Attempted(attempt)
  <2>1. w \notin Attempted(attempt)
    BY <1>3
  <2> QED BY <1>0, <1>1, <1>2, <2>1 DEF Attempted
<1>5. \A k : k # attempt => Attempted(k)' = Attempted(k)
  BY <1>0, <1>1 DEF Attempted
<1>6. w \notin open /\ w \notin DOMAIN ended
  BY <1>1, <1>2, <1>4 DEF Attempted
<1>7. Typed'
  BY <1>0, <1>1 DEF Typed
<1>8. Equipped'
  BY <1>0 DEF Equipped, Known, ByName, SelectLastInSeq
<1>9. Scheduling'
  <2>1. IsFiniteSet(Attempted(attempt))'
    BY <1>4, FS_AddElement DEF Scheduling
  <2>2. open' \cap DOMAIN ended' = {}
    BY <1>0, <1>2, <1>6 DEF Scheduling
  <2>3. \A wf \in open' \cup DOMAIN ended' : wf.attempt \in 1..attempt
    <3>1. attempt \in 1..attempt
      BY <1>0 DEF Equipped
    <3> QED BY <1>0, <1>1, <3>1 DEF Scheduling
  <2> QED BY <1>0, <2>1, <2>2, <2>3 DEF Scheduling
<1>l. LastReply' = LastReply /\ Index' = Index
  BY <1>0, LastReplies DEF Index
<1>10. Conversing'
  <2>1. Begun /\ Unsettled
    BY <1>0 DEF Conversing
  <2>2. Begun'
    BY <1>0, <2>1 DEF Begun
  <2>3. Unsettled'
    BY <1>0, <1>l, <2>1 DEF Unsettled
  <2> QED BY <1>0, <2>2, <2>3 DEF Conversing
<1>11. ASSUME pc' = "wait" PROVE Call' = w
  BY <1>0, <1>2, <1>l DEF Call, ByName, SelectLastInSeq
<1>12. Accounted'
  <2> SUFFICES ASSUME pc' = "wait" PROVE Accounted'
    BY <1>0 DEF Accounted
  <2>1. ASSUME NEW x \in Attempted(attempt)'
        PROVE  x = w \/ (Succeeded(x)' /\ Passed(x)')
    <3>1. CASE x \in Attempted(attempt)
      <4>1. Succeeded(x) /\ Passed(x)
        BY <1>3, <3>1
      <4> QED BY <1>0, <1>l, <4>1 DEF Passed, Succeeded, Ended
    <3> QED BY <1>4, <2>1, <3>1
  <2>2. Cardinality(Attempted(attempt)) = Cardinality(Results(msgs)) + 0
    BY <1>0 DEF Accounted
  <2>3. Cardinality(Results(msgs)) \in Nat
    BY ResultsFinite DEF Typed
  <2>4. Cardinality(Attempted(attempt))' = Cardinality(Attempted(attempt)) + 1
    BY <1>4, FS_AddElement DEF Scheduling
  <2>5. Cardinality(Attempted(attempt))' = Cardinality(Results(msgs)) + 1
    BY <2>2, <2>3, <2>4
  <2>6. Cardinality(Results(msgs))' = Cardinality(Results(msgs))
    BY <1>0
  <2> QED BY <1>4, <1>11, <2>1, <2>5, <2>6 DEF Accounted
<1>13. AllAsked'
  <2>1. \A x \in Attempted(attempt)' : Asked(x)
    BY <1>1, <1>2, <1>4 DEF AllAsked
  <2> QED BY <1>0, <2>1 DEF AllAsked, Asked
<1>14. UsedInOrder'
  <2> SUFFICES ASSUME NEW k \in 1..attempt, NEW wf \in Attempted(k)',
                      NEW x \in Attempted(k)', Before(wf, x)
               PROVE  Succeeded(wf) /\ wf \in effects
    BY <1>0 DEF UsedInOrder, Succeeded, Ended
  <2>0. k = attempt => Attempted(k)' = Attempted(attempt) \cup {w}
    BY <1>0, <1>4 DEF Attempted
  <2>1. CASE k # attempt
    BY <1>5, <2>1 DEF UsedInOrder
  <2>2. CASE k = attempt /\ wf \in Attempted(attempt)
    BY <1>3, <2>2
  <2>3. CASE k = attempt /\ wf = w
    <3>1. ~Before(w, w)
      <4>1. w.turn \in Nat /\ w.index \in Nat
        BY <1>1, <1>2 DEF Workflow
      <4> QED BY <4>1 DEF Before
    <3> QED BY <1>3, <2>0, <2>3, <3>1
  <2> QED BY <2>0, <2>1, <2>2, <2>3
<1> QED BY <1>7, <1>8, <1>9, <1>10, <1>12, <1>13, <1>14

\* The conversation after a result: the reply it belongs to is answered, or the
\* next call is at hand.
LEMMA ResultComes ==
  ASSUME NEW s \in Seq(Message), NEW r \in RepliesIn(s), NEW i \in Nat \ {0},
         r + i = Len(s) + 1, i <= Len(s[r].calls), NEW rest \in Seq(ToolCall),
         rest # <<>>, Answering(s, r, rest), NEW m, NEW t, Grows(s, m, t),
         m = [role |-> "tool", index |-> i, name |-> Head(rest).name],
         Head(rest) = s[r].calls[i]
  PROVE  /\ Tail(rest) = <<>> => AnsweredReply(t, r)
         /\ Tail(rest) # <<>> => Answering(t, r, Tail(rest))
<1>1. PICK n, c, l : n = Len(s) /\ c = s[r].calls /\ l = Len(c)
  OBVIOUS
<1>2. /\ n \in Nat /\ r \in 1..n /\ r \in Nat /\ l \in Nat /\ t[r] = s[r]
      /\ Len(t) = n + 1 /\ r + i = n + 1 /\ i <= l
  BY <1>1, ReplyFacts DEF Grows
<1>3. ASSUME NEW j \in 1..i
      PROVE  t[r + j] = [role |-> "tool", index |-> j, name |-> c[j].name]
  <2>1. CASE j = i
    <3>1. t[r + j] = m
      BY <1>1, <1>2, <2>1 DEF Grows
    <3> QED BY <1>1, <2>1, <3>1
  <2>2. CASE j # i
    <3>1. j \in 1..n - r /\ r + j \in 1..n
      <4>1. /\ j \in 1..i /\ i \in Nat /\ j # i /\ r + i = n + 1
            /\ n \in Nat /\ r \in Nat
        BY <1>2, <2>2
      <4> QED BY ONLY <4>1
    <3>2. t[r + j] = s[r + j]
      BY <1>1, <3>1 DEF Grows
    <3> QED BY <1>1, <3>1, <3>2 DEF Answering
  <2> QED BY <2>1, <2>2
<1>4. /\ Len(rest) = r + l - n
      /\ \A j \in 1..Len(rest) : rest[j] = c[n - r + j]
  BY <1>1 DEF Answering
<1>5. PICK left, ll : left = Tail(rest) /\ ll = Len(left)
  OBVIOUS
<1>6. /\ ll = Len(rest) - 1 /\ ll \in Nat /\ (left = <<>> <=> ll = 0)
      /\ \A j \in 1..ll : left[j] = rest[j + 1]
  <2>1. /\ left \in Seq(ToolCall) /\ ll = Len(rest) - 1
        /\ \A j \in 1..ll : left[j] = rest[j + 1]
    BY <1>5, HeadTailProperties
  <2>2. ll \in Nat
    BY <1>5, <2>1
  <2>3. left = <<>> <=> ll = 0
    BY <1>5, <2>1, EmptySeq
  <2> QED BY <2>1, <2>2, <2>3
<1>7. ll = l - i
  BY <1>2, <1>4, <1>6
<1>8. ASSUME left = <<>> PROVE AnsweredReply(t, r)
  <2>1. i = l
    BY <1>2, <1>6, <1>7, <1>8
  <2>2. Len(t) >= r + l /\ ~(r + l + 1 <= Len(t))
    BY <1>2, <2>1
  <2> QED BY <1>1, <1>2, <1>3, <2>1, <2>2 DEF AnsweredReply
<1>9. ASSUME left # <<>> PROVE Answering(t, r, left)
  <2>1. Len(t) < r + l /\ ll = r + l - Len(t)
    <3>1. ll # 0
      <4>1. left = <<>> <=> ll = 0
        BY <1>6
      <4> QED BY ONLY <1>9, <4>1
    <3>2. Len(t) = n + 1 /\ ll = r + l - Len(t)
      BY <1>2, <1>7
    <3>3. ll \in Nat /\ n \in Nat /\ r \in Nat /\ l \in Nat
      BY <1>2, <1>6
    <3> QED BY ONLY <3>1, <3>2, <3>3
  <2>2. ASSUME NEW j \in 1..ll PROVE left[j] = c[Len(t) - r + j]
    <3>1. j + 1 \in 1..Len(rest)
      BY <1>6
    <3>2. n - r + (j + 1) = Len(t) - r + j
      BY <1>2
    <3> QED BY <1>4, <1>6, <3>1, <3>2
  <2>3. Len(t) - r = i
    BY <1>2
  <2> QED BY <1>1, <1>2, <1>3, <1>5, <2>1, <2>2, <2>3 DEF Answering
<1> QED BY <1>5, <1>8, <1>9

LEMMA ToolReturnsInv ==
  ASSUME LInv, ToolReturns
  PROVE  LInv'
<1> USE DEF LInv
<1>0. /\ UNCHANGED <<node, attempt, found, open, ended, effects>>
      /\ pc = "wait" /\ Succeeded(Call) /\ msgs' = Answered(Head(todo))
      /\ todo' = Tail(todo) /\ pc' = AfterTools(Tail(todo))
      /\ turn' = IF Tail(todo) = <<>> THEN turn + 1 ELSE turn
      /\ turn \in Nat
  BY DEF ToolReturns, ReplyArrived, CallText, mcpvars, Typed
<1>1. PICK s, r, i, m, t :
        /\ s = msgs /\ r = LastReply /\ i = Index /\ m = ResultOf(Head(todo), i)
        /\ t = msgs'
  OBVIOUS
<1>2. /\ s \in Seq(Message) /\ r \in RepliesIn(s) /\ \A k \in RepliesIn(s) : k <= r
      /\ i \in Nat \ {0} /\ r + i = Len(s) + 1 /\ i <= Len(s[r].calls)
      /\ todo \in Seq(ToolCall) /\ todo # <<>> /\ Head(todo) \in ToolCall
      /\ Head(todo) = s[r].calls[i]
  BY <1>0, <1>1, AtCall
<1>3. m = [role |-> "tool", index |-> i, name |-> Head(todo).name]
  BY <1>1 DEF ResultOf
<1>4. m \in Message /\ m.role = "tool"
  BY <1>2, <1>3 DEF Message, ToolCall
<1>5. Grows(s, m, t) /\ Grows(msgs, m, msgs')
  BY <1>0, <1>1, <1>2, <1>4, Appended DEF Answered
<1>6. t \in Seq(Message) /\ RepliesIn(t) = RepliesIn(s) /\ RepliesIn(msgs)' = RepliesIn(t)
  BY <1>1, <1>4, <1>5 DEF Grows, RepliesIn
<1>7. Begun /\ Unsettled /\ Answering(s, r, todo)
  BY <1>0, <1>1 DEF Conversing, Unsettled
<1>8. LastReply' = r
  <2>1. LastReply' = LastIn(t)
    BY <1>1, LastReplies
  <2>2. LastIn(t) \in RepliesIn(s) /\ \A k \in RepliesIn(s) : k <= LastIn(t)
    BY <1>2, <1>6, LastInIs
  <2>3. r <= LastIn(t) /\ LastIn(t) <= r /\ r \in Nat /\ LastIn(t) \in Nat
    BY <1>2, <2>2, ReplyFacts
  <2> QED BY <2>1, <2>3
<1>9. /\ Tail(todo) = <<>> => AnsweredReply(t, r)
      /\ Tail(todo) # <<>> => Answering(t, r, Tail(todo))
  BY <1>2, <1>3, <1>5, <1>7, ResultComes
<1>10. \A k \in RepliesIn(s) \ {r} : AnsweredReply(t, k)
  <2> SUFFICES ASSUME NEW k \in RepliesIn(s) \ {r} PROVE AnsweredReply(t, k)
    OBVIOUS
  <2>1. AnsweredReply(s, k)
    BY <1>1, <1>7 DEF Unsettled
  <2>2. k < r
    BY <1>2, ReplyFacts
  <2>3. k + Len(s[k].calls) + 1 <= r
    BY <1>2, <2>1, <2>2, NextReplyCame
  <2>4. k + Len(s[k].calls) + 1 <= Len(s)
    BY <1>2, <2>3, ReplyFacts
  <2> QED BY <1>2, <1>5, <2>1, <2>4, AnsweredStays
<1>11. turn < maxToolTurns /\ Cardinality(RepliesIn(s)) = turn + 1
  BY <1>1, <1>7 DEF Unsettled
<1>12. Conversing'
  <2>1. Begun'
    BY <1>1, <1>2, <1>5, <1>7, BegunStays
  <2>2. CASE Tail(todo) = <<>>
    <3>1. pc' = "model" /\ turn' = turn + 1 /\ turn + 1 <= maxToolTurns
      BY <1>0, <1>11, <2>2, ToolLoopAssumption DEF AfterTools
    <3>2. \A k \in RepliesIn(s) : AnsweredReply(t, k)
      BY <1>9, <1>10, <2>2
    <3>3. Cardinality(RepliesIn(msgs))' = turn + 1
      BY <1>6, <1>11
    <3>4. \A k \in RepliesIn(s) : AnsweredReply(msgs, k)'
      BY <1>1, <3>2 DEF AnsweredReply
    <3>5. Settled'
      BY <1>6, <3>1, <3>3, <3>4 DEF Settled
    <3> QED BY <2>1, <3>1, <3>5 DEF Conversing
  <2>3. CASE Tail(todo) # <<>>
    <3>1. pc' = "tools" /\ turn' = turn
      BY <1>0, <2>3 DEF AfterTools
    <3>2. Answering(msgs, r, todo)'
      BY <1>0, <1>1, <1>9, <2>3 DEF Answering
    <3>3. \A k \in RepliesIn(s) \ {r} : AnsweredReply(msgs, k)'
      BY <1>1, <1>10 DEF AnsweredReply
    <3>4. Cardinality(RepliesIn(msgs))' = turn + 1
      BY <1>6, <1>11
    <3>5. Unsettled'
      BY <1>2, <1>6, <1>8, <1>11, <3>1, <3>2, <3>3, <3>4 DEF Unsettled
    <3> QED BY <2>1, <3>1, <3>5 DEF Conversing
  <2> QED BY <2>2, <2>3
<1>13. \A k : Attempted(k)' = Attempted(k)
  BY <1>0, SameRuns
<1>14. Attempted(attempt)' = Attempted(attempt)
  BY <1>0 DEF Attempted
<1>15. Typed'
  <2>1. Tail(todo) \in Seq(ToolCall)
    BY <1>2
  <2> QED BY <1>0, <1>1, <1>6, <2>1 DEF Typed, AfterTools
<1>16. Equipped' /\ Scheduling'
  BY <1>0, <1>14 DEF Equipped, Scheduling, AfterTools
<1>17. Index' = i + 1
  <2>1. Len(t) = Len(s) + 1 /\ Len(s) \in Nat /\ r \in Nat
    BY <1>2, <1>5, ReplyFacts DEF Grows
  <2>2. i = Len(s) - r + 1
    BY <1>2, <2>1
  <2>3. Index' = Len(t) - r + 1
    BY <1>1, <1>8 DEF Index
  <2> QED BY <2>1, <2>2, <2>3
<1>18. ASSUME NEW wf \in Attempted(attempt) PROVE Succeeded(wf)' /\ Passed(wf)'
  <2>1. (wf = Call) \/ (Succeeded(wf) /\ Passed(wf))
    BY <1>0 DEF Accounted
  <2>2. Succeeded(wf)'
    BY <1>0, <2>1 DEF Succeeded, Ended
  <2>3. wf.turn \in Nat /\ wf.index \in Nat
    BY DEF Attempted, Typed, Workflow
  <2>4. wf.turn < turn \/ (wf.turn = turn /\ wf.index < i + 1)
    <3>1. CASE wf = Call
      <4>1. wf.turn = turn /\ wf.index = i
        BY <1>1, <3>1 DEF Call
      <4> QED BY <1>2, <4>1
    <3>2. CASE Passed(wf)
      BY <1>1, <1>2, <2>3, <3>2 DEF Passed
    <3> QED BY <2>1, <3>1, <3>2
  <2>5. Passed(wf)'
    <3>1. CASE Tail(todo) = <<>>
      <4>1. turn' = turn + 1
        BY <1>0, <3>1
      <4>2. wf.turn < turn + 1
        BY <1>0, <2>3, <2>4
      <4> QED BY <4>1, <4>2 DEF Passed
    <3>2. CASE Tail(todo) # <<>>
      <4>1. pc' = "tools" /\ turn' = turn
        BY <1>0, <3>2 DEF AfterTools
      <4> QED BY <1>17, <2>4, <4>1 DEF Passed
    <3> QED BY <3>1, <3>2
  <2> QED BY <2>2, <2>5
<1>19. Accounted'
  <2>1. pc' # "wait"
    BY <1>0 DEF AfterTools
  <2>2. PICK c : c = <<r, Len(s) + 1 - r>>
    OBVIOUS
  <2>3. Results(t) = Results(s) \cup {c} /\ c \notin Results(s)
    <3>1. Len(s) < r + Len(s[r].calls)
      BY <1>7 DEF Answering
    <3>2. \A k \in RepliesIn(s) \ {r} : AnsweredReply(s, k)
      BY <1>1, <1>7 DEF Unsettled
    <3> QED BY <1>2, <1>4, <1>5, <2>2, <3>1, <3>2, ResultIsOneMore
  <2>4. Cardinality(Results(t)) = Cardinality(Results(s)) + 1
    BY <1>2, <2>3, ResultsFinite, FS_AddElement
  <2>5. Results(msgs)' = Results(t)
    BY <1>1 DEF Results, CallsIn, RepliesIn
  <2>6. Cardinality(Attempted(attempt)) = Cardinality(Results(s)) + 1
    BY <1>0, <1>1 DEF Accounted
  <2>7. Cardinality(Results(t)) \in Nat
    BY <1>6, ResultsFinite
  <2>8. Cardinality(Attempted(attempt))' = Cardinality(Results(msgs))' + 0
    BY <1>14, <2>4, <2>5, <2>6, <2>7
  <2> QED BY <1>14, <1>18, <2>1, <2>8 DEF Accounted
<1>20. AllAsked'
  BY <1>1, <1>2, <1>5, <1>14, AskedStays DEF AllAsked
<1>21. UsedInOrder'
  BY <1>0, <1>13 DEF UsedInOrder, Succeeded, Ended
<1> QED BY <1>12, <1>15, <1>16, <1>19, <1>20, <1>21

LEMMA DiscoverTyped ==
  ASSUME Typed, Discover
  PROVE  /\ found' \in [asked : Nat, tools : Seq(Tool), done : BOOLEAN]
         /\ found'.asked <= Len(Loaded)
         /\ \A i \in 1..Len(found'.tools) :
              found'.tools[i].name \in Range(Offers[found'.tools[i].server])
<1>1. PICK f : f = found
  OBVIOUS
<1>2. /\ f \in [asked : Nat, tools : Seq(Tool), done : BOOLEAN]
      /\ f.asked <= Len(Loaded) /\ Len(Loaded) \in Nat
      /\ \A i \in 1..Len(f.tools) : f.tools[i].name \in Range(Offers[f.tools[i].server])
  BY <1>1, MCPAssumption DEF Typed
<1>3. CASE ListTools
  <2>1. PICK s, o, new, all :
          /\ s = Loaded[f.asked + 1] /\ o = Offers[s] /\ new = ToolsOf(s)
          /\ all = f.tools \o new
    OBVIOUS
  <2>2. found' = [f EXCEPT !.asked = @ + 1, !.tools = all] /\ f.asked < Len(Loaded)
    BY <1>1, <1>3, <2>1 DEF ListTools
  <2>3. s \in Server /\ f.asked + 1 <= Len(Loaded)
    <3>1. f.asked + 1 \in 1..Len(Loaded)
      BY <1>2, <2>2
    <3> QED BY <2>1, <3>1, MCPAssumption
  <2>4. o \in Seq(ToolName) /\ DOMAIN o = 1..Len(o) /\ Len(o) \in Nat
    BY <2>1, <2>3, ToolLoopAssumption
  <2>5. \A k \in 1..Len(o) : o[k] \in Range(o) /\ o[k] \in ToolName
    BY <2>4 DEF Range
  <2>6. new = [k \in 1..Len(o) |-> [server |-> s, name |-> o[k]]]
    BY <2>1, <2>4 DEF ToolsOf
  <2>7. /\ new \in Seq(Tool) /\ Len(new) = Len(o)
        /\ \A k \in 1..Len(o) : new[k].name \in Range(Offers[new[k].server])
    <3>1. \A k \in 1..Len(o) : [server |-> s, name |-> o[k]] \in Tool
      BY <2>3, <2>5 DEF Tool
    <3>2. new \in [1..Len(o) -> Tool]
      BY <2>6, <3>1
    <3>3. new \in Seq(Tool) /\ Len(new) = Len(o)
      BY <2>4, <3>2
    <3>4. \A k \in 1..Len(o) : new[k].name = o[k] /\ new[k].server = s
      BY <2>6
    <3> QED BY <2>1, <2>5, <3>3, <3>4
  <2>8. f.tools \in Seq(Tool)
    BY <1>2
  <2>9. PICK old : old = f.tools
    OBVIOUS
  <2>10. /\ all \in Seq(Tool) /\ Len(all) = Len(old) + Len(new)
         /\ \A i \in 1..Len(old) + Len(new) :
              all[i] = IF i <= Len(old) THEN old[i] ELSE new[i - Len(old)]
    <3>1. old \in Seq(Tool) /\ new \in Seq(Tool) /\ all = old \o new
      BY <2>1, <2>7, <2>8, <2>9
    <3> QED BY ONLY <3>1, ConcatProperties
  <2>11. ASSUME NEW i \in 1..Len(all)
         PROVE  all[i].name \in Range(Offers[all[i].server])
    <3>0. Len(old) \in Nat /\ Len(new) \in Nat
      BY <2>7, <2>8, <2>9
    <3>1. CASE i <= Len(old)
      BY <1>2, <2>9, <2>10, <3>0, <3>1
    <3>2. CASE ~(i <= Len(old))
      <4>1. i - Len(old) \in 1..Len(o)
        BY <2>7, <2>10, <3>0, <3>2
      <4>2. all[i] = new[i - Len(old)]
        BY <2>10, <3>0, <3>2
      <4> QED BY <2>7, <4>1, <4>2
    <3> QED BY <3>1, <3>2
  <2>12. PICK g : g = [f EXCEPT !.asked = @ + 1, !.tools = all]
    OBVIOUS
  <2>13. /\ g \in [asked : Nat, tools : Seq(Tool), done : BOOLEAN]
         /\ g.asked = f.asked + 1 /\ g.tools = all
    <3>1. f \in [asked : Nat, tools : Seq(Tool), done : BOOLEAN] /\ all \in Seq(Tool)
      BY <1>2, <2>10
    <3>2. f.asked + 1 \in Nat
      BY <3>1
    <3>3. g = [asked |-> f.asked + 1, tools |-> all, done |-> f.done]
      BY ONLY <2>12, <3>1
    <3> QED BY ONLY <3>1, <3>2, <3>3
  <2> QED BY <2>2, <2>3, <2>11, <2>12, <2>13
<1>4. CASE Discovered
  <2>1. PICK g : g = [f EXCEPT !.done = TRUE]
    OBVIOUS
  <2>2. /\ g \in [asked : Nat, tools : Seq(Tool), done : BOOLEAN]
        /\ g.asked = f.asked /\ g.tools = f.tools
    BY <1>2, <2>1
  <2>3. found' = g
    BY <1>1, <1>4, <2>1 DEF Discovered
  <2> QED BY <1>2, <2>2, <2>3
<1>5. CASE DiscoveryFails
  <2>1. found' = Undiscovered
    BY <1>5 DEF DiscoveryFails
  <2>2. Undiscovered.asked = 0 /\ Undiscovered.tools = <<>>
    BY DEF Undiscovered
  <2>3. Undiscovered \in [asked : Nat, tools : Seq(Tool), done : BOOLEAN]
    BY DEF Undiscovered
  <2>4. Len(<<>>) = 0 /\ 1..0 = {}
    OBVIOUS
  <2> QED BY <1>2, <2>1, <2>2, <2>3, <2>4
<1> QED BY <1>3, <1>4, <1>5 DEF Discover

LEMMA DiscoverInv ==
  ASSUME LInv, Discover, UNCHANGED loop
  PROVE  LInv'
<1> USE DEF LInv
<1>0. /\ UNCHANGED <<node, pc, turn, msgs, todo, attempt, open, ended, effects>>
      /\ ~found.done
  BY DEF loop, runs, Discover, ListTools, Discovered, DiscoveryFails
<1>1. pc \notin {"tools", "wait"}
  BY <1>0 DEF Equipped
<1>2. Typed'
  BY <1>0, DiscoverTyped DEF Typed
<1>3. Equipped'
  BY <1>0, <1>1 DEF Equipped
<1>4. \A k : Attempted(k)' = Attempted(k)
  BY <1>0, SameRuns
<1>5. Scheduling'
  BY <1>0 DEF Scheduling, Attempted
<1>6. Conversing'
  BY <1>0, <1>1 DEF Conversing, Begun, Settled
<1>7. Accounted'
  <2> SUFFICES ASSUME pc \in {"model", "output"} PROVE Accounted'
    BY <1>0, <1>1 DEF Accounted
  <2>1. ASSUME NEW wf \in Attempted(attempt) PROVE Succeeded(wf)' /\ Passed(wf)'
    BY <1>0, <1>1, <2>1 DEF Accounted, Passed, Succeeded, Ended
  <2>2. Cardinality(Attempted(attempt)) = Cardinality(Results(msgs)) + 0
    BY <1>1 DEF Accounted
  <2> QED BY <1>0, <1>1, <1>4, <2>1, <2>2 DEF Accounted
<1>8. AllAsked'
  BY <1>0, <1>4 DEF AllAsked, Asked
<1>9. UsedInOrder'
  BY <1>0, <1>4 DEF UsedInOrder, Succeeded, Ended
<1> QED BY <1>2, <1>3, <1>5, <1>6, <1>7, <1>8, <1>9

LEMMA RunToolInv ==
  ASSUME LInv, NEW w \in open, RunTool(w), UNCHANGED loop
  PROVE  LInv'
<1> USE DEF LInv
<1>0. /\ UNCHANGED <<node, pc, turn, msgs, todo, attempt, found>>
      /\ open' = open \ {w}
  BY DEF loop, RunTool
<1>1. PICK how \in {"text", "error"} :
        /\ ended' = [x \in DOMAIN ended \cup {w} |-> IF x = w THEN how ELSE ended[x]]
        /\ effects' = effects \cup {w} \/ (how = "error" /\ UNCHANGED effects)
  BY DEF RunTool
<1>2. /\ DOMAIN ended' = DOMAIN ended \cup {w} /\ w \notin DOMAIN ended
      /\ ended'[w] = how /\ \A x \in DOMAIN ended : ended'[x] = ended[x]
  <2>1. w \notin DOMAIN ended
    BY DEF Scheduling
  <2> QED BY <1>1, <2>1
<1>3. open' \cup DOMAIN ended' = open \cup DOMAIN ended
  BY <1>0, <1>2
<1>4. \A k : Attempted(k)' = Attempted(k)
  BY <1>3 DEF Attempted
<1>5. Attempted(attempt)' = Attempted(attempt)
  BY <1>0, <1>3 DEF Attempted
<1>6. \A x : Succeeded(x) => Succeeded(x)'
  BY <1>2 DEF Succeeded, Ended
<1>7. effects \subseteq effects'
  BY <1>1
<1>8. LastReply' = LastReply /\ Index' = Index
  BY <1>0, LastReplies DEF Index
<1>9. Typed'
  BY <1>0, <1>3 DEF Typed
<1>10. Equipped'
  BY <1>0 DEF Equipped, Known, ByName, SelectLastInSeq
<1>11. Scheduling'
  <2>1. open' \cap DOMAIN ended' = {}
    BY <1>0, <1>2 DEF Scheduling
  <2>2. \A x \in DOMAIN ended' : ended'[x] = "text" => x \in effects'
    <3> SUFFICES ASSUME NEW x \in DOMAIN ended', ended'[x] = "text" PROVE x \in effects'
      OBVIOUS
    <3>1. CASE x = w
      BY <1>1, <1>2, <3>1
    <3>2. CASE x # w
      BY <1>2, <1>7, <3>2 DEF Scheduling
    <3> QED BY <3>1, <3>2
  <2> QED BY <1>0, <1>3, <1>5, <2>1, <2>2 DEF Scheduling
<1>12. Conversing'
  <2>1. pc \in {"tools", "wait"} => Unsettled'
    BY <1>0, <1>8 DEF Conversing, Unsettled
  <2> QED BY <1>0, <2>1 DEF Conversing, Begun, Settled
<1>13. Accounted'
  <2> SUFFICES ASSUME pc \in {"model", "tools", "wait", "output"} PROVE Accounted'
    BY <1>0 DEF Accounted
  <2>1. Call' = Call
    BY <1>0, <1>8 DEF Call, ByName, SelectLastInSeq
  <2>2. ASSUME NEW x \in Attempted(attempt)
        PROVE  (pc = "wait" /\ x = Call) \/ (Succeeded(x)' /\ Passed(x)')
    BY <1>0, <1>6, <1>8 DEF Accounted, Passed
  <2>3. pc = "wait" => Call \in Attempted(attempt)
    BY DEF Accounted
  <2>4. Cardinality(Attempted(attempt))' =
          Cardinality(Results(msgs))' + (IF pc = "wait" THEN 1 ELSE 0)
    BY <1>0, <1>5 DEF Accounted
  <2> QED BY <1>0, <1>5, <2>1, <2>2, <2>3, <2>4 DEF Accounted
<1>14. AllAsked'
  BY <1>0, <1>5 DEF AllAsked, Asked
<1>15. UsedInOrder'
  BY <1>0, <1>4, <1>6, <1>7 DEF UsedInOrder
<1> QED BY <1>9, <1>10, <1>11, <1>12, <1>13, <1>14, <1>15

LEMMA LNext == LInv /\ [Next]_vars => LInv'
<1> SUFFICES ASSUME LInv, [Next]_vars PROVE LInv'
  OBVIOUS
<1>1. ASSUME NodeStep PROVE LInv'
  <2>1. CASE Begin
    BY <2>1, BeginInv
  <2>2. CASE Fail /\ pc \in {"model", "tools", "wait"}
    BY <2>2, EndsInv DEF Fail
  <2>3. CASE PutOut /\ pc = "model"
    BY <2>3, EndsInv DEF PutOut
  <2>4. CASE ModelCalls
    BY <2>4, ModelCallsInv
  <2>5. CASE ScheduleTool
    BY <2>5, ScheduleToolInv
  <2>6. CASE ToolReturns
    BY <2>6, ToolReturnsInv
  <2> QED BY <1>1, <2>1, <2>2, <2>3, <2>4, <2>5, <2>6
          DEF NodeStep, ModelNode, ChatModelNode, InLoop, ModelFails, ModelAnswers,
              TurnsExceeded, ScheduleFails, ToolFails, WaitFails, CallRejected, Crash
<1>2. ASSUME SidecarStep PROVE LInv'
  BY <1>2, DiscoverInv, RunToolInv DEF SidecarStep
<1>3. ASSUME UNCHANGED vars PROVE LInv'
  <2>1. /\ UNCHANGED <<node, pc, turn, msgs, todo, attempt, found, open, ended, effects>>
    BY <1>3 DEF vars, loop, mcpvars
  <2>2. LastReply' = LastReply /\ Index' = Index
    BY <2>1, LastReplies DEF Index
  <2>3. Typed' /\ Equipped' /\ Scheduling'
    BY <2>1 DEF LInv, Typed, Equipped, Scheduling, Attempted, Known, ByName, SelectLastInSeq
  <2>4. Conversing'
    BY <2>1, <2>2 DEF LInv, Conversing, Begun, Settled, Unsettled
  <2>5. Call' = Call
    BY <2>1, <2>2 DEF Call, ByName, SelectLastInSeq
  <2>6. Accounted'
    BY <2>1, <2>2, <2>5 DEF LInv, Accounted, Attempted, Passed, Succeeded, Ended
  <2>7. AllAsked' /\ UsedInOrder'
    BY <2>1 DEF LInv, AllAsked, UsedInOrder, Attempted, Asked, Succeeded, Ended
  <2> QED BY <2>3, <2>4, <2>6, <2>7 DEF LInv
<1> QED BY <1>1, <1>2, <1>3 DEF Next

LEMMA LInvariance == Spec => []LInv
BY LInit, LNext, PTL DEF Spec

\* What the model is asked with is a conversation, in every turn of every
\* attempt: each earlier reply of it is followed by the results of its calls.
THEOREM Conversation == Spec => []WellFormedConversation
<1>1. LInv => WellFormedConversation
  BY DEF LInv, Conversing, Begun, Settled, WellFormedConversation
<1> QED BY <1>1, LInvariance, PTL

\* Tools are used one at a time, in the order of the calls, within each attempt,
\* and an orphaned workflow is only ever that of an attempt's last call.
THEOREM OneAtATime == Spec => []UsedInOrder
<1>1. LInv => UsedInOrder
  BY DEF LInv
<1> QED BY <1>1, LInvariance, PTL

\* A tool runs only for a call of the conversation, at a server that offers it,
\* and all calls were carried out when a reply is put out.
THEOREM OnlyWhatWasAsked == Spec => []EffectsAreCalled
<1>1. ASSUME LInv PROVE EffectsAreCalled
  <2> USE <1>1 DEF LInv
  <2>1. \A wf \in Attempted(attempt) : Asked(wf)
    BY DEF AllAsked
  <2>2. ASSUME pc = "output"
        PROVE  /\ \A wf \in Attempted(attempt) : wf \in effects /\ wf \notin open
               /\ Cardinality(Attempted(attempt)) = Cardinality(CallsIn(msgs))
    <3>1. \A wf \in Attempted(attempt) : Succeeded(wf)
      BY <2>2 DEF Accounted
    <3>2. \A wf \in Attempted(attempt) : wf \in effects /\ wf \notin open
      BY <3>1 DEF Succeeded, Ended, Scheduling
    <3>3. Results(msgs) = CallsIn(msgs)
      BY <2>2, AllHaveResults DEF Conversing, Settled, Typed
    <3>4. Cardinality(Attempted(attempt)) = Cardinality(Results(msgs)) + 0
      BY <2>2 DEF Accounted
    <3>5. Cardinality(Results(msgs)) \in Nat
      BY ResultsFinite DEF Typed
    <3> QED BY <3>2, <3>3, <3>4, <3>5
  <2> QED BY <2>1, <2>2 DEF EffectsAreCalled
<1> QED BY <1>1, LInvariance, PTL
=============================================================================
