--------------------------- MODULE DurableRun_proofs ---------------------------
(***************************************************************************)
(* The safety properties of DurableRun for every value of the constants.   *)
(*                                                                         *)
(* IInv is the inductive invariant: type correctness and, for each run,    *)
(* the six properties the runs check, which need one another.  A replay    *)
(* stays on the recorded positions (ReplayAtCheckpoint) because these      *)
(* chain (Chained); the task it hands out is at the last of them           *)
(* (TaskAtFrontier) because the replay was; the result that is recorded    *)
(* extends the chain because the task was there; and nobody else moves the *)
(* run meanwhile (Driven).  CallsKnown is added so that what WaitReturns   *)
(* reads is a run.                                                         *)
(***************************************************************************)
EXTENDS DurableRun, AgentGraph_proofs

\* What holds of one run.
RunInv(i) ==
  /\ Chained(i)
  /\ ReplayAtCheckpoint(i)
  /\ TaskAtFrontier(i)
  /\ Driven(i)
  /\ WithinBudget(i)
  /\ Justified(i)

\* A caller waits only for a run that exists.
CallsKnown ==
  \A c \in Invocation : call[c].pc = "waiting" => Exists(call[c].id)

\* The inductive invariant.
IInv ==
  /\ TypeOK
  /\ \A i \in InstanceId : RunInv(i)
  /\ CallsKnown
  /\ AnswerIsFinal

-----------------------------------------------------------------------------

\* What appending an element does to a sequence.
LEMMA AppendFacts ==
  ASSUME NEW S, NEW s \in Seq(S), NEW e \in S
  PROVE  /\ Len(Append(s, e)) = Len(s) + 1
         /\ \A k \in 1..Len(s) : Append(s, e)[k] = s[k]
         /\ Append(s, e)[Len(s) + 1] = e
OBVIOUS

\* A run that exists is well typed and has a positive limit.
LEMMA LimitType ==
  ASSUME TypeOK, NEW i \in InstanceId, Exists(i)
  PROVE  inst[i] \in Instance /\ Limit(i) \in Nat \ {0}
<1>1. inst[i] \in Instance
  BY DEF TypeOK, Exists
<1>2. inst[i].maxSteps \in Int
  BY <1>1, AgentAssumption, DurableAssumption DEF Instance, RequestedSteps
<1> QED BY <1>1, <1>2, EffectiveLimitType DEF Limit

\* What a stopped worker leaves behind is well typed.
LEMMA AbandonType ==
  ASSUME TypeOK, NEW p \in Process, Abandon(p)
  PROVE  /\ turn' \in [InstanceId -> Turn \cup {NoTurn}]
         /\ task' \in [InstanceId -> Task \cup {NoTask}]
<1>1. turn' \in [InstanceId -> Turn \cup {NoTurn}]
  BY DEF TypeOK, Abandon
<1>2. ASSUME NEW i \in InstanceId, InHand(task[i], p)
      PROVE  RequeuedTask(task[i]) \in Task
  BY <1>2 DEF TypeOK, InHand, RequeuedTask, Task, NoTask
<1>3. task' \in [InstanceId -> Task \cup {NoTask}]
  BY <1>2 DEF TypeOK, Abandon
<1> QED BY <1>1, <1>3

\* A created run is well typed.
LEMMA CreateType ==
  ASSUME TypeOK, NEW i \in InstanceId, Create(i)
  PROVE  /\ inst' \in [InstanceId -> Instance \cup {Absent}]
         /\ ckpt' \in [InstanceId -> Seq(Position)]
<1>1. PICK input \in Inputs, m \in MaxStepsOpts :
        /\ inst' = [inst EXCEPT ![i] =
             Created(JsonState(input), RequestedSteps(m))]
        /\ ckpt' = [ckpt EXCEPT ![i] = <<Entry(JsonState(input))>>]
  BY DEF Create
<1>2. JsonState(input) \in State
  BY AgentAssumption, JsonStateType
<1>3. Created(JsonState(input), RequestedSteps(m)) \in Instance
  BY <1>2, EmptyStateType, DurableAssumption DEF Created, Instance, Reason
<1>4. <<Entry(JsonState(input))>> \in Seq(Position)
  BY <1>2, EntryType
<1> QED BY <1>1, <1>3, <1>4 DEF TypeOK

\* However a run ends, the state stays well typed.
LEMMA EndRunType ==
  ASSUME TypeOK, NEW i \in InstanceId, Exists(i)
  PROVE  \A status \in {"completed", "failed"}, reason \in Reason, output \in State :
           EndRun(i, status, reason, output) => TypeOK'
<1> SUFFICES ASSUME NEW status \in {"completed", "failed"}, NEW reason \in Reason,
                    NEW output \in State, EndRun(i, status, reason, output)
             PROVE  TypeOK'
  OBVIOUS
<1>1. inst[i] \in Instance
  BY LimitType
<1>2. [inst[i] EXCEPT !.status = status, !.reason = reason, !.output = output,
                      !.due = FALSE] \in Instance
  BY <1>1 DEF Instance
<1>3. inst' \in [InstanceId -> Instance \cup {Absent}]
  BY <1>2 DEF TypeOK, EndRun
<1>4. turn' \in [InstanceId -> Turn \cup {NoTurn}]
  BY DEF TypeOK, EndRun
<1> QED BY <1>3, <1>4 DEF TypeOK, EndRun, hvars

\* Starting, closing and crashing processes preserve TypeOK.
LEMMA ProcessTypeStep ==
  ASSUME TypeOK, NEW p \in Process, ProcessStep(p)
  PROVE  TypeOK'
<1>1. ASSUME KillCalls(p)
      PROVE  call' \in [Invocation -> Call \cup {NotCalled}]
  <2>1. ASSUME NEW c \in Invocation, call[c].pc = "waiting"
        PROVE  [call[c] EXCEPT !.pc = "dead"] \in Call
    <3>1. call[c] \in [pc : {"waiting", "dead"}, proc : Process, id : InstanceId]
      BY <2>1 DEF TypeOK, Call, NotCalled
    <3> QED BY <3>1 DEF Call
  <2> QED BY <1>1, <2>1 DEF TypeOK, KillCalls
<1>2. ASSUME stops < MaxStops, stops' = stops + 1
      PROVE  stops' \in 0..MaxStops
  BY <1>2, DurableAssumption DEF TypeOK
<1>3. CASE StartWorker(p)
  BY <1>3 DEF StartWorker, TypeOK, ProcState, hvars
<1>4. CASE RegisterGraph(p)
  BY <1>4 DEF RegisterGraph, TypeOK, ProcState, hvars
<1>5. CASE NewRunnerFails(p)
  BY <1>5, <1>2, AbandonType DEF NewRunnerFails, TypeOK, ProcState, hvars
<1>6. CASE Close(p)
  BY <1>6, <1>2, AbandonType DEF Close, TypeOK, ProcState, hvars
<1>7. CASE Exit(p)
  BY <1>7, <1>1 DEF Exit, TypeOK, ProcState, hvars
<1>8. CASE Crash(p)
  BY <1>8, <1>1, <1>2, AbandonType DEF Crash, TypeOK, ProcState, hvars
<1> QED BY <1>3, <1>4, <1>5, <1>6, <1>7, <1>8 DEF ProcessStep

\* The steps of Invoke preserve TypeOK.
LEMMA CallTypeStep ==
  ASSUME TypeOK, CallsKnown, NEW c \in Invocation, CallStep(c)
  PROVE  TypeOK'
<1>1. ASSUME NEW p \in Process, ScheduleFails(c, p)
      PROVE  TypeOK'
  BY <1>1 DEF ScheduleFails, TypeOK, Call, hvars
<1>2. ASSUME NEW p \in Process, NEW i \in InstanceId, ScheduleNew(c, p, i)
      PROVE  TypeOK'
  BY <1>2, CreateType DEF ScheduleNew, TypeOK, Call
<1>3. ASSUME NEW p \in Process, NEW i \in InstanceId, ScheduleReplyLost(c, p, i)
      PROVE  TypeOK'
  BY <1>3, CreateType DEF ScheduleReplyLost, TypeOK, Call
<1>4. ASSUME NEW p \in Process, NEW i \in InstanceId, AttachExisting(c, p, i)
      PROVE  TypeOK'
  BY <1>4 DEF AttachExisting, TypeOK, Call, hvars
<1>5. ASSUME call[c].pc = "waiting"
      PROVE  /\ call[c].proc \in Process /\ call[c].id \in InstanceId
             /\ [call[c] EXCEPT !.pc = "error"] \in Call
  <2>1. call[c] \in [pc : {"waiting", "dead"}, proc : Process, id : InstanceId]
    BY <1>5 DEF TypeOK, Call, NotCalled
  <2> QED BY <2>1 DEF Call
<1>6. CASE WaitReturns(c)
  <2> DEFINE i == call[c].id
             answer == [pc |-> "ok", proc |-> call[c].proc, id |-> i,
                        out |-> inst[i].output]
  <2>1. call[c].pc = "waiting" /\ Exists(i)
    BY <1>6 DEF WaitReturns, CallsKnown
  <2>2. inst[i].output \in State
    BY <2>1, <1>5 DEF TypeOK, Exists, Instance
  <2>3. answer \in Call
    BY <2>1, <2>2, <1>5 DEF Call
  <2>4. call' \in [Invocation -> Call \cup {NotCalled}]
    BY <1>6, <2>1, <2>3, <1>5 DEF WaitReturns, TypeOK
  <2> QED BY <1>6, <2>4 DEF WaitReturns, TypeOK, hvars
<1>7. CASE GiveUp(c)
  BY <1>7, <1>5 DEF GiveUp, TypeOK, hvars
<1> QED BY <1>1, <1>2, <1>3, <1>4, <1>6, <1>7 DEF CallStep

\* A workflow task is replayed only for a run that exists.
LEMMA TurnType ==
  ASSUME TypeOK, NEW i \in InstanceId, RunInv(i), turn[i] # NoTurn
  PROVE  /\ turn[i] \in Turn /\ Running(i) /\ Exists(i)
         /\ inst[i] \in Instance
<1>1. turn[i] \in Turn /\ Running(i)
  BY DEF TypeOK, RunInv, Driven
<1>2. Exists(i)
  BY <1>1 DEF Running, Exists, Absent
<1> QED BY <1>1, <1>2, LimitType

\* A replay that moves on is still a replay.
LEMMA TurnUpdateType ==
  ASSUME NEW t \in Turn, NEW pos \in Position, NEW n \in Nat
  PROVE  [t EXCEPT !.pos = pos, !.step = n] \in Turn
BY DEF Turn

\* The steps of graphWorkflow preserve TypeOK.
LEMMA TurnTypeStep ==
  ASSUME TypeOK, NEW i \in InstanceId, RunInv(i), TurnStep(i)
  PROVE  TypeOK'
<1> USE DEF Current, Results
<1>1. /\ turn[i] \in Turn /\ Exists(i) /\ inst[i] \in Instance
      /\ JsonState(turn[i].pos.state) \in State
  <2>1. turn[i] # NoTurn
    BY DEF TurnStep, Iterate, ScheduleNode, NodeFailed, MaxStepsExceeded,
           RoutingFailed, FinishRun, AtFrontier, AtNode
  <2>2. turn[i] \in Turn /\ Exists(i) /\ inst[i] \in Instance
    BY <2>1, TurnType
  <2> QED BY <2>2, JsonStateType DEF Turn, Position
<1>2. CASE Iterate(i)
  <2> DEFINE u == inst[i].results[turn[i].step + 1]
  <2>1. /\ u \in State
        /\ turn[i].pos \in Position /\ turn[i].pos.current \in Graph.nodes
    BY <1>1, <1>2 DEF Iterate, AtNode, Instance, Turn
  <2>2. Advanced(turn[i].pos, u) \in Position
    BY <2>1, AdvancedType
  <2>3. turn' = [turn EXCEPT ![i] =
          [@ EXCEPT !.pos = Advanced(turn[i].pos, u), !.step = turn[i].step + 1]]
    BY <1>1, <1>2 DEF Iterate, Replayed, TypeOK
  <2>4. turn' \in [InstanceId -> Turn \cup {NoTurn}]
    <3> HIDE DEF u
    <3>1. [turn[i] EXCEPT !.pos = Advanced(turn[i].pos, u),
                          !.step = turn[i].step + 1] \in Turn
      <4>1. turn[i].step + 1 \in Nat
        BY <1>1 DEF Turn
      <4> QED BY <2>2, <1>1, <4>1, TurnUpdateType
    <3> QED BY <2>3, <3>1 DEF TypeOK
  <2> QED BY <1>2, <2>4 DEF Iterate, TypeOK, hvars
<1>3. CASE ScheduleNode(i)
  <2>1. task'[i] \in Task /\ task' \in [InstanceId -> Task \cup {NoTask}]
    BY <1>1, <1>3 DEF ScheduleNode, AtFrontier, AtNode, NodeInput, Task, TypeOK
  <2>2. inst' \in [InstanceId -> Instance \cup {Absent}]
    <3>1. [inst[i] EXCEPT !.due = FALSE] \in Instance
      BY <1>1 DEF Instance
    <3> QED BY <1>3, <3>1 DEF ScheduleNode, TypeOK
  <2>3. turn' \in [InstanceId -> Turn \cup {NoTurn}]
    BY <1>3 DEF ScheduleNode, TypeOK
  <2> QED BY <1>3, <2>1, <2>2, <2>3 DEF ScheduleNode, TypeOK, hvars
<1>4. CASE NodeFailed(i)
  BY <1>1, <1>4, EndRunType, EmptyStateType DEF NodeFailed, Reason
<1>5. CASE MaxStepsExceeded(i)
  BY <1>1, <1>5, EndRunType, EmptyStateType DEF MaxStepsExceeded, Reason
<1>6. CASE RoutingFailed(i)
  BY <1>1, <1>6, EndRunType, EmptyStateType DEF RoutingFailed, Reason
<1>7. CASE FinishRun(i)
  BY <1>1, <1>7, EndRunType DEF FinishRun, Reason
<1> QED BY <1>2, <1>3, <1>4, <1>5, <1>6, <1>7 DEF TurnStep

\* An activity task is open only for a run that exists and goes on.
LEMMA TaskType ==
  ASSUME TypeOK, NEW i \in InstanceId, RunInv(i), TaskOpen(i)
  PROVE  /\ task[i] \in Task /\ Running(i) /\ Exists(i)
         /\ inst[i] \in Instance
         /\ Len(ckpt[i]) \in Nat \ {0} /\ Frontier(i) \in Position
         /\ Frontier(i).current \in Graph.nodes
         /\ turn[i] = NoTurn
<1>1. task[i] \in Task /\ Running(i)
  BY DEF TypeOK, RunInv, Driven, TaskOpen
<1>2. Exists(i) /\ inst[i] \in Instance
  BY <1>1, LimitType DEF Running, Exists, Absent
<1>3. Len(ckpt[i]) \in Nat \ {0}
  BY <1>2 DEF TypeOK, RunInv, Chained, Results, Instance
<1>4. Frontier(i) \in Position
  BY <1>3 DEF TypeOK, Frontier, Last
<1>5. Frontier(i).current \in Graph.nodes
  BY <1>1 DEF RunInv, TaskAtFrontier, Task
<1>6. turn[i] = NoTurn
  BY <1>1 DEF RunInv, Driven
<1> QED BY <1>1, <1>2, <1>3, <1>4, <1>5, <1>6

\* The steps of executeNodeActivity and its recording preserve TypeOK.
LEMMA TaskTypeStep ==
  ASSUME TypeOK, NEW i \in InstanceId, RunInv(i), TaskStep(i)
  PROVE  TypeOK'
<1>1. TaskOpen(i)
  BY DEF TaskStep, RunNode, RecordResult, RecordFailure, TaskOpen, NoTask
<1>2. CASE RunNode(i)
  <2>1. task[i] \in Task /\ task[i].status = "running"
    BY <1>1, <1>2, TaskType DEF RunNode
  <2>2. ASSUME NEW u \in NodeOutputs[task[i].node]
        PROVE  [status |-> "done", node |-> task[i].node, state |-> task[i].state,
                proc |-> task[i].proc, updates |-> u] \in Task
    BY <2>1, AgentAssumption DEF Task
  <2>3. [task[i] EXCEPT !.status = "failed"] \in Task
    BY <2>1 DEF Task
  <2>4. task' \in [InstanceId -> Task \cup {NoTask}]
    BY <1>2, <2>2, <2>3 DEF RunNode, TypeOK
  <2> QED BY <1>2, <2>4 DEF RunNode, TypeOK
<1>3. CASE RecordResult(i)
  <2> DEFINE u == JsonState(task[i].updates)
             pos == Advanced(Frontier(i), u)
  <2>1. u \in State
    BY <1>1, <1>3, TaskType, JsonStateType DEF RecordResult, Task
  <2>2. pos \in Position
    BY <1>1, <2>1, TaskType, AdvancedType
  <2>3. [inst[i] EXCEPT !.results = Append(@, u), !.fails = 0, !.due = TRUE]
          \in Instance
    <3>1. inst[i] \in Instance /\ Append(inst[i].results, u) \in Seq(State)
      BY <1>1, <2>1, TaskType DEF Instance
    <3>2. 0 \in 0..MaxAttempts
      BY DurableAssumption
    <3> HIDE DEF u
    <3> QED BY <3>1, <3>2 DEF Instance
  <2>4. inst' \in [InstanceId -> Instance \cup {Absent}]
    BY <1>3, <2>3 DEF RecordResult, TypeOK
  <2>5. ckpt' \in [InstanceId -> Seq(Position)]
    BY <1>3, <2>2 DEF RecordResult, TypeOK, Frontier, Last
  <2> QED BY <1>3, <2>4, <2>5 DEF RecordResult, TypeOK
<1>4. CASE RecordFailure(i)
  <2>1. [inst[i] EXCEPT !.fails = FailedAttempts(i), !.due = TRUE] \in Instance
    <3>1. inst[i] \in Instance /\ inst[i].fails < MaxAttempts
      BY <1>1, TaskType DEF RunInv, TaskAtFrontier
    <3>2. inst[i].fails + 1 \in 0..MaxAttempts
      BY <3>1, DurableAssumption DEF Instance
    <3> QED BY <3>1, <3>2 DEF Instance, FailedAttempts
  <2>2. inst' \in [InstanceId -> Instance \cup {Absent}]
    BY <1>4, <2>1 DEF RecordFailure, TypeOK
  <2> QED BY <1>4, <2>2 DEF RecordFailure, TypeOK, hvars
<1> QED BY <1>2, <1>3, <1>4 DEF TaskStep

\* Handing out a task preserves TypeOK.
LEMMA DispatchTypeStep ==
  ASSUME TypeOK, NEW p \in Process, NEW i \in InstanceId, RunInv(i),
         Dispatch(p, i)
  PROVE  TypeOK'
<1>1. CASE BeginReplay(p, i)
  <2>1. inst[i].input \in State
    BY <1>1 DEF BeginReplay, Dispatchable, TypeOK, Instance
  <2>2. turn' \in [InstanceId -> Turn \cup {NoTurn}]
    BY <1>1, <2>1, EntryType DEF BeginReplay, TypeOK, Turn
  <2> QED BY <1>1, <2>2 DEF BeginReplay, TypeOK, hvars
<1>2. CASE GraphNotRegistered(p, i)
  BY <1>2, EndRunType, EmptyStateType
     DEF GraphNotRegistered, Dispatchable, Exists, Reason
<1>3. CASE DispatchActivity(p, i)
  <2>1. [status |-> IF GraphRegistered(p) THEN "running" ELSE "failed",
         node |-> task[i].node, state |-> task[i].state, proc |-> p] \in Task
    BY <1>3 DEF DispatchActivity, TypeOK, Task, NoTask
  <2>2. task' \in [InstanceId -> Task \cup {NoTask}]
    BY <1>3, <2>1 DEF DispatchActivity, TypeOK
  <2> QED BY <1>3, <2>2 DEF DispatchActivity, TypeOK, hvars
<1> QED BY <1>1, <1>2, <1>3 DEF Dispatch

-----------------------------------------------------------------------------
(* What an action does not touch of a run stays invariant. *)

\* A run that a step does not touch keeps its invariant, as long as the process
\* that replays it stays ready and `stops` does not go down.
LEMMA Frame ==
  ASSUME TypeOK, TypeOK', NEW i \in InstanceId, RunInv(i),
         inst'[i] = inst[i], turn'[i] = turn[i], task'[i] = task[i],
         ckpt'[i] = ckpt[i], ran'[i] = ran[i], stops' >= stops,
         turn[i] # NoTurn => proc'[turn[i].proc] = "ready"
  PROVE  RunInv(i)'
<1> USE DEF RunInv, Results, Limit, Frontier, Last, Exists, Running, TaskOpen
<1>1. Chained(i)'
  BY DEF Chained
<1>2. ReplayAtCheckpoint(i)'
  BY DEF ReplayAtCheckpoint
<1>3. TaskAtFrontier(i)'
  BY DEF TaskAtFrontier
<1>4. Driven(i)'
  BY DEF Driven
<1>5. WithinBudget(i)'
  BY DurableAssumption DEF WithinBudget, TypeOK, Instance
<1>6. Justified(i)'
  BY DEF Justified
<1> QED BY <1>1, <1>2, <1>3, <1>4, <1>5, <1>6

\* A worker that stops hands its work back: the invariant of every run holds on.
LEMMA AbandonRunStep ==
  ASSUME TypeOK, TypeOK', NEW i \in InstanceId, RunInv(i),
         NEW p \in Process, Abandon(p), UNCHANGED <<inst, hvars>>,
         stops' = stops + 1, \A q \in Process : q # p => proc'[q] = proc[q]
  PROVE  RunInv(i)'
<1> USE DEF RunInv, Results, Limit, Frontier, Last, Exists, Running, TaskOpen, hvars
<1>1. turn'[i] = IF turn[i].proc = p THEN NoTurn ELSE turn[i]
  BY DEF Abandon
<1>2. task'[i] = IF InHand(task[i], p) THEN RequeuedTask(task[i]) ELSE task[i]
  BY DEF Abandon
<1>3. TaskOpen(i)' <=> TaskOpen(i)
  BY <1>2 DEF InHand, RequeuedTask, NoTask
<1>4. TaskOpen(i) => task'[i].node = task[i].node /\ task'[i].state = task[i].state
  BY <1>2 DEF RequeuedTask
<1>5. Chained(i)'
  BY DEF Chained
<1>6. ReplayAtCheckpoint(i)'
  BY <1>1 DEF ReplayAtCheckpoint
<1>7. TaskAtFrontier(i)'
  BY <1>3, <1>4 DEF TaskAtFrontier
<1>8. Driven(i)'
  <2>1. turn'[i] # NoTurn => turn'[i] = turn[i] /\ turn[i].proc \in Process \ {p}
    BY <1>1 DEF TypeOK, Turn
  <2> QED BY <1>3, <2>1 DEF Driven
<1>9. WithinBudget(i)'
  <2>1. task'[i].status \in {"done", "failed"} => task'[i] = task[i]
    BY <1>2 DEF RequeuedTask
  <2> QED BY <2>1, DurableAssumption DEF WithinBudget, TypeOK, Instance
<1>10. Justified(i)'
  BY DEF Justified
<1> QED BY <1>5, <1>6, <1>7, <1>8, <1>9, <1>10

\* Process steps preserve every run's invariant.
LEMMA ProcessRunStep ==
  ASSUME TypeOK, TypeOK', NEW i \in InstanceId, RunInv(i),
         NEW p \in Process, ProcessStep(p)
  PROVE  RunInv(i)'
<1>1. turn[i] # NoTurn => turn[i].proc \in Process /\ proc[turn[i].proc] = "ready"
  BY DEF RunInv, Driven, TypeOK, Turn
<1>2. stops \in Nat
  BY DurableAssumption DEF TypeOK
<1>3. CASE StartWorker(p) \/ RegisterGraph(p) \/ Exit(p)
  <2>1. turn[i] # NoTurn => proc'[turn[i].proc] = "ready"
    BY <1>1, <1>3 DEF StartWorker, RegisterGraph, Exit, TypeOK
  <2>2. UNCHANGED <<inst, turn, task, stops, hvars>>
    BY <1>3 DEF StartWorker, RegisterGraph, Exit
  <2> QED BY <1>2, <2>1, <2>2, Frame DEF hvars
<1>4. CASE NewRunnerFails(p) \/ Close(p) \/ Crash(p)
  <2>1. Abandon(p) /\ UNCHANGED <<inst, hvars>> /\ stops' = stops + 1
    BY <1>4 DEF NewRunnerFails, Close, Crash
  <2>2. \A q \in Process : q # p => proc'[q] = proc[q]
    BY <1>4 DEF NewRunnerFails, Close, Crash, TypeOK
  <2> QED BY <2>1, <2>2, AbandonRunStep
<1> QED BY <1>3, <1>4 DEF ProcessStep

\* A created run satisfies its invariant and disturbs no other.
LEMMA CreateRunStep ==
  ASSUME TypeOK, TypeOK', NEW i \in InstanceId, RunInv(i),
         NEW j \in InstanceId, ~Exists(j), Create(j),
         UNCHANGED <<proc, turn, task, stops, ran>>
  PROVE  RunInv(i)'
<1>1. stops \in Nat
  BY DurableAssumption DEF TypeOK
<1>2. CASE i # j
  <2>1. inst'[i] = inst[i] /\ ckpt'[i] = ckpt[i]
    BY <1>2 DEF Create, TypeOK
  <2>2. turn[i] # NoTurn => proc'[turn[i].proc] = "ready"
    BY DEF RunInv, Driven
  <2> QED BY <1>1, <2>1, <2>2, Frame
<1>3. CASE i = j
  <2>1. PICK input \in Inputs, m \in MaxStepsOpts :
          /\ inst'[i] = Created(JsonState(input), RequestedSteps(m))
          /\ ckpt'[i] = <<Entry(JsonState(input))>>
    BY <1>3 DEF Create, TypeOK
  <2>2. turn'[i] = NoTurn /\ task'[i] = NoTask
    BY <1>3 DEF RunInv, Driven, Running, Exists, Absent, TaskOpen
  <2>3. Exists(i)' /\ Running(i)'
    BY <2>1 DEF Created, Exists, Running, Absent
  <2>4. Limit(i)' \in Nat \ {0}
    <3>1. RequestedSteps(m) \in Int
      BY AgentAssumption, DurableAssumption DEF RequestedSteps
    <3> QED BY <2>1, <3>1, EffectiveLimitType DEF Limit, Created
  <2> USE DEF Created, Results, Frontier, Last, TaskOpen
  <2>5. Chained(i)'
    BY <2>1, <2>4 DEF Chained
  <2>6. ReplayAtCheckpoint(i)' /\ TaskAtFrontier(i)'
    BY <2>2 DEF ReplayAtCheckpoint, TaskAtFrontier
  <2>7. Driven(i)'
    BY <2>1, <2>2, <2>3 DEF Driven
  <2>8. WithinBudget(i)'
    <3>1. ran[i] <= stops /\ ran'[i] = ran[i] /\ stops' = stops
      BY <1>1, <1>3, <2>2 DEF RunInv, WithinBudget, NoTask, TypeOK
    <3> QED BY <1>1, <2>1, <2>2, <2>3, <3>1 DEF WithinBudget, NoTask, TypeOK
  <2>9. Justified(i)'
    BY <2>1 DEF Justified
  <2> QED BY <2>5, <2>6, <2>7, <2>8, <2>9 DEF RunInv
<1> QED BY <1>2, <1>3

\* The steps of Invoke preserve every run's invariant.
LEMMA CallRunStep ==
  ASSUME TypeOK, TypeOK', NEW i \in InstanceId, RunInv(i),
         NEW c \in Invocation, CallStep(c)
  PROVE  RunInv(i)'
<1>1. ASSUME NEW p \in Process, NEW j \in InstanceId,
             ScheduleNew(c, p, j) \/ ScheduleReplyLost(c, p, j)
      PROVE  RunInv(i)'
  <2>1. /\ ~Exists(j) /\ Create(j)
        /\ UNCHANGED <<proc, turn, task, stops, ran>>
    BY <1>1 DEF ScheduleNew, ScheduleReplyLost, Exists
  <2> QED BY <2>1, CreateRunStep
<1>2. ASSUME UNCHANGED <<proc, inst, turn, task, stops, hvars>>
      PROVE  RunInv(i)'
  <2>1. stops \in Nat
    BY DurableAssumption DEF TypeOK
  <2>2. turn[i] # NoTurn => proc'[turn[i].proc] = "ready"
    BY <1>2 DEF RunInv, Driven
  <2> QED BY <1>2, <2>1, <2>2, Frame DEF hvars
<1>3. ASSUME \/ \E p \in Process : ScheduleFails(c, p)
             \/ \E p \in Process, j \in InstanceId : AttachExisting(c, p, j)
             \/ WaitReturns(c) \/ GiveUp(c)
      PROVE  UNCHANGED <<proc, inst, turn, task, stops, hvars>>
  BY <1>3 DEF ScheduleFails, AttachExisting, WaitReturns, GiveUp
<1> QED BY <1>1, <1>2, <1>3 DEF CallStep

\* A replay that has no recorded result left, that is at no node, or that is at
\* the limit has reached the run's last recorded position.
LEMMA ReplayComplete ==
  ASSUME TypeOK, NEW i \in InstanceId, RunInv(i), turn[i] # NoTurn,
         \/ turn[i].step = Len(Results(i))
         \/ Current(i) \notin Graph.nodes
         \/ turn[i].step >= Limit(i)
  PROVE  turn[i].step = Len(Results(i)) /\ turn[i].pos = Frontier(i)
<1>1. /\ Exists(i) /\ inst[i] \in Instance /\ turn[i] \in Turn
      /\ Limit(i) \in Nat /\ Len(Results(i)) \in Nat
  BY TurnType, LimitType DEF Results, Instance
<1>2. /\ turn[i].step \in 0..Len(Results(i))
      /\ turn[i].pos = ckpt[i][turn[i].step + 1]
      /\ Len(ckpt[i]) = Len(Results(i)) + 1
      /\ Len(Results(i)) <= Limit(i)
      /\ \A k \in 1..Len(Results(i)) : ckpt[i][k].current \in Graph.nodes
  BY <1>1 DEF RunInv, ReplayAtCheckpoint, Chained
<1>3. turn[i].step = Len(Results(i))
  <2>1. CASE Current(i) \notin Graph.nodes
    <3>1. turn[i].step + 1 \notin 1..Len(Results(i))
      BY <1>2, <2>1 DEF Current
    <3> QED BY <1>1, <1>2, <3>1
  <2>2. CASE turn[i].step >= Limit(i)
    BY <1>1, <1>2, <2>2
  <2> QED BY <2>1, <2>2
<1> QED BY <1>2, <1>3 DEF Frontier, Last

\* The ends a run may come to.
EndsFor(i, status, reason, output) ==
  \/ /\ status = "completed"
     /\ Frontier(i).current = END /\ output = JsonState(Frontier(i).state)
  \/ /\ status = "failed" /\ reason = "node"
     /\ inst[i].fails = MaxAttempts
  \/ /\ status = "failed" /\ reason = "route"
     /\ Frontier(i).current = RouteError
  \/ /\ status = "failed" /\ reason = "max steps"
     /\ Len(Results(i)) = Limit(i) /\ Frontier(i).current \in Graph.nodes
  \/ status = "failed" /\ reason = "unregistered"

\* A run that ends for one of those reasons keeps its invariant.
LEMMA EndRunStep ==
  ASSUME TypeOK, TypeOK', NEW i \in InstanceId, RunInv(i),
         NEW j \in InstanceId, Running(j), inst[j].due
  PROVE  \A status \in {"completed", "failed"}, reason \in Reason, output \in State :
           EndRun(j, status, reason, output) /\ EndsFor(j, status, reason, output)
             => RunInv(i)'
<1> SUFFICES ASSUME NEW status \in {"completed", "failed"}, NEW reason \in Reason,
                    NEW output \in State, EndRun(j, status, reason, output),
                    EndsFor(j, status, reason, output)
             PROVE  RunInv(i)'
  OBVIOUS
<1>1. stops \in Nat
  BY DurableAssumption DEF TypeOK
<1>2. CASE i # j
  <2>1. inst'[i] = inst[i] /\ turn'[i] = turn[i]
    BY <1>2 DEF EndRun, TypeOK
  <2>2. turn[i] # NoTurn => proc'[turn[i].proc] = "ready"
    BY DEF EndRun, RunInv, Driven
  <2>3. UNCHANGED <<task, ckpt, ran, stops>>
    BY DEF EndRun, hvars
  <2> QED BY <1>1, <2>1, <2>2, <2>3, Frame
<1>3. CASE i = j
  <2>1. inst[i] \in Instance /\ Exists(i)
    BY <1>3, LimitType DEF Running, Exists, Absent
  <2>2. /\ inst'[i].status = status /\ inst'[i].reason = reason
        /\ inst'[i].output = output /\ inst'[i].due = FALSE
        /\ inst'[i].input = inst[i].input /\ inst'[i].results = inst[i].results
        /\ inst'[i].maxSteps = inst[i].maxSteps /\ inst'[i].fails = inst[i].fails
    BY <1>3, <2>1 DEF EndRun, TypeOK, Instance
  <2>3. turn'[i] = NoTurn /\ task'[i] = NoTask /\ ckpt'[i] = ckpt[i]
        /\ ran'[i] = ran[i] /\ stops' = stops
    BY <1>3 DEF EndRun, TypeOK, RunInv, Driven, TaskOpen, hvars
  <2>4. ~Running(i)' /\ Exists(i)'
    BY <2>2 DEF Running, Exists, Absent
  <2> USE DEF Results, Limit, Frontier, Last
  <2>5. Chained(i)'
    BY <2>1, <2>2, <2>3 DEF RunInv, Chained
  <2>6. ReplayAtCheckpoint(i)' /\ TaskAtFrontier(i)'
    BY <2>3 DEF ReplayAtCheckpoint, TaskAtFrontier, TaskOpen
  <2>7. Driven(i)'
    BY <2>2, <2>3, <2>4 DEF Driven, TaskOpen
  <2>8. WithinBudget(i)'
    <3>1. task[i] = NoTask
      BY <1>3 DEF RunInv, Driven, TaskOpen
    <3> QED BY <2>1, <2>2, <2>3, <2>4, <3>1
            DEF RunInv, WithinBudget, NoTask
  <2>9. Justified(i)'
    BY <1>3, <2>2, <2>3 DEF EndsFor, Justified
  <2> QED BY <2>5, <2>6, <2>7, <2>8, <2>9 DEF RunInv
<1> QED BY <1>2, <1>3

\* The turn ends the run only for one of those reasons.
LEMMA TurnEnds ==
  ASSUME TypeOK, NEW j \in InstanceId, RunInv(j), turn[j] # NoTurn, TurnStep(j),
         ~Iterate(j), ~ScheduleNode(j)
  PROVE  \E status \in {"completed", "failed"}, reason \in Reason, output \in State :
           EndRun(j, status, reason, output) /\ EndsFor(j, status, reason, output)
<1>1. turn[j] # NoTurn
  OBVIOUS
<1>2. /\ turn[j] \in Turn /\ Exists(j) /\ inst[j] \in Instance
      /\ Limit(j) \in Nat \ {0} /\ Len(Results(j)) \in Nat
  BY <1>1, TurnType, LimitType DEF Results, Instance
<1>3. CASE NodeFailed(j)
  <2>1. inst[j].fails = MaxAttempts
    BY <1>2, <1>3, DurableAssumption DEF NodeFailed, MayAttempt, Instance
  <2>2. EndRun(j, "failed", "node", EmptyState)
        /\ EndsFor(j, "failed", "node", EmptyState)
    BY <1>3, <2>1 DEF NodeFailed, EndsFor
  <2> QED BY <1>2, <2>2, EmptyStateType DEF Reason
<1>4. CASE MaxStepsExceeded(j)
  <2>1. turn[j].step = Len(Results(j)) /\ turn[j].pos = Frontier(j)
    BY <1>1, <1>4, ReplayComplete DEF MaxStepsExceeded, AtLimit
  <2>2. Len(Results(j)) = Limit(j)
    <3>1. Len(Results(j)) <= Limit(j)
      BY <1>2 DEF RunInv, Chained
    <3>2. Len(Results(j)) >= Limit(j)
      BY <1>4, <2>1 DEF MaxStepsExceeded, AtLimit
    <3> QED BY <1>2, <3>1, <3>2
  <2>3. Frontier(j).current \in Graph.nodes
    <3>1. Current(j) \in Graph.nodes \cup {END, RouteError}
      BY <1>2 DEF Current, Turn, Position, Targets
    <3> QED BY <1>4, <2>1, <3>1
       DEF MaxStepsExceeded, LoopContinues, Current, Turn, Position, Targets
  <2>4. EndRun(j, "failed", "max steps", EmptyState)
        /\ EndsFor(j, "failed", "max steps", EmptyState)
    BY <1>4, <2>2, <2>3 DEF MaxStepsExceeded, EndsFor
  <2> QED BY <1>2, <2>4, EmptyStateType DEF Reason
<1>5. CASE RoutingFailed(j)
  <2>1. Frontier(j).current = RouteError
    BY <1>1, <1>5, ReplayComplete, GraphAssumption DEF RoutingFailed, Current
  <2>2. EndRun(j, "failed", "route", EmptyState)
        /\ EndsFor(j, "failed", "route", EmptyState)
    BY <1>5, <2>1 DEF RoutingFailed, EndsFor
  <2> QED BY <1>2, <2>2, EmptyStateType DEF Reason
<1>6. CASE FinishRun(j)
  <2>1. turn[j].pos = Frontier(j) /\ Frontier(j).current = END
    BY <1>1, <1>6, ReplayComplete, GraphAssumption
       DEF FinishRun, LoopEnds, Current
  <2>2. JsonState(turn[j].pos.state) \in State
    BY <1>2, JsonStateType DEF Turn, Position
  <2>3. EndRun(j, "completed", "none", JsonState(turn[j].pos.state))
        /\ EndsFor(j, "completed", "none", JsonState(turn[j].pos.state))
    BY <1>6, <2>1 DEF FinishRun, EndsFor
  <2> QED BY <1>2, <2>2, <2>3 DEF Reason
<1> QED BY <1>3, <1>4, <1>5, <1>6 DEF TurnStep

\* The steps of graphWorkflow preserve every run's invariant.
LEMMA TurnRunStep ==
  ASSUME TypeOK, TypeOK', NEW i \in InstanceId, RunInv(i),
         NEW j \in InstanceId, RunInv(j), TurnStep(j)
  PROVE  RunInv(i)'
<1>1. turn[j] # NoTurn
  BY DEF TurnStep, Iterate, ScheduleNode, NodeFailed, MaxStepsExceeded,
         RoutingFailed, FinishRun, AtFrontier, AtNode
<1>2. /\ turn[j] \in Turn /\ Exists(j) /\ inst[j] \in Instance /\ Running(j)
      /\ inst[j].due /\ proc[turn[j].proc] = "ready" /\ ~TaskOpen(j)
      /\ Limit(j) \in Nat \ {0} /\ Len(Results(j)) \in Nat
  BY <1>1, TurnType, LimitType DEF RunInv, Driven, Results, Instance
<1>3. stops \in Nat
  BY DurableAssumption DEF TypeOK
<1>4. turn[i] # NoTurn => proc[turn[i].proc] = "ready"
  BY DEF RunInv, Driven
<1>5. CASE Iterate(j)
  <2>1. CASE i # j
    <3>1. turn'[i] = turn[i]
      BY <1>5, <2>1 DEF Iterate, TypeOK
    <3>2. UNCHANGED <<proc, inst, task, ckpt, ran, stops>>
      BY <1>5 DEF Iterate, hvars
    <3> QED BY <1>3, <1>4, <3>1, <3>2, Frame
  <2>2. CASE i = j
    <3>1. UNCHANGED <<proc, inst, task, stops, ckpt, ran>>
      BY <1>5 DEF Iterate, hvars
    <3>2. /\ turn[i].step \in 0..Len(Results(i)) /\ turn[i].step < Len(Results(i))
          /\ turn[i].pos = ckpt[i][turn[i].step + 1]
          /\ Chained(i)
      BY <1>1, <1>5, <2>2 DEF Iterate, RunInv, ReplayAtCheckpoint
    <3>3. /\ turn'[i].proc = turn[i].proc /\ turn'[i].step = turn[i].step + 1
          /\ turn'[i].pos = Advanced(turn[i].pos, Results(i)[turn[i].step + 1])
      BY <1>2, <1>5, <2>2 DEF Iterate, Replayed, TypeOK, Turn
    <3>4. turn'[i].pos = ckpt[i][turn[i].step + 2]
      <4>1. turn[i].step + 1 \in 1..Len(Results(i))
        BY <1>2, <2>2, <3>2
      <4>2. turn[i].step + 2 = (turn[i].step + 1) + 1
        BY <3>2
      <4> QED BY <1>2, <2>2, <3>2, <3>3, <4>1, <4>2 DEF Chained
    <3>5. ReplayAtCheckpoint(i)'
      BY <1>2, <2>2, <3>1, <3>2, <3>3, <3>4 DEF ReplayAtCheckpoint, Results
    <3>6. Driven(i)'
      BY <1>2, <2>2, <3>1, <3>3 DEF RunInv, Driven, Running, Exists, TaskOpen
    <3> QED BY <3>1, <3>5, <3>6
            DEF RunInv, Chained, TaskAtFrontier, WithinBudget, Justified,
                Exists, Results, Limit, Frontier, TaskOpen
  <2> QED BY <2>1, <2>2
<1>6. CASE ScheduleNode(j)
  <2>1. CASE i # j
    <3>1. inst'[i] = inst[i] /\ turn'[i] = turn[i] /\ task'[i] = task[i]
      BY <1>6, <2>1 DEF ScheduleNode, TypeOK
    <3>2. UNCHANGED <<proc, ckpt, ran, stops>>
      BY <1>6 DEF ScheduleNode, hvars
    <3> QED BY <1>3, <1>4, <3>1, <3>2, Frame
  <2>2. CASE i = j
    <3>1. /\ UNCHANGED <<proc, stops, ckpt, ran>> /\ turn'[i] = NoTurn
          /\ task'[i] = [status |-> "queued", node |-> Frontier(i).current,
                         state |-> JsonState(Frontier(i).state)]
      BY <1>1, <1>6, <2>2, ReplayComplete
         DEF ScheduleNode, AtFrontier, NodeInput, Current, TypeOK, hvars
    <3>2. /\ inst'[i].due = FALSE /\ inst'[i].status = inst[i].status
          /\ inst'[i].input = inst[i].input /\ inst'[i].results = inst[i].results
          /\ inst'[i].maxSteps = inst[i].maxSteps
          /\ inst'[i].fails = inst[i].fails /\ inst'[i].output = inst[i].output
          /\ inst'[i].reason = inst[i].reason
      BY <1>2, <1>6, <2>2 DEF ScheduleNode, TypeOK, Instance
    <3>3. Exists(i)' /\ Running(i)' /\ TaskOpen(i)'
      BY <1>2, <2>2, <3>1, <3>2 DEF Running, Exists, Absent, TaskOpen, NoTask
    <3>4. Len(Results(i)) < Limit(i) /\ inst[i].fails < MaxAttempts
      BY <1>2, <1>6, <2>2
         DEF ScheduleNode, AtFrontier, AtNode, AtLimit, MayAttempt, Turn
    <3> USE DEF Results, Limit, Frontier, Last
    <3>5. Chained(i)'
      BY <1>2, <2>2, <3>1, <3>2 DEF RunInv, Chained
    <3>6. ReplayAtCheckpoint(i)' /\ TaskAtFrontier(i)'
      BY <3>1, <3>2, <3>4 DEF ReplayAtCheckpoint, TaskAtFrontier
    <3>7. Driven(i)'
      BY <3>1, <3>2, <3>3 DEF Driven
    <3>8. WithinBudget(i)'
      BY <1>2, <2>2, <3>1, <3>2, <3>3
         DEF RunInv, WithinBudget, TaskOpen, NoTask
    <3>9. Justified(i)'
      BY <1>2, <2>2, <3>2 DEF Justified, Running
    <3> QED BY <3>5, <3>6, <3>7, <3>8, <3>9 DEF RunInv
  <2> QED BY <2>1, <2>2
<1>7. CASE ~Iterate(j) /\ ~ScheduleNode(j)
  <2>1. PICK status \in {"completed", "failed"}, reason \in Reason,
             output \in State :
          EndRun(j, status, reason, output) /\ EndsFor(j, status, reason, output)
    BY <1>1, <1>7, TurnEnds
  <2> QED BY <1>2, <2>1, EndRunStep
<1> QED BY <1>5, <1>6, <1>7

\* Running a node and recording its outcome preserve every run's invariant.
LEMMA TaskRunStep ==
  ASSUME TypeOK, TypeOK', NEW i \in InstanceId, RunInv(i),
         NEW j \in InstanceId, RunInv(j), TaskStep(j)
  PROVE  RunInv(i)'
<1>1. TaskOpen(j)
  BY DEF TaskStep, RunNode, RecordResult, RecordFailure, TaskOpen, NoTask
<1>2. /\ task[j] \in Task /\ Running(j) /\ Exists(j) /\ inst[j] \in Instance
      /\ Len(ckpt[j]) \in Nat \ {0} /\ Frontier(j) \in Position
      /\ Frontier(j).current \in Graph.nodes /\ turn[j] = NoTurn
      /\ ~inst[j].due
  BY <1>1, TaskType DEF RunInv, Driven
<1>3. stops \in Nat /\ ran[i] \in Nat /\ ran[j] \in Nat /\ inst[j].fails \in Nat
  BY <1>2, DurableAssumption DEF TypeOK, Instance
<1>4. UNCHANGED <<proc, turn, stops>>
  BY DEF TaskStep, RunNode, RecordResult, RecordFailure
<1>5. CASE i # j
  <2>1. /\ inst'[i] = inst[i] /\ task'[i] = task[i] /\ ckpt'[i] = ckpt[i]
        /\ ran'[i] = ran[i]
    BY <1>5 DEF TaskStep, RunNode, RecordResult, RecordFailure, TypeOK, hvars
  <2>2. turn[i] # NoTurn => proc'[turn[i].proc] = "ready"
    BY <1>4 DEF RunInv, Driven
  <2> QED BY <1>3, <1>4, <2>1, <2>2, Frame
<1>6. CASE i = j /\ RunNode(j)
  <2>1. /\ UNCHANGED <<inst, ckpt>> /\ ran'[i] = ran[i] + 1
        /\ task[i].status = "running"
    BY <1>6 DEF RunNode, TypeOK
  <2>2. /\ task'[i].status \in {"done", "failed"}
        /\ task'[i].node = task[i].node /\ task'[i].state = task[i].state
    BY <1>2, <1>6 DEF RunNode, TypeOK, Task
  <2>3. TaskOpen(i)'
    BY <2>2 DEF TaskOpen, NoTask
  <2> USE DEF Results, Limit, Frontier, Last, Exists, Running
  <2>4. Chained(i)' /\ Justified(i)'
    BY <2>1 DEF RunInv, Chained, Justified
  <2>5. ReplayAtCheckpoint(i)'
    BY <1>2, <1>4, <1>6 DEF ReplayAtCheckpoint
  <2>6. TaskAtFrontier(i)'
    BY <1>1, <1>6, <2>1, <2>2 DEF RunInv, TaskAtFrontier
  <2>7. Driven(i)'
    BY <1>2, <1>4, <1>6, <2>1, <2>3 DEF Driven
  <2>8. WithinBudget(i)'
    <3>1. ran[i] <= inst[i].fails + stops
      BY <1>2, <1>3, <1>6, <2>1 DEF RunInv, WithinBudget
    <3> QED BY <1>2, <1>3, <1>4, <1>6, <2>1, <2>2, <3>1 DEF WithinBudget
  <2> QED BY <2>4, <2>5, <2>6, <2>7, <2>8 DEF RunInv
<1>7. CASE i = j /\ RecordResult(j)
  <2> DEFINE u == JsonState(task[i].updates)
  <2>1. /\ task'[i] = NoTask /\ turn'[i] = NoTurn /\ ran'[i] = 0
        /\ ckpt'[i] = Append(ckpt[i], Advanced(Frontier(i), u))
        /\ inst'[i] = [inst[i] EXCEPT !.results = Append(@, u), !.fails = 0,
                                      !.due = TRUE]
    BY <1>2, <1>4, <1>7 DEF RecordResult, TypeOK, Frontier, Last
  <2>2. u \in State
    BY <1>2, <1>7, JsonStateType DEF RecordResult, Task
  <2> HIDE DEF u
  <2>3. /\ inst'[i].status = inst[i].status /\ inst'[i].fails = 0
        /\ inst'[i].due = TRUE /\ inst'[i].results = Append(inst[i].results, u)
        /\ inst'[i].input = inst[i].input
        /\ inst'[i].maxSteps = inst[i].maxSteps
    BY <1>2, <1>7, <2>1 DEF Instance
  <2>4. Exists(i)' /\ Running(i)' /\ ~TaskOpen(i)'
    <3>1. inst'[i].status = "running"
      BY <1>2, <1>7, <2>3 DEF Running
    <3>2. task'[i] = NoTask
      BY <2>1
    <3> QED BY <3>1, <3>2 DEF Exists, Running, Absent, TaskOpen
  <2>5. Chained(i)'
    <3>1. /\ inst[i].results \in Seq(State) /\ ckpt[i] \in Seq(Position)
          /\ Advanced(Frontier(i), u) \in Position
          /\ Limit(i) \in Nat
      BY <1>2, <1>7, <2>2, AdvancedType, LimitType DEF TypeOK, Instance
    <3>2. /\ Len(ckpt[i]) = Len(inst[i].results) + 1
          /\ Len(inst[i].results) < Limit(i)
          /\ ckpt[i][1] = Entry(inst[i].input)
          /\ \A k \in 1..Len(inst[i].results) :
               /\ ckpt[i][k].current \in Graph.nodes
               /\ ckpt[i][k+1] = Advanced(ckpt[i][k], inst[i].results[k])
      BY <1>1, <1>2, <1>7 DEF RunInv, Chained, TaskAtFrontier, Results
    <3> DEFINE n == Len(inst[i].results)
    <3>3. n \in Nat
      BY <3>1
    <3>4. /\ Len(Append(inst[i].results, u)) = n + 1
          /\ Len(Append(ckpt[i], Advanced(Frontier(i), u))) = n + 2
          /\ \A k \in 1..n : Append(inst[i].results, u)[k] = inst[i].results[k]
          /\ Append(inst[i].results, u)[n + 1] = u
          /\ \A k \in 1..n+1 :
               Append(ckpt[i], Advanced(Frontier(i), u))[k] = ckpt[i][k]
          /\ Append(ckpt[i], Advanced(Frontier(i), u))[n + 2]
               = Advanced(Frontier(i), u)
      <4>1. /\ Len(Append(inst[i].results, u)) = n + 1
            /\ \A k \in 1..n : Append(inst[i].results, u)[k] = inst[i].results[k]
            /\ Append(inst[i].results, u)[n + 1] = u
        BY <2>2, <3>1, AppendFacts
      <4>2. Len(ckpt[i]) = n + 1
        BY <3>2
      <4> HIDE DEF n
      <4>3. /\ Len(Append(ckpt[i], Advanced(Frontier(i), u))) = (n + 1) + 1
            /\ \A k \in 1..n+1 :
                 Append(ckpt[i], Advanced(Frontier(i), u))[k] = ckpt[i][k]
            /\ Append(ckpt[i], Advanced(Frontier(i), u))[(n + 1) + 1]
                 = Advanced(Frontier(i), u)
        BY <3>1, <4>2, AppendFacts
      <4>4. (n + 1) + 1 = n + 2
        BY <3>3
      <4> QED BY <4>1, <4>3, <4>4
    <3>5. Frontier(i) = ckpt[i][n + 1]
      BY <3>2 DEF Frontier, Last
    <3> HIDE DEF n
    <3>6. Limit(i)' = Limit(i)
      BY <2>3 DEF Limit
    <3>7. ASSUME NEW k \in 1..(n + 1)
          PROVE  /\ ckpt'[i][k].current \in Graph.nodes
                 /\ ckpt'[i][k+1] = Advanced(ckpt'[i][k], inst'[i].results[k])
      <4>1. CASE k \in 1..n
        <5>1. k + 1 \in 1..(n + 1) /\ k \in 1..(n + 1)
          BY <3>3, <4>1
        <5> QED BY <2>1, <2>3, <3>2, <3>4, <4>1, <5>1 DEF n
      <4>2. CASE k = n + 1
        <5>1. k + 1 = n + 2 /\ k \in 1..(n + 1)
          BY <3>3, <4>2
        <5> QED BY <1>2, <1>7, <2>1, <2>3, <3>4, <3>5, <4>2, <5>1
      <4> QED BY <3>3, <4>1, <4>2
    <3>8. Len(inst'[i].results) = n + 1 /\ Len(ckpt'[i]) = (n + 1) + 1
          /\ n + 1 <= Limit(i) /\ ckpt'[i][1] = Entry(inst'[i].input)
      <4>1. 1 \in 1..(n + 1) /\ n + 2 = (n + 1) + 1
        BY <3>3
      <4> QED BY <2>1, <2>3, <3>1, <3>2, <3>3, <3>4, <4>1 DEF n
    <3> QED BY <3>6, <3>7, <3>8 DEF Chained, Results
  <2>6. ReplayAtCheckpoint(i)' /\ TaskAtFrontier(i)'
    BY <2>1, <2>4 DEF ReplayAtCheckpoint, TaskAtFrontier
  <2>7. Driven(i)'
    BY <2>1, <2>3, <2>4 DEF Driven
  <2>8. WithinBudget(i)'
    BY <1>3, <1>4, <2>1, <2>3, <2>4 DEF WithinBudget, NoTask
  <2>9. Justified(i)'
    BY <2>4 DEF Justified, Running
  <2> QED BY <2>5, <2>6, <2>7, <2>8, <2>9 DEF RunInv
<1>8. CASE i = j /\ RecordFailure(j)
  <2>1. /\ task'[i] = NoTask /\ turn'[i] = NoTurn /\ ran'[i] = ran[i]
        /\ ckpt'[i] = ckpt[i]
        /\ inst'[i] = [inst[i] EXCEPT !.fails = inst[i].fails + 1, !.due = TRUE]
        /\ task[i].status = "failed"
    BY <1>2, <1>4, <1>8 DEF RecordFailure, FailedAttempts, TypeOK, hvars
  <2>2. /\ inst'[i].status = inst[i].status
        /\ inst'[i].fails = inst[i].fails + 1
        /\ inst'[i].due = TRUE /\ inst'[i].results = inst[i].results
        /\ inst'[i].input = inst[i].input
        /\ inst'[i].maxSteps = inst[i].maxSteps
    BY <1>2, <1>8, <2>1 DEF Instance
  <2>3. Exists(i)' /\ Running(i)' /\ ~TaskOpen(i)'
    <3>1. inst'[i].status = "running"
      BY <1>2, <1>8, <2>2 DEF Running
    <3>2. task'[i] = NoTask
      BY <2>1
    <3> QED BY <3>1, <3>2 DEF Exists, Running, Absent, TaskOpen
  <2>4. Chained(i)'
    BY <1>2, <1>8, <2>1, <2>2 DEF RunInv, Chained, Results, Limit
  <2>5. ReplayAtCheckpoint(i)' /\ TaskAtFrontier(i)'
    BY <2>1, <2>3 DEF ReplayAtCheckpoint, TaskAtFrontier
  <2>6. Driven(i)'
    BY <2>1, <2>2, <2>3 DEF Driven
  <2>7. WithinBudget(i)'
    <3>1. ran[i] <= inst[i].fails + stops + 1
      BY <1>2, <1>3, <1>8, <2>1 DEF RunInv, WithinBudget
    <3> QED BY <1>3, <1>4, <1>8, <2>1, <2>2, <2>3, <3>1 DEF WithinBudget, NoTask
  <2>8. Justified(i)'
    BY <2>3 DEF Justified, Running
  <2> QED BY <2>4, <2>5, <2>6, <2>7, <2>8 DEF RunInv
<1> QED BY <1>5, <1>6, <1>7, <1>8 DEF TaskStep

\* Handing out a task preserves every run's invariant.
LEMMA DispatchRunStep ==
  ASSUME TypeOK, TypeOK', NEW i \in InstanceId, RunInv(i),
         NEW p \in Process, NEW j \in InstanceId, RunInv(j), Dispatch(p, j)
  PROVE  RunInv(i)'
<1>1. stops \in Nat
  BY DurableAssumption DEF TypeOK
<1>2. turn[i] # NoTurn => proc[turn[i].proc] = "ready"
  BY DEF RunInv, Driven
<1>3. ASSUME Dispatchable(p, j)
      PROVE  Exists(j) /\ Running(j) /\ inst[j].due /\ ~TaskOpen(j)
  BY <1>3 DEF Dispatchable, RunInv, Driven, Exists
<1>4. CASE BeginReplay(p, j)
  <2>1. UNCHANGED <<proc, inst, task, stops, ckpt, ran>>
    BY <1>4 DEF BeginReplay, hvars
  <2>2. CASE i # j
    <3>1. turn'[i] = turn[i]
      BY <1>4, <2>2 DEF BeginReplay, TypeOK
    <3> QED BY <1>1, <1>2, <2>1, <3>1, Frame
  <2>3. CASE i = j
    <3>1. /\ Exists(i) /\ Running(i) /\ inst[i].due /\ ~TaskOpen(i)
          /\ proc[p] = "ready"
      BY <1>3, <1>4, <2>3
         DEF BeginReplay, Dispatchable, WorkerRuns, GraphRegistered
    <3>2. turn'[i] = [proc |-> p, pos |-> Entry(inst[i].input), step |-> 0]
      BY <1>4, <2>3 DEF BeginReplay, TypeOK
    <3> USE DEF Results, Limit, Frontier, Last, Exists, Running, TaskOpen
    <3>3. Chained(i)' /\ TaskAtFrontier(i)' /\ WithinBudget(i)' /\ Justified(i)'
      BY <2>1 DEF RunInv, Chained, TaskAtFrontier, WithinBudget, Justified
    <3>4. ReplayAtCheckpoint(i)'
      <4>1. inst[i].results \in Seq(State) /\ ckpt[i][1] = Entry(inst[i].input)
        BY <3>1, LimitType DEF RunInv, Chained, Instance
      <4>2. Len(inst[i].results) \in Nat
        BY <4>1
      <4> QED BY <2>1, <3>2, <4>1, <4>2 DEF ReplayAtCheckpoint
    <3>5. Driven(i)'
      BY <2>1, <3>1, <3>2 DEF Driven
    <3> QED BY <3>3, <3>4, <3>5 DEF RunInv
  <2> QED BY <2>2, <2>3
<1>5. CASE GraphNotRegistered(p, j)
  <2>1. EndRun(j, "failed", "unregistered", EmptyState)
        /\ EndsFor(j, "failed", "unregistered", EmptyState)
    BY <1>5 DEF GraphNotRegistered, EndsFor
  <2> QED BY <1>3, <1>5, <2>1, EndRunStep, EmptyStateType
          DEF GraphNotRegistered, Reason
<1>6. CASE DispatchActivity(p, j)
  <2>1. UNCHANGED <<proc, inst, turn, stops, ckpt, ran>>
    BY <1>6 DEF DispatchActivity, hvars
  <2>2. CASE i # j
    <3>1. task'[i] = task[i]
      BY <1>6, <2>2 DEF DispatchActivity, TypeOK
    <3> QED BY <1>1, <1>2, <2>1, <3>1, Frame
  <2>3. CASE i = j
    <3>1. /\ task[i].status = "queued" /\ task'[i].node = task[i].node
          /\ task'[i].state = task[i].state
          /\ task'[i].status \in {"running", "failed"}
      BY <1>6, <2>3 DEF DispatchActivity, TypeOK
    <3>2. TaskOpen(i) /\ TaskOpen(i)'
      BY <3>1 DEF TaskOpen, NoTask
    <3> USE DEF Results, Limit, Frontier, Last, Exists, Running
    <3>3. Chained(i)' /\ ReplayAtCheckpoint(i)' /\ Justified(i)'
      BY <2>1 DEF RunInv, Chained, ReplayAtCheckpoint, Justified
    <3>4. TaskAtFrontier(i)'
      BY <2>1, <3>1, <3>2 DEF RunInv, TaskAtFrontier
    <3>5. Driven(i)'
      BY <2>1, <3>2 DEF RunInv, Driven
    <3>6. WithinBudget(i)'
      <4>1. inst[i].fails \in Nat /\ ran[i] \in Nat /\ inst[i] # Absent
        BY <3>2, TaskType, DurableAssumption DEF TypeOK, Instance
      <4> QED BY <1>1, <2>1, <3>1, <4>1 DEF RunInv, WithinBudget
    <3> QED BY <3>3, <3>4, <3>5, <3>6 DEF RunInv
  <2> QED BY <2>2, <2>3
<1> QED BY <1>4, <1>5, <1>6 DEF Dispatch

-----------------------------------------------------------------------------
(* What callers know. *)

\* A run is never forgotten, and one that completed never changes again.
LEMMA RunSettled ==
  ASSUME IInv, DurableNext, NEW i \in InstanceId
  PROVE  /\ Exists(i) => Exists(i)'
         /\ inst[i].status = "completed" =>
              inst'[i] = inst[i] /\ ckpt'[i] = ckpt[i]
<1> USE DEF Exists
<1>1. ASSUME NEW p \in Process, ProcessStep(p)
      PROVE  UNCHANGED <<inst, ckpt>>
  BY <1>1 DEF ProcessStep, StartWorker, RegisterGraph, NewRunnerFails, Close,
              Exit, Crash, hvars
<1>2. ASSUME NEW c \in Invocation, CallStep(c)
      PROVE  \/ UNCHANGED <<inst, ckpt>>
             \/ \E j \in InstanceId : inst[j] = Absent /\ Create(j)
  BY <1>2 DEF CallStep, ScheduleFails, ScheduleNew, ScheduleReplyLost,
              AttachExisting, WaitReturns, GiveUp, hvars
<1>3. ASSUME NEW j \in InstanceId, inst[j] = Absent, Create(j)
      PROVE  /\ Exists(i) => Exists(i)'
             /\ inst[i].status = "completed" =>
                  inst'[i] = inst[i] /\ ckpt'[i] = ckpt[i]
  <2>1. inst[j].status # "completed"
    BY <1>3 DEF Absent
  <2>2. i # j => inst'[i] = inst[i] /\ ckpt'[i] = ckpt[i]
    BY <1>3 DEF Create, IInv, TypeOK
  <2> QED BY <1>3, <2>1, <2>2
<1>4. ASSUME NEW j \in InstanceId, RunStep(j)
      PROVE  /\ Running(j) /\ Exists(j)
             /\ \A k \in InstanceId \ {j} : inst'[k] = inst[k] /\ ckpt'[k] = ckpt[k]
             /\ Exists(j)'
  <2>1. TypeOK /\ RunInv(j)
    BY DEF IInv
  <2>2. Running(j) /\ Exists(j) /\ inst[j] \in Instance
    <3>1. CASE TurnStep(j)
      <4>1. turn[j] # NoTurn
        BY <3>1 DEF TurnStep, Iterate, ScheduleNode, NodeFailed, MaxStepsExceeded,
                    RoutingFailed, FinishRun, AtFrontier, AtNode
      <4> QED BY <2>1, <4>1, TurnType
    <3>2. ASSUME TaskOpen(j)
          PROVE  Running(j) /\ Exists(j) /\ inst[j] \in Instance
      BY <2>1, <3>2, TaskType
    <3>3. ASSUME NEW p \in Process, Dispatchable(p, j)
          PROVE  Running(j) /\ Exists(j) /\ inst[j] \in Instance
      BY <2>1, <3>3, LimitType DEF Dispatchable, RunInv, Driven
    <3>4. CASE TaskStep(j)
      BY <3>2, <3>4 DEF TaskStep, RunNode, RecordResult, RecordFailure, TaskOpen,
                        NoTask
    <3>5. ASSUME NEW p \in Process, Dispatch(p, j)
          PROVE  TaskOpen(j) \/ Dispatchable(p, j)
      BY <3>5 DEF Dispatch, BeginReplay, GraphNotRegistered, DispatchActivity,
                  TaskOpen, NoTask
    <3> QED BY <1>4, <3>1, <3>2, <3>3, <3>4, <3>5 DEF RunStep
  <2> USE DEF RunStep, TurnStep, TaskStep, Dispatch, Iterate, ScheduleNode,
        NodeFailed, MaxStepsExceeded, RoutingFailed, FinishRun, RunNode,
        RecordResult, RecordFailure, BeginReplay, GraphNotRegistered,
        DispatchActivity, hvars
  <2>3. \A k \in InstanceId \ {j} : inst'[k] = inst[k] /\ ckpt'[k] = ckpt[k]
    BY <1>4, <2>1 DEF TypeOK, EndRun
  <2>4. Exists(j)'
    <3>1. inst[j].status # "absent" /\ inst \in [InstanceId -> Instance \cup {Absent}]
      BY <2>1, <2>2 DEF TypeOK, Running
    <3>2. CASE UNCHANGED inst
      BY <2>2, <3>2
    <3>3. CASE RecordResult(j)
      BY <2>2, <3>1, <3>3 DEF Instance, Absent
    <3>4. CASE RecordFailure(j) \/ ScheduleNode(j)
      BY <2>2, <3>1, <3>4 DEF Instance, Absent
    <3>5. \A status \in {"completed", "failed"} : \A reason, output :
            EndRun(j, status, reason, output) => inst'[j].status # "absent"
      BY <2>2, <3>1 DEF Instance, EndRun
    <3>6. CASE \E status \in {"completed", "failed"} : \E reason, output :
                 EndRun(j, status, reason, output)
      BY <3>5, <3>6 DEF Absent
    <3>7. CASE TurnStep(j)
      <4>1. CASE NodeFailed(j) \/ MaxStepsExceeded(j) \/ RoutingFailed(j) \/ FinishRun(j)
        BY <3>6, <4>1
      <4> QED BY <3>2, <3>4, <3>7, <4>1
    <3>8. CASE TaskStep(j)
      BY <3>2, <3>3, <3>4, <3>8
    <3>9. ASSUME NEW p \in Process, Dispatch(p, j)
          PROVE  Exists(j)'
      BY <3>2, <3>6, <3>9
    <3> QED BY <1>4, <3>7, <3>8, <3>9
  <2> QED BY <2>2, <2>3, <2>4
<1>5. ASSUME NEW j \in InstanceId, RunStep(j)
      PROVE  /\ Exists(i) => Exists(i)'
             /\ inst[i].status = "completed" =>
                  inst'[i] = inst[i] /\ ckpt'[i] = ckpt[i]
  <2>1. CASE i # j
    BY <1>4, <1>5, <2>1
  <2>2. CASE i = j
    BY <1>4, <1>5, <2>2 DEF Running
  <2> QED BY <2>1, <2>2
<1> QED BY <1>1, <1>2, <1>3, <1>5 DEF DurableNext

\* Waiting callers wait for runs that exist, and answers stay what the run ended
\* with.
LEMMA CallsStep ==
  ASSUME IInv, TypeOK', \A i \in InstanceId : RunInv(i)', DurableNext
  PROVE  CallsKnown' /\ AnswerIsFinal'
<1> DEFINE Waits(c)  == call[c].pc = "waiting" => Exists(call[c].id)
           Final(c)  == call[c].pc = "ok" =>
             /\ inst[call[c].id].status = "completed"
             /\ Frontier(call[c].id).current = END
             /\ call[c].out = JsonState(Frontier(call[c].id).state)
<1>1. ASSUME NEW c \in Invocation,
             call'[c].pc \in {"waiting", "ok"} => call'[c] = call[c]
      PROVE  Waits(c)' /\ Final(c)'
  <2>1. call[c].pc \in {"waiting", "ok"} => call[c].id \in InstanceId
    <3>1. call[c] \in Call \cup {NotCalled}
      BY DEF IInv, TypeOK
    <3>2. CASE call[c].pc = "waiting"
      <4>1. call[c] \in [pc : {"waiting", "dead"}, proc : Process, id : InstanceId]
        BY <3>1, <3>2 DEF Call, NotCalled
      <4> QED BY <4>1
    <3>3. CASE call[c].pc = "ok"
      <4>1. call[c] \in [pc : {"ok"}, proc : Process, id : InstanceId, out : State]
        BY <3>1, <3>3 DEF Call, NotCalled
      <4> QED BY <4>1
    <3> QED BY <3>2, <3>3
  <2>2. CASE call'[c].pc = "waiting"
    BY <1>1, <2>1, <2>2, RunSettled DEF IInv, CallsKnown
  <2>3. CASE call'[c].pc = "ok"
    BY <1>1, <2>1, <2>3, RunSettled DEF IInv, AnswerIsFinal, Frontier, Last
  <2>4. CASE call'[c].pc \notin {"waiting", "ok"}
    BY <2>4
  <2> QED BY <2>2, <2>3, <2>4
<1>2. ASSUME NEW c \in Invocation, NEW i \in InstanceId, call'[c].pc = "waiting",
             call'[c].id = i, Exists(i)'
      PROVE  Waits(c)' /\ Final(c)'
  BY <1>2
<1>3. ASSUME NEW d \in Invocation, CallStep(d), NEW c \in Invocation
      PROVE  Waits(c)' /\ Final(c)'
  <2>1. CASE c # d
    <3>1. call'[c] = call[c]
      BY <1>3, <2>1 DEF IInv, TypeOK, CallStep, ScheduleFails, ScheduleNew,
                        ScheduleReplyLost, AttachExisting, WaitReturns, GiveUp
    <3> QED BY <1>1, <3>1
  <2>2. CASE c = d
    <3>1. ASSUME NEW p \in Process, ScheduleFails(c, p)
          PROVE  Waits(c)' /\ Final(c)'
      BY <1>1, <3>1 DEF ScheduleFails, IInv, TypeOK
    <3>2. ASSUME NEW p \in Process, NEW i \in InstanceId, ScheduleReplyLost(c, p, i)
          PROVE  Waits(c)' /\ Final(c)'
      BY <1>1, <3>2 DEF ScheduleReplyLost, IInv, TypeOK
    <3>3. ASSUME NEW p \in Process, NEW i \in InstanceId, ScheduleNew(c, p, i)
          PROVE  Waits(c)' /\ Final(c)'
      <4>1. call'[c].pc = "waiting" /\ call'[c].id = i
        BY <3>3 DEF ScheduleNew, IInv, TypeOK
      <4>2. Exists(i)'
        BY <3>3 DEF ScheduleNew, Create, Created, IInv, TypeOK, Exists, Absent
      <4> QED BY <1>2, <4>1, <4>2
    <3>4. ASSUME NEW p \in Process, NEW i \in InstanceId, AttachExisting(c, p, i)
          PROVE  Waits(c)' /\ Final(c)'
      <4>1. call'[c].pc = "waiting" /\ call'[c].id = i /\ Exists(i)'
        BY <3>4 DEF AttachExisting, IInv, TypeOK, Exists
      <4> QED BY <1>2, <4>1
    <3>5. CASE GiveUp(c)
      <4>1. call'[c].pc = "error"
        BY <3>5 DEF GiveUp, IInv, TypeOK, Call, NotCalled
      <4> QED BY <1>1, <4>1
    <3>6. CASE WaitReturns(c)
      <4> DEFINE i == call[c].id
      <4>1. /\ call[c] \in [pc : {"waiting", "dead"}, proc : Process, id : InstanceId]
            /\ UNCHANGED <<inst, ckpt>>
        BY <3>6 DEF WaitReturns, IInv, TypeOK, Call, NotCalled, hvars
      <4>2. CASE inst[i].status = "completed"
        <5>1. /\ call'[c].pc = "ok" /\ call'[c].id = i
              /\ call'[c].out = inst[i].output
          BY <3>6, <4>2 DEF WaitReturns, ReturnsOutput, IInv, TypeOK
        <5>2. Justified(i)
          BY <4>1 DEF IInv, RunInv
        <5> QED BY <4>1, <4>2, <5>1, <5>2 DEF Justified, Frontier, Last
      <4>3. CASE inst[i].status # "completed"
        <5>1. call'[c].pc = "error"
          BY <3>6, <4>1, <4>3 DEF WaitReturns, ReturnsOutput, IInv, TypeOK
        <5> QED BY <1>1, <5>1
      <4> QED BY <4>2, <4>3
    <3> QED BY <1>3, <2>2, <3>1, <3>2, <3>3, <3>4, <3>5, <3>6 DEF CallStep
  <2> QED BY <2>1, <2>2
<1>4. ASSUME NEW p \in Process, ProcessStep(p), NEW c \in Invocation
      PROVE  Waits(c)' /\ Final(c)'
  <2>1. \/ call'[c] = call[c]
        \/ call[c].pc = "waiting" /\ call'[c] = [call[c] EXCEPT !.pc = "dead"]
    BY <1>4 DEF ProcessStep, StartWorker, RegisterGraph, NewRunnerFails, Close,
                Exit, Crash, KillCalls
  <2>2. call[c].pc = "waiting" =>
          [call[c] EXCEPT !.pc = "dead"].pc = "dead"
    BY DEF IInv, TypeOK, Call, NotCalled
  <2> QED BY <1>1, <2>1, <2>2
<1>5. ASSUME NEW j \in InstanceId, RunStep(j), NEW c \in Invocation
      PROVE  Waits(c)' /\ Final(c)'
  <2>1. UNCHANGED call
    BY <1>5 DEF RunStep, TurnStep, TaskStep, Dispatch, Iterate, ScheduleNode,
         NodeFailed, MaxStepsExceeded, RoutingFailed, FinishRun, RunNode,
         RecordResult, RecordFailure, BeginReplay, GraphNotRegistered,
         DispatchActivity, EndRun
  <2> QED BY <1>1, <2>1
<1>6. ASSUME NEW c \in Invocation
      PROVE  Waits(c)' /\ Final(c)'
  BY <1>3, <1>4, <1>5, <1>6 DEF DurableNext
<1> QED BY <1>6 DEF CallsKnown, AnswerIsFinal

-----------------------------------------------------------------------------
(* The theorems *)

\* The inductive invariant holds initially.
LEMMA InitInv == Init => IInv
<1> SUFFICES ASSUME Init PROVE IInv
  OBVIOUS
<1>1. TypeOK
  BY DurableAssumption DEF Init, TypeOK, ProcState, Turn, NoTurn
<1>2. ASSUME NEW i \in InstanceId
      PROVE  RunInv(i)
  <2>1. /\ inst[i] = Absent /\ turn[i] = NoTurn /\ task[i] = NoTask
        /\ ran[i] = 0 /\ stops = 0
    BY DEF Init
  <2>2. Absent.status = "absent" /\ NoTask.status = "none"
    BY DEF Absent, NoTask
  <2> QED BY <2>1, <2>2
        DEF RunInv, Chained, ReplayAtCheckpoint, TaskAtFrontier, Driven,
            WithinBudget, Justified, Exists, Running, TaskOpen
<1>3. CallsKnown /\ AnswerIsFinal
  BY DEF Init, CallsKnown, AnswerIsFinal, NotCalled
<1> QED BY <1>1, <1>2, <1>3 DEF IInv

\* Every step preserves the inductive invariant.
LEMMA NextInv == IInv /\ [DurableNext]_vars => IInv'
<1> SUFFICES ASSUME IInv, [DurableNext]_vars PROVE IInv'
  OBVIOUS
<1>1. CASE DurableNext
  <2>1. TypeOK'
    <3>1. ASSUME NEW i \in InstanceId, RunStep(i)
          PROVE  TypeOK'
      BY <3>1, TurnTypeStep, TaskTypeStep, DispatchTypeStep DEF IInv, RunStep
    <3> QED BY <1>1, <3>1, ProcessTypeStep, CallTypeStep DEF DurableNext, IInv
  <2>2. ASSUME NEW i \in InstanceId
        PROVE  RunInv(i)'
    <3>1. ASSUME NEW j \in InstanceId, RunStep(j)
          PROVE  RunInv(i)'
      BY <2>1, <3>1, TurnRunStep, TaskRunStep, DispatchRunStep DEF IInv, RunStep
    <3> QED BY <1>1, <2>1, <3>1, ProcessRunStep, CallRunStep DEF DurableNext, IInv
  <2>3. CallsKnown' /\ AnswerIsFinal'
    BY <1>1, <2>1, <2>2, CallsStep
  <2> QED BY <2>1, <2>2, <2>3 DEF IInv
<1>2. CASE UNCHANGED vars
  <2>1. UNCHANGED <<proc, inst, turn, task, call, stops, ckpt, ran>>
    BY <1>2 DEF vars, hvars
  <2>2. TypeOK'
    BY <2>1 DEF IInv, TypeOK
  <2>3. ASSUME NEW i \in InstanceId
        PROVE  RunInv(i)'
    <3>1. RunInv(i)
      BY DEF IInv
    <3>2. Chained(i)' /\ ReplayAtCheckpoint(i)'
      BY <2>1, <3>1 DEF RunInv, Chained, ReplayAtCheckpoint, Exists, Results, Limit
    <3>3. TaskAtFrontier(i)' /\ Driven(i)'
      BY <2>1, <3>1 DEF RunInv, TaskAtFrontier, Driven, Exists, Running, TaskOpen,
         Frontier, Last, Results, Limit
    <3>4. WithinBudget(i)' /\ Justified(i)'
      BY <2>1, <3>1 DEF RunInv, WithinBudget, Justified, Exists, Frontier, Last,
         Results, Limit
    <3> QED BY <3>2, <3>3, <3>4 DEF RunInv
  <2>4. CallsKnown'
    BY <2>1 DEF IInv, CallsKnown, Exists
  <2>5. AnswerIsFinal'
    BY <2>1 DEF IInv, AnswerIsFinal, Frontier, Last
  <2> QED BY <2>2, <2>3, <2>4, <2>5 DEF IInv
<1> QED BY <1>1, <1>2

\* The inductive invariant holds in every reachable state: for every number of
\* processes, callers and runs, every well-formed graph and every number of
\* crashes.
THEOREM Invariance == Spec => []IInv
BY InitInv, NextInv, PTL DEF Spec

\* Type correctness.
THEOREM TypeCorrect == Spec => []TypeOK
<1>1. IInv => TypeOK
  BY DEF IInv
<1> QED BY <1>1, Invariance, PTL

\* Whatever was lost and replayed, the recorded results are the node's own,
\* chained from the run's input.
THEOREM Chain == Spec => []CheckpointsChain
<1>1. IInv => CheckpointsChain
  BY DEF IInv, RunInv, CheckpointsChain
<1> QED BY <1>1, Invariance, PTL

\* Recovery is right: every replay is at the position the run had after the
\* results it has gone through, ...
THEOREM Replay == Spec => []ReplayMatches
<1>1. IInv => ReplayMatches
  BY DEF IInv, RunInv, ReplayMatches
<1> QED BY <1>1, Invariance, PTL

\* ... and the only node handed out is the one after the last recorded result.
THEOREM Recovery == Spec => []ResumesAtFrontier
<1>1. IInv => ResumesAtFrontier
  BY DEF IInv, RunInv, ResumesAtFrontier
<1> QED BY <1>1, Invariance, PTL

\* A run is never stranded and never driven twice.
THEOREM Scheduling == Spec => []OneDriver
<1>1. IInv => OneDriver
  BY DEF IInv, RunInv, OneDriver
<1> QED BY <1>1, Invariance, PTL

\* A node function runs more often than the retry policy asks for only because a
\* process stopped.
THEOREM Budget == Spec => []ExecutionBudget
<1>1. IInv => ExecutionBudget
  BY DEF IInv, RunInv, ExecutionBudget
<1> QED BY <1>1, Invariance, PTL

\* Runs end for the reason they give.
THEOREM Endings == Spec => []EndJustified
<1>1. IInv => EndJustified
  BY DEF IInv, RunInv, EndJustified
<1> QED BY <1>1, Invariance, PTL

\* An Invoke that returns a state returns the state the run under its id ended
\* with.
THEOREM Answers == Spec => []AnswerIsFinal
<1>1. IInv => AnswerIsFinal
  BY DEF IInv
<1> QED BY <1>1, Invariance, PTL

-----------------------------------------------------------------------------
(* The durable run implements AgentRun, for an agent whose node outputs JSON
   does not change: crashes, replays, retries and hand-overs between processes
   are stutters of the contract, RecordResult is Advance. *)

\* What an activity answers with is an output of its node.
OutputsKnown ==
  \A i \in InstanceId :
    task[i].status = "done" => task[i].updates \in NodeOutputs[task[i].node]

\* Every step keeps it so that an answer is an output of its node.
LEMMA OutputsKnownStep ==
  ASSUME TypeOK, OutputsKnown, [DurableNext]_vars
  PROVE  OutputsKnown'
<1> DEFINE Known(i) ==
      task[i].status = "done" => task[i].updates \in NodeOutputs[task[i].node]
<1>1. CASE UNCHANGED task
  BY <1>1 DEF OutputsKnown
<1>2. ASSUME NEW p \in Process, Abandon(p), NEW i \in InstanceId
      PROVE  Known(i)'
  BY <1>2 DEF Abandon, RequeuedTask, OutputsKnown
<1>3. ASSUME NEW p \in Process, ProcessStep(p)
      PROVE  OutputsKnown'
  BY <1>1, <1>2, <1>3 DEF ProcessStep, StartWorker, RegisterGraph,
     NewRunnerFails, Close, Exit, Crash, OutputsKnown
<1>4. ASSUME NEW c \in Invocation, CallStep(c)
      PROVE  UNCHANGED task
  BY <1>4 DEF CallStep, ScheduleFails, ScheduleNew, ScheduleReplyLost,
              AttachExisting, WaitReturns, GiveUp
<1>5. ASSUME NEW j \in InstanceId, RunStep(j), NEW i \in InstanceId
      PROVE  Known(i)'
  <2>1. CASE i # j
    <3>1. task'[i] = task[i]
      BY <1>5, <2>1 DEF RunStep, TurnStep, TaskStep, Dispatch, Iterate,
           ScheduleNode, NodeFailed, MaxStepsExceeded, RoutingFailed, FinishRun,
           RunNode, RecordResult, RecordFailure, BeginReplay,
           GraphNotRegistered, DispatchActivity, EndRun, TypeOK
    <3> QED BY <3>1 DEF OutputsKnown
  <2>2. CASE i = j
    <3>1. CASE ScheduleNode(i)
      BY <3>1 DEF ScheduleNode, TypeOK
    <3>2. CASE RecordResult(i) \/ RecordFailure(i)
      BY <3>2 DEF RecordResult, RecordFailure, NoTask, TypeOK
    <3>3. CASE RunNode(i)
      <4>1. task[i] \in [status : {"running", "failed"}, node : Graph.nodes,
                         state : State, proc : Process]
        BY <3>3 DEF RunNode, TypeOK, Task, NoTask
      <4>2. CASE task' = [task EXCEPT ![i].status = "failed"]
        BY <4>1, <4>2 DEF TypeOK
      <4>3. CASE \E u \in NodeOutputs[task[i].node] :
                   task' = [task EXCEPT ![i] =
                     [status |-> "done", node |-> @.node, state |-> @.state,
                      proc |-> @.proc, updates |-> u]]
        BY <4>3 DEF TypeOK
      <4> QED BY <3>3, <4>2, <4>3 DEF RunNode
    <3>4. ASSUME NEW p \in Process, DispatchActivity(p, i)
          PROVE  Known(i)'
      BY <3>4 DEF DispatchActivity, TypeOK
    <3>5. ASSUME UNCHANGED task
          PROVE  Known(i)'
      BY <3>5 DEF OutputsKnown
    <3>6. CASE TurnStep(i)
      <4>1. CASE ~ScheduleNode(i)
        <5>1. UNCHANGED task
          BY <3>6, <4>1 DEF TurnStep, Iterate, NodeFailed, MaxStepsExceeded,
                            RoutingFailed, FinishRun, EndRun
        <5> QED BY <3>5, <5>1
      <4> QED BY <3>1, <4>1
    <3>7. ASSUME NEW p \in Process, Dispatch(p, i)
          PROVE  Known(i)'
      <4>1. CASE ~DispatchActivity(p, i)
        <5>1. UNCHANGED task
          BY <3>7, <4>1 DEF Dispatch, BeginReplay, GraphNotRegistered, EndRun
        <5> QED BY <3>5, <5>1
      <4> QED BY <3>4, <4>1
    <3> HIDE DEF Known
    <3> QED BY <1>5, <2>2, <3>2, <3>3, <3>6, <3>7 DEF RunStep, TaskStep
  <2> QED BY <2>1, <2>2
<1>6. ASSUME NEW j \in InstanceId, RunStep(j)
      PROVE  OutputsKnown'
  BY <1>5, <1>6 DEF OutputsKnown
<1> QED BY <1>1, <1>3, <1>4, <1>6 DEF DurableNext, vars

\* Activities answer only with outputs of their node.
THEOREM OutputsKnownInvariance == Spec => []OutputsKnown
<1>1. Init => OutputsKnown
  BY DEF Init, OutputsKnown, NoTask
<1>2. TypeOK /\ OutputsKnown /\ [DurableNext]_vars => OutputsKnown'
  BY OutputsKnownStep
<1> QED BY <1>1, <1>2, TypeCorrect, PTL DEF Spec

-----------------------------------------------------------------------------

AbstractRuns == [i \in InstanceId |-> AbstractRun(i)]

\* The contract's operators are those of this module: only the sets that runs
\* take their inputs and limits from are renamed.
LEMMA ContractOperators ==
  /\ \A s : Contract!Entry(s) = Entry(s)
  /\ \A pos, u : Contract!Advanced(pos, u) = Advanced(pos, u)
  /\ \A m : Contract!EffectiveLimit(m) = EffectiveLimit(m)
BY DEF Contract!Entry, Entry, Contract!Advanced, Advanced,
       Contract!EffectiveLimit, EffectiveLimit, Contract!ApplyUpdates,
       ApplyUpdates, Contract!Merge, Merge, Contract!Next, Next, Contract!AppendReducer, AppendReducer,
       Contract!AnyList, AnyList, Contract!Elements, Elements,
       Contract!Unset, Unset

\* A step that leaves the recorded part of every run alone is a stutter.
LEMMA Stutter ==
  ASSUME \A i \in InstanceId : AbstractRun(i)' = AbstractRun(i)
  PROVE  UNCHANGED AbstractRuns
BY DEF AbstractRuns

\* Creating a run is the contract's Start.
LEMMA CreateStarts ==
  ASSUME TypeOK, NEW j \in InstanceId, ~Exists(j), Create(j)
  PROVE  Contract!Start(j)
<1>1. PICK input \in Inputs, m \in MaxStepsOpts :
        /\ inst' = [inst EXCEPT ![j] =
             Created(JsonState(input), RequestedSteps(m))]
        /\ ckpt' = [ckpt EXCEPT ![j] = <<Entry(JsonState(input))>>]
  BY DEF Create
<1> DEFINE state == JsonState(input)
           limit == EffectiveLimit(RequestedSteps(m))
<1>2. \A i \in InstanceId \ {j} : AbstractRun(i)' = AbstractRun(i)
  BY <1>1 DEF AbstractRun, Exists, Frontier, Last, Limit, TypeOK
<1>3. inst'[j] = Created(state, RequestedSteps(m)) /\ ckpt'[j] = <<Entry(state)>>
  BY <1>1 DEF TypeOK
<1>4. AbstractRun(j)' = [phase |-> "running", pos |-> Entry(state),
                         step |-> 0, limit |-> limit]
  <2>1. Exists(j)'
    BY <1>3 DEF Created, Exists, Absent
  <2>2. inst'[j].status = "running" /\ inst'[j].maxSteps = RequestedSteps(m)
    BY <1>3 DEF Created
  <2>3. Len(ckpt'[j]) = 1 /\ ckpt'[j][1] = Entry(state)
    BY <1>3
  <2> HIDE DEF state
  <2> QED BY <2>1, <2>2, <2>3 DEF AbstractRun, Frontier, Last, Limit
<1>5. AbstractRun(j) = Contract!Idle
  BY DEF AbstractRun, Contract!Idle
<1>6. /\ state \in {JsonState(s) : s \in Inputs}
      /\ limit \in Contract!Limits
      /\ Contract!Entry(state) = Entry(state)
  BY ContractOperators DEF Contract!Limits
<1>7. [i \in InstanceId |-> AbstractRun(i)]' =
        [[i \in InstanceId |-> AbstractRun(i)] EXCEPT ![j] =
           [phase |-> "running", pos |-> Contract!Entry(state),
            step |-> 0, limit |-> limit]]
  <2> HIDE DEF state, limit
  <2> QED BY <1>2, <1>4, <1>6
<1> HIDE DEF state, limit
<1> QED BY <1>5, <1>6, <1>7 DEF Contract!Start

\* Ending a run is the contract's Complete or Fail.
LEMMA EndRunEnds ==
  ASSUME TypeOK, NEW j \in InstanceId, Running(j), Exists(j)
  PROVE  \A status \in {"completed", "failed"}, reason \in Reason, output \in State :
           EndRun(j, status, reason, output) /\ EndsFor(j, status, reason, output)
             => Contract!Complete(j) \/ Contract!Fail(j)
<1> SUFFICES ASSUME NEW status \in {"completed", "failed"}, NEW reason \in Reason,
                    NEW output \in State, EndRun(j, status, reason, output),
                    EndsFor(j, status, reason, output)
             PROVE  Contract!Complete(j) \/ Contract!Fail(j)
  OBVIOUS
<1>1. inst[j] \in Instance
  BY LimitType
<1>2. ckpt' = ckpt
  BY DEF EndRun, hvars
<1>3. ASSUME NEW i \in InstanceId \ {j}
      PROVE  AbstractRun(i)' = AbstractRun(i)
  <2>1. inst'[i] = inst[i]
    BY DEF EndRun, TypeOK
  <2> QED BY <1>2, <2>1 DEF AbstractRun, Exists, Frontier, Last, Limit
<1>4. inst'[j].status = status /\ inst'[j].maxSteps = inst[j].maxSteps
  BY <1>1 DEF EndRun, TypeOK, Instance
<1>5. Exists(j)'
  BY <1>4 DEF Exists, Absent
<1>6. AbstractRun(j) = [phase |-> "running", pos |-> Frontier(j),
                        step |-> Len(ckpt[j]) - 1, limit |-> Limit(j)]
  BY DEF AbstractRun, Running
<1>7. AbstractRun(j)' = [phase |-> status, pos |-> Frontier(j),
                         step |-> Len(ckpt[j]) - 1, limit |-> Limit(j)]
  BY <1>2, <1>4, <1>5 DEF AbstractRun, Frontier, Last, Limit
<1>8. AbstractRun(j)' = [AbstractRun(j) EXCEPT !.phase = status]
  BY <1>6, <1>7
<1>9. AbstractRuns' = [AbstractRuns EXCEPT ![j] = [@ EXCEPT !.phase = status]]
  BY <1>3, <1>8 DEF AbstractRuns
<1>10. AbstractRuns[j].phase = "running" /\ AbstractRuns[j].pos = Frontier(j)
  BY <1>6 DEF AbstractRuns
<1>11. CASE status = "completed"
  <2>1. Frontier(j).current = END
    BY <1>11 DEF EndsFor
  <2> QED BY <1>9, <1>10, <1>11, <2>1 DEF Contract!Complete, AbstractRuns
<1>12. CASE status = "failed"
  BY <1>9, <1>10, <1>12 DEF Contract!Fail, AbstractRuns
<1> QED BY <1>11, <1>12

\* Recording a result is the contract's Advance; this is where node outputs must
\* be what JSON makes of them.
LEMMA RecordResultAdvances ==
  ASSUME JsonNativeOutputs, TypeOK, OutputsKnown, NEW j \in InstanceId, RunInv(j),
         RecordResult(j)
  PROVE  Contract!Advance(j)
<1> DEFINE u == task[j].updates
           next == Advanced(Frontier(j), u)
<1>1. TaskOpen(j)
  BY DEF RecordResult, TaskOpen, NoTask
<1>2. /\ Exists(j) /\ Running(j) /\ inst[j] \in Instance
      /\ Len(ckpt[j]) \in Nat \ {0} /\ Frontier(j) \in Position
      /\ Frontier(j).current \in Graph.nodes
  BY <1>1, TaskType
<1>3. u \in NodeOutputs[Frontier(j).current] /\ JsonState(u) = u /\ u \in State
  <2>1. task[j].node = Frontier(j).current
    BY <1>1 DEF RunInv, TaskAtFrontier
  <2>2. u \in NodeOutputs[Frontier(j).current]
    BY <2>1 DEF RecordResult, OutputsKnown
  <2> QED BY <1>2, <2>2, AgentAssumption DEF JsonNativeOutputs
<1>4. next \in Position
  BY <1>2, <1>3, AdvancedType
<1>5. /\ inst' = [inst EXCEPT ![j].results = Append(@, u), ![j].fails = 0,
                              ![j].due = TRUE]
      /\ ckpt' = [ckpt EXCEPT ![j] = Append(@, next)]
  BY <1>3 DEF RecordResult, Frontier, Last
<1> HIDE DEF next, u
<1>6. ASSUME NEW i \in InstanceId \ {j}
      PROVE  AbstractRun(i)' = AbstractRun(i)
  <2>1. inst'[i] = inst[i] /\ ckpt'[i] = ckpt[i]
    BY <1>5 DEF TypeOK
  <2> QED BY <2>1 DEF AbstractRun, Exists, Frontier, Last, Limit
<1>7. AbstractRun(j) = [phase |-> "running", pos |-> Frontier(j),
                        step |-> Len(ckpt[j]) - 1, limit |-> Limit(j)]
  BY <1>2 DEF AbstractRun, Running
<1>8. AbstractRun(j)' = [phase |-> "running", pos |-> next,
                         step |-> Len(ckpt[j]) - 1 + 1, limit |-> Limit(j)]
  <2>1. inst'[j].status = "running" /\ inst'[j].maxSteps = inst[j].maxSteps
    BY <1>2, <1>5 DEF TypeOK, Instance, Running
  <2>2. Exists(j)'
    BY <2>1 DEF Exists, Absent
  <2>3. ckpt'[j] = Append(ckpt[j], next) /\ ckpt[j] \in Seq(Position)
    BY <1>5 DEF TypeOK
  <2>4. Len(ckpt'[j]) = Len(ckpt[j]) + 1 /\ ckpt'[j][Len(ckpt[j]) + 1] = next
    BY <1>4, <2>3
  <2>5. Len(ckpt'[j]) - 1 = Len(ckpt[j]) - 1 + 1
    BY <1>2, <2>4
  <2> QED BY <2>1, <2>2, <2>4, <2>5 DEF AbstractRun, Frontier, Last, Limit
<1>9. /\ AbstractRuns[j].phase = "running"
      /\ AbstractRuns[j].pos = Frontier(j)
      /\ AbstractRuns[j].step < AbstractRuns[j].limit
  <2>1. Len(ckpt[j]) - 1 < Limit(j)
    <3>1. /\ Len(ckpt[j]) = Len(Results(j)) + 1 /\ Len(Results(j)) < Limit(j)
          /\ Results(j) \in Seq(State)
      BY <1>1, <1>2 DEF RunInv, Chained, TaskAtFrontier, Results, Instance
    <3>2. Limit(j) \in Nat /\ Len(Results(j)) \in Nat
      BY <1>2, <3>1, LimitType
    <3> QED BY <3>1, <3>2
  <2> QED BY <1>7, <2>1 DEF AbstractRuns
<1>10. AbstractRuns' = [AbstractRuns EXCEPT ![j].pos = next, ![j].step = @ + 1]
  <2>1. AbstractRun(j)' = [AbstractRun(j) EXCEPT !.pos = next, !.step = @ + 1]
    <3> DEFINE n == Len(ckpt[j]) - 1
    <3>1. n \in Int
      BY <1>2
    <3>2. /\ AbstractRun(j) = [phase |-> "running", pos |-> Frontier(j),
                               step |-> n, limit |-> Limit(j)]
          /\ AbstractRun(j)' = [phase |-> "running", pos |-> next,
                                step |-> n + 1, limit |-> Limit(j)]
      BY <1>7, <1>8
    <3> HIDE DEF n
    <3>3. [AbstractRun(j) EXCEPT !.pos = next, !.step = n + 1]
            = [phase |-> "running", pos |-> next, step |-> n + 1,
               limit |-> Limit(j)]
      <4> DEFINE r == AbstractRun(j)
                 m == n + 1
                 l == Limit(j)
                 f == Frontier(j)
      <4>1. r = [phase |-> "running", pos |-> f, step |-> n, limit |-> l]
        BY <3>2
      <4> HIDE DEF r, m, l, f
      <4>2. [r EXCEPT !.pos = next, !.step = m]
              = [phase |-> "running", pos |-> next, step |-> m, limit |-> l]
        <5>1. [r EXCEPT !.pos = next, !.step = m]
                \in [phase : {"running"}, pos : {next}, step : {m}, limit : {l}]
          BY ONLY <4>1
        <5>2. \A q \in [phase : {"running"}, pos : {next}, step : {m}, limit : {l}] :
                q = [phase |-> "running", pos |-> next, step |-> m, limit |-> l]
          BY ONLY TRUE
        <5> QED BY <5>1, <5>2
      <4> QED BY <4>2 DEF r, m, l
    <3>4. AbstractRun(j).step = n
      BY <3>2
    <3> QED BY <3>2, <3>3, <3>4
  <2> QED BY <1>6, <2>1 DEF AbstractRuns
<1>11. AbstractRuns' = [AbstractRuns EXCEPT
                          ![j].pos = Contract!Advanced(@, u), ![j].step = @ + 1]
  BY <1>9, <1>10, ContractOperators DEF next
<1> QED BY <1>2, <1>3, <1>9, <1>11 DEF Contract!Advance, AbstractRuns

\* Every step of the durable run is a step of the contract or a stutter.
LEMMA StepRefines ==
  ASSUME JsonNativeOutputs, IInv, OutputsKnown, [DurableNext]_vars
  PROVE  [Contract!RunNext]_AbstractRuns
<1> USE DEF IInv
<1>1. ASSUME UNCHANGED <<inst, ckpt>>
      PROVE  UNCHANGED AbstractRuns
  BY <1>1, Stutter DEF AbstractRun, Exists, Frontier, Last, Limit
<1>2. ASSUME NEW p \in Process, ProcessStep(p)
      PROVE  UNCHANGED <<inst, ckpt>>
  BY <1>2 DEF ProcessStep, StartWorker, RegisterGraph, NewRunnerFails, Close,
              Exit, Crash, hvars
<1>3. ASSUME NEW c \in Invocation, CallStep(c)
      PROVE  UNCHANGED <<inst, ckpt>> \/ \E j \in InstanceId : Contract!Start(j)
  <2>1. \/ UNCHANGED <<inst, ckpt>>
        \/ \E j \in InstanceId : ~Exists(j) /\ Create(j)
    BY <1>3 DEF CallStep, ScheduleFails, ScheduleNew, ScheduleReplyLost,
                AttachExisting, WaitReturns, GiveUp, hvars, Exists
  <2> QED BY <2>1, CreateStarts
<1>4. ASSUME NEW j \in InstanceId, TurnStep(j)
      PROVE  UNCHANGED AbstractRuns \/ Contract!RunStep(j)
  <2>1. turn[j] # NoTurn
    BY <1>4 DEF TurnStep, Iterate, ScheduleNode, NodeFailed, MaxStepsExceeded,
                RoutingFailed, FinishRun, AtFrontier, AtNode
  <2>2. Running(j) /\ Exists(j) /\ inst[j] \in Instance /\ turn[j] \in Turn
    BY <2>1, TurnType
  <2>3. CASE Iterate(j)
    BY <1>1, <2>3 DEF Iterate, hvars
  <2>4. CASE ScheduleNode(j)
    <3>1. ckpt' = ckpt /\ inst' = [inst EXCEPT ![j].due = FALSE]
      BY <2>4 DEF ScheduleNode, hvars
    <3>2. ASSUME NEW i \in InstanceId
          PROVE  AbstractRun(i)' = AbstractRun(i)
      <4>1. CASE i # j
        <5>1. inst'[i] = inst[i]
          BY <3>1, <4>1 DEF TypeOK
        <5> QED BY <3>1, <5>1 DEF AbstractRun, Exists, Frontier, Last, Limit
      <4>2. CASE i = j
        <5>1. /\ inst'[i].status = inst[i].status
              /\ inst'[i].maxSteps = inst[i].maxSteps
          BY <2>2, <3>1, <4>2 DEF TypeOK, Instance
        <5>2. Exists(i) /\ Exists(i)'
          BY <2>2, <4>2, <5>1 DEF Running, Exists, Absent
        <5> QED BY <3>1, <5>1, <5>2 DEF AbstractRun, Frontier, Last, Limit
      <4> QED BY <4>1, <4>2
    <3> QED BY <3>2, Stutter
  <2>5. CASE ~Iterate(j) /\ ~ScheduleNode(j)
    <3>1. PICK status \in {"completed", "failed"}, reason \in Reason,
               output \in State :
            EndRun(j, status, reason, output) /\ EndsFor(j, status, reason, output)
      BY <1>4, <2>1, <2>5, TurnEnds
    <3> QED BY <2>1, <2>2, <3>1, EndRunEnds DEF Contract!RunStep
  <2> QED BY <2>3, <2>4, <2>5
<1>5. ASSUME NEW j \in InstanceId, TaskStep(j)
      PROVE  UNCHANGED AbstractRuns \/ Contract!RunStep(j)
  <2>1. CASE RunNode(j)
    BY <1>1, <2>1 DEF RunNode
  <2>2. CASE RecordResult(j)
    BY <2>2, RecordResultAdvances DEF Contract!RunStep
  <2>3. CASE RecordFailure(j)
    <3>1. TaskOpen(j)
      BY <2>3 DEF RecordFailure, TaskOpen, NoTask
    <3>2. /\ ckpt' = ckpt
          /\ inst' = [inst EXCEPT ![j].fails = FailedAttempts(j), ![j].due = TRUE]
      BY <2>3 DEF RecordFailure, hvars
    <3>3. ASSUME NEW i \in InstanceId
          PROVE  AbstractRun(i)' = AbstractRun(i)
      <4>1. CASE i # j
        <5>1. inst'[i] = inst[i]
          BY <3>2, <4>1 DEF TypeOK
        <5> QED BY <3>2, <5>1 DEF AbstractRun, Exists, Frontier, Last, Limit
      <4>2. CASE i = j
        <5>1. /\ inst'[i].status = inst[i].status
              /\ inst'[i].maxSteps = inst[i].maxSteps
          BY <3>1, <3>2, <4>2, TaskType DEF TypeOK, Instance
        <5>2. Exists(i) /\ Exists(i)'
          BY <3>1, <4>2, <5>1, TaskType DEF Running, Exists, Absent
        <5> QED BY <3>2, <5>1, <5>2 DEF AbstractRun, Frontier, Last, Limit
      <4> QED BY <4>1, <4>2
    <3> QED BY <3>3, Stutter
  <2> QED BY <1>5, <2>1, <2>2, <2>3 DEF TaskStep
<1>6. ASSUME NEW p \in Process, NEW j \in InstanceId, Dispatch(p, j)
      PROVE  UNCHANGED AbstractRuns \/ Contract!RunStep(j)
  <2>1. CASE BeginReplay(p, j) \/ DispatchActivity(p, j)
    BY <1>1, <2>1 DEF BeginReplay, DispatchActivity, hvars
  <2>2. CASE GraphNotRegistered(p, j)
    <3>1. Exists(j) /\ Running(j)
      BY <2>2 DEF GraphNotRegistered, Dispatchable, RunInv, Driven, Exists
    <3>2. EndRun(j, "failed", "unregistered", EmptyState)
          /\ EndsFor(j, "failed", "unregistered", EmptyState)
      BY <2>2 DEF GraphNotRegistered, EndsFor
    <3> QED BY <3>1, <3>2, EndRunEnds, EmptyStateType DEF Reason, Contract!RunStep
  <2> QED BY <1>6, <2>1, <2>2 DEF Dispatch
<1>7. ASSUME NEW j \in InstanceId, RunStep(j)
      PROVE  UNCHANGED AbstractRuns \/ Contract!RunStep(j)
  BY <1>4, <1>5, <1>6, <1>7 DEF RunStep
<1>8. CASE UNCHANGED vars
  BY <1>1, <1>8 DEF vars, hvars
<1> QED BY <1>1, <1>2, <1>3, <1>7, <1>8
        DEF DurableNext, Contract!RunNext, Contract!RunStep

\* The durable run implements AgentRun: one merge per recorded result, no more
\* than the limit, completion only at END, and a finished run never changes.
THEOREM DurableRefines == JsonNativeOutputs => (Spec => ImplementsAgentRun)
<1>1. Init => Contract!Init
  BY DEF Init, Contract!Init, Contract!Idle, AbstractRun, Exists
<1>2. JsonNativeOutputs /\ IInv /\ OutputsKnown /\ [DurableNext]_vars
        => [Contract!RunNext]_([i \in InstanceId |-> AbstractRun(i)])
  BY StepRefines DEF AbstractRuns
<1>3. SUFFICES ASSUME JsonNativeOutputs PROVE Spec => ImplementsAgentRun
  OBVIOUS
<1> QED BY <1>1, <1>2, <1>3, Invariance, OutputsKnownInvariance, PTL
        DEF Spec, ImplementsAgentRun, Contract!RunSpec
=============================================================================
