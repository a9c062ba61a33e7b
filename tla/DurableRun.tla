------------------------------ MODULE DurableRun ------------------------------
(***************************************************************************)
(* Agent runs as Dapr workflows: durable/dapr.go and the life of a Runner  *)
(* (runner.go), with the sidecar as durable/dapr.go uses it.               *)
(*                                                                         *)
(* Several processes (replicas of one agent, or one that is restarted)     *)
(* share the workflow instances.  The sidecar hands a workflow task or an  *)
(* activity task to any process whose worker runs.  A workflow task        *)
(* replays graphWorkflow from the entry node over the recorded activity    *)
(* results and ends by scheduling one activity or by finishing the run; an *)
(* activity task runs one node function.  What a process does is recorded  *)
(* only when its answer arrives, so a process that stops in between leaves *)
(* the task to be handed out again.                                        *)
(*                                                                         *)
(* The sidecar itself is external: it is durable, it hands one task of a   *)
(* run to one process at a time, and it answers AlreadyExists whenever the *)
(* instance id is in use, whatever the state of that instance.             *)
(***************************************************************************)
EXTENDS CompiledAgent

CONSTANTS
  Process,       \* processes that construct a Runner for the agent
  Invocation,    \* calls of Runner.Invoke
  InstanceId,    \* workflow instance ids
  NoId,          \* InvokeOptions.InstanceID left empty
  MaxIterations, \* the agent record's max_iterations, from Config.MaxSteps
  MaxAttempts,   \* attempts per node: Config.NodeRetry, or 1 without one
  MaxStops       \* bound: how often processes crash, close or fail to start

ASSUME DurableAssumption ==
  /\ NoId \notin InstanceId
  /\ MaxIterations \in Int
  /\ MaxAttempts \in Nat \ {0}
  /\ MaxStops \in Nat

VARIABLES
  proc,    \* process -> the state of its Runner
  inst,    \* instance id -> what the sidecar has recorded of the run
  turn,    \* instance id -> the workflow task some process is replaying
  task,    \* instance id -> the activity task of the run, if one is open
  call,    \* invocation -> how far it is, and its answer
  stops,   \* counts towards MaxStops
  ckpt,    \* history: instance id -> the positions the run has gone through,
           \* one more with every recorded result
  ran      \* history: instance id -> how often the node after the last
           \* recorded result has been run

vars  == <<proc, inst, turn, task, call, stops, ckpt, ran>>
hvars == <<ckpt, ran>>

-----------------------------------------------------------------------------
(* The shape of the state *)

\* starting: NewDaprBackend has started the worker, backend.Register has not
\* run yet.  closed: Runner.Close has run, the process lives on.
ProcState == {"down", "starting", "ready", "closed"}

WorkerRuns(p)      == proc[p] \in {"starting", "ready"}
GraphRegistered(p) == proc[p] \in {"ready", "closed"}

\* Invoke replaces a limit of 0 by the agent record's max_iterations.
RequestedSteps(maxSteps) == IF maxSteps = 0 THEN MaxIterations ELSE maxSteps

\* The recorded run: graphWorkflowInput, the results of the completed node
\* activities in order, the failed attempts of the node after them, and
\* whether a workflow task is due.
Absent == [status |-> "absent"]

Created(state, maxSteps) ==
  [status   |-> "running", input |-> state, maxSteps |-> maxSteps,
   results  |-> <<>>, fails |-> 0, due |-> TRUE, reason |-> "none",
   output   |-> EmptyState]

Reason == {"none", "node", "max steps", "route", "unregistered"}

Instance ==
  [status : {"running", "completed", "failed"}, input : State,
   maxSteps : {RequestedSteps(m) : m \in MaxStepsOpts}, results : Seq(State),
   fails : 0..MaxAttempts, due : BOOLEAN, reason : Reason,
   output : State]

\* graphWorkflow's locals while a process replays it.
NoTurn == [proc |-> "none"]
Turn   == [proc : Process, pos : Position, step : Nat]

\* An activity: executeNodeInput, and how far its execution is.
NoTask == [status |-> "none"]
Task   ==      [status : {"queued"}, node : Graph.nodes, state : State]
          \cup [status : {"running", "failed"}, node : Graph.nodes,
                state : State, proc : Process]
          \cup [status : {"done"}, node : Graph.nodes, state : State,
                proc : Process, updates : State]

\* `out` is what Invoke returns when it returns no error.
NotCalled == [pc |-> "idle"]
Call      ==      [pc : {"waiting", "dead"}, proc : Process, id : InstanceId]
             \cup [pc : {"error"}, proc : Process, id : InstanceId \cup {NoId}]
             \cup [pc : {"ok"}, proc : Process, id : InstanceId, out : State]

TypeOK ==
  /\ proc \in [Process -> ProcState]
  /\ inst \in [InstanceId -> Instance \cup {Absent}]
  /\ turn \in [InstanceId -> Turn \cup {NoTurn}]
  /\ task \in [InstanceId -> Task \cup {NoTask}]
  /\ call \in [Invocation -> Call \cup {NotCalled}]
  /\ stops \in 0..MaxStops
  /\ ckpt \in [InstanceId -> Seq(Position)]
  /\ ran \in [InstanceId -> Nat]

Init ==
  /\ proc = [p \in Process |-> "down"]
  /\ inst = [i \in InstanceId |-> Absent]
  /\ turn = [i \in InstanceId |-> NoTurn]
  /\ task = [i \in InstanceId |-> NoTask]
  /\ call = [c \in Invocation |-> NotCalled]
  /\ stops = 0
  /\ ckpt = [i \in InstanceId |-> <<>>]
  /\ ran = [i \in InstanceId |-> 0]

-----------------------------------------------------------------------------
(* The life of a process *)

\* Work a stopped worker had in hand: no answer will come, so a workflow task
\* stays due and an activity task is queued again.
ForgottenTask(t) == NoTask     \* faulty variant

RequeuedTask(t) == [status |-> "queued", node |-> t.node, state |-> t.state]

InHand(t, p) == t.status \in {"running", "failed", "done"} /\ t.proc = p

Abandon(p) ==
  /\ turn' = [i \in InstanceId |-> IF turn[i].proc = p THEN NoTurn ELSE turn[i]]
  /\ task' = [i \in InstanceId |->
                IF InHand(task[i], p) THEN RequeuedTask(task[i]) ELSE task[i]]

\* NewRunner up to NewDaprBackend: the worker connects and takes tasks.
StartWorker(p) ==
  /\ proc[p] = "down"
  /\ proc' = [proc EXCEPT ![p] = "starting"]
  /\ UNCHANGED <<inst, turn, task, call, stops, hvars>>

\* NewRunner's last step, after the Dapr client, the metadata and the agent
\* registry: the graph becomes known to the worker.
RegisterGraph(p) ==
  /\ proc[p] = "starting"
  /\ proc' = [proc EXCEPT ![p] = "ready"]
  /\ UNCHANGED <<inst, turn, task, call, stops, hvars>>

\* NewRunner fails after the worker started and closes the backend again.
NewRunnerFails(p) ==
  /\ proc[p] = "starting"
  /\ stops < MaxStops
  /\ stops' = stops + 1
  /\ proc' = [proc EXCEPT ![p] = "down"]
  /\ Abandon(p)
  /\ UNCHANGED <<inst, call, hvars>>

\* Runner.Close: the worker stops; calls in progress keep waiting.
Close(p) ==
  /\ proc[p] = "ready"
  /\ stops < MaxStops
  /\ stops' = stops + 1
  /\ proc' = [proc EXCEPT ![p] = "closed"]
  /\ Abandon(p)
  /\ UNCHANGED <<inst, call, hvars>>

KillCalls(p) ==
  call' = [c \in Invocation |->
             IF call[c].pc = "waiting" /\ call[c].proc = p
               THEN [call[c] EXCEPT !.pc = "dead"] ELSE call[c]]

\* A process that has closed its Runner ends.
Exit(p) ==
  /\ proc[p] = "closed"
  /\ proc' = [proc EXCEPT ![p] = "down"]
  /\ KillCalls(p)
  /\ UNCHANGED <<inst, turn, task, stops, hvars>>

Crash(p) ==
  /\ proc[p] \in {"starting", "ready"}
  /\ stops < MaxStops
  /\ stops' = stops + 1
  /\ proc' = [proc EXCEPT ![p] = "down"]
  /\ Abandon(p)
  /\ KillCalls(p)
  /\ UNCHANGED <<inst, hvars>>

-----------------------------------------------------------------------------
(* Runner.Invoke and DaprBackend.Run *)

\* A caller needs the Runner that NewRunner returned in its process; Run's own
\* Register of the graph changes nothing there.
CanInvoke(c, p) == call[c] = NotCalled /\ GraphRegistered(p)

\* The sidecar creates the run; its input is JSON from here on.
Create(i) ==
  \E input \in Inputs, m \in MaxStepsOpts :
    LET state == JsonState(input)
    IN  /\ inst' = [inst EXCEPT ![i] = Created(state, RequestedSteps(m))]
        /\ ckpt' = [ckpt EXCEPT ![i] = <<Entry(state)>>]

\* ScheduleWorkflow succeeds: the id, pinned or generated, was not in use.
ScheduleNew(c, p, i) ==
  /\ CanInvoke(c, p)
  /\ inst[i] = Absent
  /\ Create(i)
  /\ call' = [call EXCEPT ![c] = [pc |-> "waiting", proc |-> p, id |-> i]]
  /\ UNCHANGED <<proc, turn, task, stops, ran>>

\* The run was created but the answer is lost: Run returns the error.
ScheduleReplyLost(c, p, i) ==
  /\ CanInvoke(c, p)
  /\ inst[i] = Absent
  /\ Create(i)
  /\ call' = [call EXCEPT ![c] = [pc |-> "error", proc |-> p, id |-> i]]
  /\ UNCHANGED <<proc, turn, task, stops, ran>>

\* AlreadyExists for a pinned id is a resume: attach to that run.
AttachExisting(c, p, i) ==
  /\ CanInvoke(c, p)
  /\ inst[i] # Absent
  /\ call' = [call EXCEPT ![c] = [pc |-> "waiting", proc |-> p, id |-> i]]
  /\ UNCHANGED <<proc, inst, turn, task, stops, hvars>>

\* Any other error of ScheduleWorkflow, a collision of an id that the caller
\* did not pin among them.
ScheduleFails(c, p) ==
  /\ CanInvoke(c, p)
  /\ call' = [call EXCEPT ![c] = [pc |-> "error", proc |-> p, id |-> NoId]]
  /\ UNCHANGED <<proc, inst, turn, task, stops, hvars>>

\* WaitForWorkflowCompletion returns once the run has ended: the output of a
\* completed run, an error for any other final status.
EndedWell(i)     == inst[i].status = "completed"   \* faulty as Ended
Ended(i)         == inst[i].status \in {"completed", "failed"}
AnyEnd(i)        == Ended(i)                       \* faulty variant
ReturnsOutput(i) == inst[i].status = "completed"

WaitReturns(c) ==
  LET i == call[c].id
  IN  /\ call[c].pc = "waiting"
      /\ Ended(i)
      /\ call' = [call EXCEPT ![c] =
           IF ReturnsOutput(i)
             THEN [pc |-> "ok", proc |-> @.proc, id |-> i,
                   out |-> inst[i].output]
             ELSE [@ EXCEPT !.pc = "error"]]
      /\ UNCHANGED <<proc, inst, turn, task, stops, hvars>>

\* The caller's context ends; the run goes on without it.
GiveUp(c) ==
  /\ call[c].pc = "waiting"
  /\ call' = [call EXCEPT ![c].pc = "error"]
  /\ UNCHANGED <<proc, inst, turn, task, stops, hvars>>

-----------------------------------------------------------------------------
(* graphWorkflow *)

Results(i) == inst[i].results
Limit(i)   == EffectiveLimit(inst[i].maxSteps)
Current(i) == turn[i].pos.current

\* A running process answers a workflow task: the run ends.
EndRun(i, status, reason, output) ==
  /\ inst' = [inst EXCEPT ![i].status = status, ![i].reason = reason,
                          ![i].output = output, ![i].due = FALSE]
  /\ turn' = [turn EXCEPT ![i] = NoTurn]
  /\ UNCHANGED <<proc, task, call, stops, hvars>>

Dispatchable(p, i) ==
  WorkerRuns(p) /\ inst[i] # Absent /\ inst[i].due /\ turn[i] = NoTurn

\* A process takes the workflow task and starts over from the entry node.
BeginReplay(p, i) ==
  /\ Dispatchable(p, i)
  /\ GraphRegistered(p)
  /\ turn' = [turn EXCEPT ![i] = [proc |-> p, pos |-> Entry(inst[i].input),
                                  step |-> 0]]
  /\ UNCHANGED <<proc, inst, task, call, stops, hvars>>

\* lookupGraph finds nothing: graphWorkflow returns an error.
GraphNotRegistered(p, i) ==
  /\ Dispatchable(p, i)
  /\ ~GraphRegistered(p)
  /\ EndRun(i, "failed", "unregistered", EmptyState)

\* `step >= maxSteps`
PastLimit(i)  == turn[i].step > Limit(i)    \* faulty variant
AtLimit(i)    == turn[i].step >= Limit(i)

\* The loop is at a node it may run.
AtNode(i) == turn[i] # NoTurn /\ Current(i) \in Graph.nodes /\ ~AtLimit(i)

AtFrontier(i) == AtNode(i) /\ turn[i].step = Len(Results(i))

\* Await returns at once with the recorded result: merge it and route.
Overwritten(pos, u) ==           \* faulty variant
  [Advanced(pos, u) EXCEPT !.state = u]

Replayed(pos, u) == Advanced(pos, u)

Iterate(i) ==
  /\ AtNode(i)
  /\ turn[i].step < Len(Results(i))
  /\ turn' = [turn EXCEPT ![i].pos  = Replayed(@, Results(i)[turn[i].step + 1]),
                          ![i].step = @ + 1]
  /\ UNCHANGED <<proc, inst, task, call, stops, hvars>>

\* CallActivity for a node with no recorded result, the first time or, after a
\* failed attempt, again as the retry policy allows; the turn ends there.
MayAttempt(i)   == inst[i].fails < MaxAttempts
RunInput(i)     == inst[i].input                        \* faulty variant
NodeInput(i)    == JsonState(turn[i].pos.state)

ScheduleNode(i) ==
  /\ AtFrontier(i)
  /\ MayAttempt(i)
  /\ task' = [task EXCEPT ![i] = [status |-> "queued", node |-> Current(i),
                                  state |-> NodeInput(i)]]
  /\ inst' = [inst EXCEPT ![i].due = FALSE]
  /\ turn' = [turn EXCEPT ![i] = NoTurn]
  /\ UNCHANGED <<proc, call, stops, hvars>>

\* No attempt is left: Await returns the node's error.
NodeFailed(i) ==
  /\ AtFrontier(i)
  /\ ~MayAttempt(i)
  /\ EndRun(i, "failed", "node", EmptyState)

\* The loop condition comes first: END is left before the limit is looked at.
NotReturning(i)  == Current(i) # RouteError             \* faulty variant
LoopContinues(i) == Current(i) \notin {END, RouteError}

MaxStepsExceeded(i) ==
  /\ turn[i] # NoTurn
  /\ LoopContinues(i)
  /\ AtLimit(i)
  /\ EndRun(i, "failed", "max steps", EmptyState)

\* Next returned an error.
RoutingFailed(i) ==
  /\ turn[i] # NoTurn
  /\ Current(i) = RouteError
  /\ EndRun(i, "failed", "route", EmptyState)

LoopLeft(i) == Current(i) \in {END, RouteError}         \* faulty variant
LoopEnds(i) == Current(i) = END

FinishRun(i) ==
  /\ turn[i] # NoTurn
  /\ LoopEnds(i)
  /\ EndRun(i, "completed", "none", JsonState(turn[i].pos.state))

-----------------------------------------------------------------------------
(* executeNodeActivity *)

\* A process takes the activity; without the graph it answers with an error.
DispatchActivity(p, i) ==
  /\ WorkerRuns(p)
  /\ task[i].status = "queued"
  /\ task' = [task EXCEPT ![i] =
       [status |-> IF GraphRegistered(p) THEN "running" ELSE "failed",
        node   |-> task[i].node, state |-> task[i].state, proc |-> p]]
  /\ UNCHANGED <<proc, inst, turn, call, stops, hvars>>

\* RunNode: the node function runs, with all the effects it has, and returns
\* its partial state or an error.  Nothing is recorded yet.
RunNode(i) ==
  /\ task[i].status = "running"
  /\ \/ \E u \in NodeOutputs[task[i].node] :
          task' = [task EXCEPT ![i] =
            [status |-> "done", node |-> @.node, state |-> @.state,
             proc |-> @.proc, updates |-> u]]
     \/ task' = [task EXCEPT ![i].status = "failed"]
  /\ ran' = [ran EXCEPT ![i] = @ + 1]
  /\ UNCHANGED <<proc, inst, turn, call, stops, ckpt>>

\* The sidecar records the result; a workflow task becomes due.
RecordResult(i) ==
  /\ task[i].status = "done"
  /\ LET u == JsonState(task[i].updates)
     IN  /\ inst' = [inst EXCEPT ![i].results = Append(@, u),
                                 ![i].fails = 0, ![i].due = TRUE]
         /\ ckpt' = [ckpt EXCEPT ![i] = Append(@, Advanced(@[Len(@)], u))]
  /\ ran' = [ran EXCEPT ![i] = 0]
  /\ task' = [task EXCEPT ![i] = NoTask]
  /\ UNCHANGED <<proc, turn, call, stops>>

\* The sidecar records the failed attempt; the retry delay is not modelled.
SameAttempts(i)   == inst[i].fails                      \* faulty variant
FailedAttempts(i) == inst[i].fails + 1

RecordFailure(i) ==
  /\ task[i].status = "failed"
  /\ inst' = [inst EXCEPT ![i].fails = FailedAttempts(i),
                          ![i].due = TRUE]
  /\ task' = [task EXCEPT ![i] = NoTask]
  /\ UNCHANGED <<proc, turn, call, stops, hvars>>

-----------------------------------------------------------------------------
ProcessStep(p) ==
  \/ StartWorker(p) \/ RegisterGraph(p) \/ NewRunnerFails(p)
  \/ Close(p) \/ Exit(p) \/ Crash(p)

CallStep(c) ==
  \/ \E p \in Process :
       \/ ScheduleFails(c, p)
       \/ \E i \in InstanceId : \/ ScheduleNew(c, p, i)
                                \/ ScheduleReplyLost(c, p, i)
                                \/ AttachExisting(c, p, i)
  \/ WaitReturns(c)
  \/ GiveUp(c)

\* The workflow turn of a run, once a process has taken it.
TurnStep(i) ==
  \/ Iterate(i) \/ ScheduleNode(i) \/ NodeFailed(i)
  \/ MaxStepsExceeded(i) \/ RoutingFailed(i) \/ FinishRun(i)

TaskStep(i) == RunNode(i) \/ RecordResult(i) \/ RecordFailure(i)

Dispatch(p, i) ==
  BeginReplay(p, i) \/ GraphNotRegistered(p, i) \/ DispatchActivity(p, i)

RunStep(i) ==
  TurnStep(i) \/ TaskStep(i) \/ \E p \in Process : Dispatch(p, i)

DurableNext ==
  \/ \E p \in Process : ProcessStep(p)
  \/ \E c \in Invocation : CallStep(c)
  \/ \E i \in InstanceId : RunStep(i)

Spec == Init /\ [][DurableNext]_vars

(***************************************************************************)
(* Fairness.  A process that is down is started again (the platform        *)
(* restarts it), NewRunner goes on to register the graph, and a process    *)
(* that has closed its Runner ends.  Work of a run that some process can   *)
(* do is eventually done: the sidecar hands tasks out, node functions      *)
(* return, answers arrive.  Nothing is assumed of crashes, of callers, or  *)
(* of which process gets a task.                                           *)
(***************************************************************************)
Fairness ==
  /\ \A p \in Process : WF_vars(StartWorker(p)) /\ WF_vars(RegisterGraph(p))
                       /\ WF_vars(Exit(p))
  /\ \A i \in InstanceId : WF_vars(RunStep(i))
  /\ \A c \in Invocation : WF_vars(WaitReturns(c))

FairSpec == Spec /\ Fairness

-----------------------------------------------------------------------------
(* Properties *)

Last(s)      == s[Len(s)]
Exists(i)    == inst[i] # Absent
Running(i)   == inst[i].status = "running"
Frontier(i)  == Last(ckpt[i])
TaskOpen(i)  == task[i] # NoTask

\* The recorded results chain: the run went from its input through one position
\* per recorded result, each reached by merging that result once into the one
\* before and routing, and never past END, a routing error or the step limit.
Chained(i) ==
  Exists(i) =>
    /\ Len(ckpt[i]) = Len(Results(i)) + 1
    /\ Len(Results(i)) <= Limit(i)
    /\ ckpt[i][1] = Entry(inst[i].input)
    /\ \A k \in 1..Len(Results(i)) :
         /\ ckpt[i][k].current \in Graph.nodes
         /\ ckpt[i][k+1] = Advanced(ckpt[i][k], Results(i)[k])

CheckpointsChain == \A i \in InstanceId : Chained(i)

\* Replay is deterministic: whichever process replays a run, and however often,
\* graphWorkflow's locals after k steps are the position the run had after its
\* first k recorded results.
ReplayAtCheckpoint(i) ==
  turn[i] # NoTurn =>
    /\ turn[i].step \in 0..Len(Results(i))
    /\ turn[i].pos = ckpt[i][turn[i].step + 1]

ReplayMatches == \A i \in InstanceId : ReplayAtCheckpoint(i)

\* "It resumes from the last completed node": the only node that is ever handed
\* out is the one after the last recorded result, with the state recorded there,
\* within the step limit and the retry policy; a recorded node never runs again.
TaskAtFrontier(i) ==
  TaskOpen(i) =>
    /\ task[i].node = Frontier(i).current
    /\ task[i].state = JsonState(Frontier(i).state)
    /\ Len(Results(i)) < Limit(i)
    /\ inst[i].fails < MaxAttempts

ResumesAtFrontier == \A i \in InstanceId : TaskAtFrontier(i)

\* A run has exactly one thing to wait for until it ends: a workflow task that
\* is due or an activity task that is open.  Neither a crash nor a Close strands
\* it, and only a live worker that knows the graph holds its workflow task.
Driven(i) ==
  /\ Running(i) => (inst[i].due <=> ~TaskOpen(i))
  /\ ~Running(i) => ~TaskOpen(i) /\ turn[i] = NoTurn
  /\ Exists(i) /\ ~Running(i) => ~inst[i].due
  /\ turn[i] # NoTurn => inst[i].due /\ proc[turn[i].proc] = "ready"

OneDriver == \A i \in InstanceId : Driven(i)

\* A node function runs more often than the retry policy asks for only when a
\* process stopped between running it and recording its result.
WithinBudget(i) ==
  ran[i] <= (IF Exists(i) THEN inst[i].fails ELSE 0) + stops
            + (IF task[i].status \in {"done", "failed"} THEN 1 ELSE 0)

ExecutionBudget == \A i \in InstanceId : WithinBudget(i)

\* A run ends for the reason it gives: completed at END with the state recorded
\* there, or failed because every attempt of one node failed, the router gave
\* no target, or the limit was reached with a node still to run.
Justified(i) ==
  /\ inst[i].status = "completed" =>
       /\ Frontier(i).current = END
       /\ inst[i].output = JsonState(Frontier(i).state)
  /\ inst[i].status = "failed" =>
       CASE inst[i].reason = "node" -> inst[i].fails = MaxAttempts
         [] inst[i].reason = "route" -> Frontier(i).current = RouteError
         [] inst[i].reason = "max steps" ->
              Len(Results(i)) = Limit(i) /\ Frontier(i).current \in Graph.nodes
         [] OTHER -> inst[i].reason = "unregistered"

EndJustified == \A i \in InstanceId : Justified(i)

\* An Invoke that returns a state returns what the run under its id ended with:
\* the state after the last recorded result, at END.  A retried Invoke with the
\* same id therefore gets the same state.
AnswerIsFinal ==
  \A c \in Invocation : call[c].pc = "ok" =>
    /\ inst[call[c].id].status = "completed"
    /\ Frontier(call[c].id).current = END
    /\ call[c].out = JsonState(Frontier(call[c].id).state)

\* The durable run implements AgentRun: replays, crashes and retries are
\* invisible, and every recorded result is one step of the contract.
AbstractRun(i) ==
  IF ~Exists(i) THEN [phase |-> "idle"]
  ELSE [phase |-> inst[i].status, pos |-> Frontier(i),
        step |-> Len(ckpt[i]) - 1, limit |-> Limit(i)]

Contract == INSTANCE AgentRun WITH
  Run          <- InstanceId,
  Inputs       <- {JsonState(s) : s \in Inputs},
  MaxStepsOpts <- {RequestedSteps(m) : m \in MaxStepsOpts},
  run          <- [i \in InstanceId |-> AbstractRun(i)]

ImplementsAgentRun == Contract!RunSpec

\* Every run that was created ends, whatever crashes.
RunsTerminate ==
  \A i \in InstanceId : Running(i) ~> ~Running(i)

\* Every Invoke that waits gets an answer, unless its process dies.
CallsReturn ==
  \A c \in Invocation : call[c].pc = "waiting" ~> call[c].pc # "waiting"

\* A run does not fail because a process restarted.
NoSpuriousFailure ==
  \A i \in InstanceId :
    Exists(i) => inst[i].reason # "unregistered"
=============================================================================
