-------------------------------- MODULE Rollout --------------------------------
(***************************************************************************)
(* durable/dapr.go when one graph name means different graphs: versions of *)
(* a program during a rolling deployment, or two Runners of one process    *)
(* whose graphs share a name.                                              *)
(*                                                                         *)
(* A run records the name of its graph only.  Whoever replays it or runs   *)
(* one of its nodes looks the name up in its own process, where the last   *)
(* Register or Run under that name decides.  DurableRun has the rest of a  *)
(* run's life (lost tasks, callers, JSON) for one version; here a node     *)
(* function returns what its version writes and does not fail by itself.   *)
(*                                                                         *)
(* External: the sidecar, as in DurableRun.  On replay it matches recorded *)
(* results to calls by position; whether it also refuses a call of another *)
(* activity than the recorded one is left open.                            *)
(***************************************************************************)
EXTENDS AgentGraph

CONSTANTS
  Version,       \* versions of the graph
  Program,       \* version -> compiled graph
  Output,        \* version -> node -> the partial state the node returns
  Input,         \* the input of every run
  None,          \* no version
  Process,
  Worker,        \* Runners: each starts one worker in its process
  ProcessOf,     \* worker -> process
  Built,         \* worker -> the versions its Runner may be made from
  InstanceId,
  Limit,         \* step limit of the runs
  MaxAttempts,   \* attempts per node
  MaxStops       \* bound: how often Runners close and processes stop

ASSUME RolloutAssumption ==
  /\ \A v \in Version : /\ WellFormed(Program[v])
                        /\ {END, RouteError} \cap Program[v].nodes = {}
  /\ None \notin Version
  /\ ProcessOf \in [Worker -> Process]
  /\ \A w \in Worker : Built[w] \in (SUBSET Version) \ {{}}
  /\ {Limit, MaxAttempts} \subseteq Nat \ {0}

VARIABLES
  worker,  \* worker -> the version of its Runner, None when it does not run
  graphs,  \* process -> what graphRegistry has under the name
  inst,    \* instance id -> what the sidecar recorded
  turn,    \* instance id -> the replay under way
  task,    \* instance id -> the node that is to run, None without one
  stops,   \* counts towards MaxStops
  touched  \* history: instance id -> versions that replayed it or ran a node

vars == <<worker, graphs, inst, turn, task, stops, touched>>

-----------------------------------------------------------------------------
(* One version's view of a run *)

Start(v) == [current |-> Program[v].entry, state |-> Input]

\* One pass of graphWorkflow's loop, over a graph of its own.
Step(v, pos, updates) ==
  LET merged == ApplyUpdates(Program[v], pos.state, updates)
  IN  [current |-> Next(Program[v], pos.current, merged), state |-> merged]

Has(v, node) == node \in Program[v].nodes

-----------------------------------------------------------------------------
(* The shape of the state *)

Absent == [status |-> "absent"]
NoTurn == [worker |-> None]

\* Of a result the sidecar records the activity it came from.
Created == [status |-> "running", results |-> <<>>, fails |-> 0, due |-> TRUE,
            reason |-> "none", output |-> Input]

Init ==
  /\ worker = [w \in Worker |-> None]
  /\ graphs = [p \in Process |-> None]
  /\ inst = [i \in InstanceId |-> Absent]
  /\ turn = [i \in InstanceId |-> NoTurn]
  /\ task = [i \in InstanceId |-> None]
  /\ stops = 0
  /\ touched = [i \in InstanceId |-> {}]

-----------------------------------------------------------------------------
(* Runners and processes *)

Up(w)      == worker[w] # None
\* lookupGraph, in the worker's process.
LookupGraph(w) == graphs[ProcessOf[w]]

Registered(w, v) == graphs' = [graphs EXCEPT ![ProcessOf[w]] = v]

\* NewRunner: the worker starts and the graph is registered, over any other of
\* that name.  (DurableRun has the time in between.)
NewRunner(w) ==
  /\ ~Up(w)
  /\ \E v \in Built[w] :
       worker' = [worker EXCEPT ![w] = v] /\ Registered(w, v)
  /\ UNCHANGED <<inst, turn, task, stops, touched>>

\* Workflow tasks in hand are handed out again.
Drop(ws) == turn' = [i \in InstanceId |->
                       IF turn[i].worker \in ws THEN NoTurn ELSE turn[i]]

\* Runner.Close: the graph stays registered.
Close(w) ==
  /\ Up(w)
  /\ stops < MaxStops /\ stops' = stops + 1
  /\ worker' = [worker EXCEPT ![w] = None]
  /\ Drop({w})
  /\ UNCHANGED <<graphs, inst, task, touched>>

StopProcess(p) ==
  LET ws == {w \in Worker : ProcessOf[w] = p}
  IN  /\ graphs[p] # None
      /\ stops < MaxStops /\ stops' = stops + 1
      /\ worker' = [w \in Worker |-> IF w \in ws THEN None ELSE worker[w]]
      /\ graphs' = [graphs EXCEPT ![p] = None]
      /\ Drop(ws)
      /\ UNCHANGED <<inst, task, touched>>

\* backend.Run registers its graph again, whether it then creates the run,
\* attaches to it or cannot schedule.  A Runner is not used after its Close.
Invoke(w, i) ==
  /\ Up(w)
  /\ Registered(w, worker[w])
  /\ \/ inst[i] = Absent /\ inst' = [inst EXCEPT ![i] = Created]
     \/ UNCHANGED inst
  /\ UNCHANGED <<worker, turn, task, stops, touched>>

-----------------------------------------------------------------------------
(* graphWorkflow *)

Results(i) == inst[i].results
Replaying(i) == turn[i] # NoTurn
Current(i) == turn[i].pos.current

Touch(i, vs) == touched' = [touched EXCEPT ![i] = @ \cup vs]

\* The graph is looked up once per replay.
BeginReplay(w, i) ==
  /\ Up(w)
  /\ inst[i] # Absent /\ inst[i].due /\ ~Replaying(i)
  /\ LET v == LookupGraph(w)
     IN  /\ turn' = [turn EXCEPT ![i] = [worker |-> w, cg |-> v, pos |-> Start(v),
                                         step |-> 0]]
         /\ Touch(i, {v})
  /\ UNCHANGED <<worker, graphs, inst, task, stops>>

\* The graph the loop body goes by.
LookedUpAgain(i) == LookupGraph(turn[i].worker)     \* faulty variant
CapturedGraph(i) == turn[i].cg

EndRun(i, status, reason, output) ==
  /\ inst' = [inst EXCEPT ![i].status = status, ![i].reason = reason,
                          ![i].output = output, ![i].due = FALSE]
  /\ turn' = [turn EXCEPT ![i] = NoTurn]
  /\ UNCHANGED <<worker, graphs, task, stops, touched>>

AtNode(i) == Replaying(i) /\ Current(i) \notin {END, RouteError}
             /\ turn[i].step < Limit
Recorded(i) == Results(i)[turn[i].step + 1]

\* Await returns a recorded result, of whatever activity.
Iterate(i) ==
  /\ AtNode(i)
  /\ turn[i].step < Len(Results(i))
  /\ turn' = [turn EXCEPT
       ![i].pos = Step(CapturedGraph(i), @, Recorded(i).updates), ![i].step = @ + 1]
  /\ UNCHANGED <<worker, graphs, inst, task, stops, touched>>

\* The engine may notice that another activity was recorded there.
EngineRefuses(i) ==
  /\ AtNode(i)
  /\ turn[i].step < Len(Results(i))
  /\ Recorded(i).node # Current(i)
  /\ EndRun(i, "failed", "mismatch", Input)

ScheduleNode(i) ==
  /\ AtNode(i)
  /\ turn[i].step = Len(Results(i))
  /\ inst[i].fails < MaxAttempts
  /\ task' = [task EXCEPT ![i] = Current(i)]
  /\ inst' = [inst EXCEPT ![i].due = FALSE]
  /\ turn' = [turn EXCEPT ![i] = NoTurn]
  /\ UNCHANGED <<worker, graphs, stops, touched>>

NodeFailed(i) ==
  /\ AtNode(i)
  /\ turn[i].step = Len(Results(i))
  /\ inst[i].fails = MaxAttempts
  /\ EndRun(i, "failed", "node", Input)

MaxStepsExceeded(i) ==
  /\ Replaying(i)
  /\ Current(i) \notin {END, RouteError} /\ turn[i].step >= Limit
  /\ EndRun(i, "failed", "max steps", Input)

RoutingFailed(i) ==
  /\ Replaying(i) /\ Current(i) = RouteError
  /\ EndRun(i, "failed", "route", Input)

FinishRun(i) ==
  /\ Replaying(i) /\ Current(i) = END
  /\ EndRun(i, "completed", "none", turn[i].pos.state)

-----------------------------------------------------------------------------
(* executeNodeActivity *)

\* The worker has an activity of that name, and the graph of its process a node.
CanRun(w, node) == Has(worker[w], node) /\ Has(LookupGraph(w), node)

TakeTask(w, i) ==
  /\ Up(w) /\ task[i] # None
  /\ task' = [task EXCEPT ![i] = None]
  /\ Touch(i, {worker[w], LookupGraph(w)})
  /\ UNCHANGED <<worker, graphs, turn, stops>>

RunNode(w, i) ==
  /\ TakeTask(w, i)
  /\ CanRun(w, task[i])
  /\ inst' = [inst EXCEPT ![i].fails = 0, ![i].due = TRUE,
       ![i].results = Append(@, [node |-> task[i],
                                 updates |-> Output[LookupGraph(w)][task[i]]])]

\* No such activity, or "unknown node".
SameAttempts(i)   == inst[i].fails                  \* faulty variant
FailedAttempts(i) == inst[i].fails + 1

UnknownNode(w, i) ==
  /\ TakeTask(w, i)
  /\ ~CanRun(w, task[i])
  /\ inst' = [inst EXCEPT ![i].fails = FailedAttempts(i), ![i].due = TRUE]

-----------------------------------------------------------------------------
TurnStep(i) ==
  \/ Iterate(i) \/ EngineRefuses(i) \/ ScheduleNode(i) \/ NodeFailed(i)
  \/ MaxStepsExceeded(i) \/ RoutingFailed(i) \/ FinishRun(i)

WorkerStep(w, i) == BeginReplay(w, i) \/ RunNode(w, i) \/ UnknownNode(w, i)

RunStep(i) == TurnStep(i) \/ \E w \in Worker : WorkerStep(w, i)

RolloutNext ==
  \/ \E w \in Worker : NewRunner(w) \/ Close(w) \/ \E i \in InstanceId : Invoke(w, i)
  \/ \E p \in Process : StopProcess(p)
  \/ \E i \in InstanceId : RunStep(i)

Spec == Init /\ [][RolloutNext]_vars

\* Runners are made again, in whatever version; tasks are handed out and done.
FairSpec == /\ Spec
            /\ \A w \in Worker : WF_vars(NewRunner(w))
            /\ \A i \in InstanceId : WF_vars(RunStep(i))

-----------------------------------------------------------------------------
(* Properties *)

\* Where version v is after each of the results rs.
Course(v, rs) ==
  LET at[k \in 0..Len(rs)] ==
        IF k = 0 THEN Start(v) ELSE Step(v, at[k-1], rs[k].updates)
  IN  at

\* Where version v is after the first k of the run's results.
Fold(v, i, k) == Course(v, Results(i))[k]

\* "Routing and state merge run here and must be deterministic": whatever is
\* registered meanwhile, a replay stands where one version of the graph comes to
\* over the results recorded so far, and an answer is what one version makes of
\* them, at its END.  Versions are mixed in the results only, never inside a
\* replay.
OneVersionPerReplay ==
  \A i \in InstanceId :
    /\ Replaying(i) => \E v \in Version : turn[i].pos = Fold(v, i, turn[i].step)
    /\ inst[i].status = "completed" =>
         \E v \in Version, k \in 0..Len(Results(i)) :
           /\ Fold(v, i, k).current = END /\ Fold(v, i, k).state = inst[i].output
           /\ \A j \in 0..k-1 : Has(v, Fold(v, i, j).current)

\* A run that only one version worked on is that version's own run, whatever is
\* deployed beside it: its nodes in its order with its outputs, failing only
\* where that version alone fails.
OwnRun(v, i) ==
  /\ \A k \in DOMAIN Results(i) :
       LET at == Fold(v, i, k - 1).current
       IN  Has(v, at) /\ Results(i)[k] = [node |-> at, updates |-> Output[v][at]]
  /\ inst[i].reason = "route" => Fold(v, i, Len(Results(i))).current = RouteError
  /\ inst[i].reason \in {"none", "route", "max steps"}

AloneIsUndisturbed ==
  \A i \in InstanceId, v \in Version :
    inst[i] # Absent /\ touched[i] \subseteq {v} => OwnRun(v, i)

\* A deployment that goes back and forth keeps no run from ending.
RunsTerminate ==
  \A i \in InstanceId : inst[i].status = "running" ~> inst[i].status # "running"
=============================================================================
