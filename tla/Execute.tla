-------------------------------- MODULE Execute --------------------------------
(***************************************************************************)
(* The in-process reference interpreter, agent.Execute (agent/engine.go),  *)
(* next to the durable workflow's loop over the same graph.                *)
(*                                                                         *)
(* Each run is one goroutine; runs share nothing but the compiled graph.   *)
(* To compare the two loops, `durable` follows along: where graphWorkflow  *)
(* would be had its activities returned the same outputs without a crash.  *)
(***************************************************************************)
EXTENDS CompiledAgent

CONSTANT Run        \* calls of Execute

VARIABLES
  exec,     \* run -> Execute's locals and what it has returned
  durable,  \* run -> the locals of graphWorkflow for the same run
  native    \* history: the runs that were given JSON values only: no list
            \* with a static element type, in the input or by a node

vars == <<exec, durable, native>>

NotCalled == [pc |-> "idle"]

\* The frame of a call: its position, step and limit, and pc, which is "loop"
\* while Execute runs and then says what it returned.
Init ==
  /\ exec = [i \in Run |-> NotCalled]
  /\ durable = [i \in Run |-> Entry(EmptyState)]
  /\ native = {}

Call(i) ==
  /\ exec[i] = NotCalled
  /\ \E input \in Inputs, m \in MaxStepsOpts :
       /\ exec' = [exec EXCEPT ![i] =
            [pc |-> "loop", pos |-> Entry(input), step |-> 0,
             limit |-> EffectiveLimit(m)]]
       /\ durable' = [durable EXCEPT ![i] = Entry(JsonState(input))]
       /\ native' = IF JsonState(input) = input THEN native \cup {i} ELSE native

AtLoopHead(i) == exec[i].pc = "loop" /\ exec[i].pos.current # RouteError

\* `step >= opts.MaxSteps`
TooLate(i)  == exec[i].step > exec[i].limit     \* faulty variant
AtLimit(i)  == exec[i].step >= exec[i].limit

CanRunNode(i) ==
  AtLoopHead(i) /\ exec[i].pos.current # END /\ ~AtLimit(i)

Return(i, result) ==
  exec' = [exec EXCEPT ![i].pc = result] /\ UNCHANGED <<durable, native>>

LoopEnds(i) ==
  AtLoopHead(i) /\ exec[i].pos.current = END /\ Return(i, "ok")

MaxStepsExceeded(i) ==
  /\ AtLoopHead(i) /\ exec[i].pos.current # END /\ AtLimit(i)
  /\ Return(i, "max steps")

NodeFails(i) == CanRunNode(i) /\ Return(i, "node")

\* The node returns: merge into the state and route.  OnStep, which reports the
\* step to the caller, changes nothing.
Overwritten(pos, u) ==                         \* faulty variant
  LET state == [ch \in Channel |-> IF u[ch] = Unset THEN pos.state[ch] ELSE u[ch]]
  IN  [current |-> Next(Graph, pos.current, state), state |-> state]

Merged(pos, u) == Advanced(pos, u)

NextStep(i) == exec[i].step + 1

NodeReturns(i) ==
  /\ CanRunNode(i)
  /\ \E u \in NodeOutputs[exec[i].pos.current] :
       LET pos == Merged(exec[i].pos, u) IN
       /\ exec' = [exec EXCEPT ![i].pos = pos, ![i].step = NextStep(i)]
       /\ durable' = [durable EXCEPT ![i] = Advanced(@, JsonState(u))]
       /\ native' = IF JsonState(u) = u THEN native ELSE native \ {i}

\* Next returned an error.
NextFailed(i) == exec[i].pc = "loop" /\ exec[i].pos.current = RouteError

RouteFails(i) == NextFailed(i) /\ Return(i, "route")

ExecuteStep(i) ==
  \/ Call(i) \/ LoopEnds(i) \/ MaxStepsExceeded(i) \/ NodeFails(i)
  \/ NodeReturns(i) \/ RouteFails(i)

ExecuteNext == \E i \in Run : ExecuteStep(i)

Spec == Init /\ [][ExecuteNext]_vars

-----------------------------------------------------------------------------
(* Properties *)

\* Execute implements the same contract as the durable workflow.
AbstractRun(i) ==
  IF exec[i] = NotCalled THEN [phase |-> "idle"]
  ELSE [phase |-> CASE exec[i].pc = "loop" -> "running"
                    [] exec[i].pc = "ok"   -> "completed"
                    [] OTHER               -> "failed",
        pos |-> exec[i].pos, step |-> exec[i].step, limit |-> exec[i].limit]

Contract == INSTANCE AgentRun WITH run <- [i \in Run |-> AbstractRun(i)]

ImplementsAgentRun == Contract!RunSpec

\* "Shares the same routing and state-merge logic so behavior matches"
\* (engine.go): node outputs being the same, both loops are at the same node and
\* their states are the same JSON, as long as the run was given JSON values
\* only.  A []string for a reduced channel makes them differ: AppendReducer
\* flattens nothing but []any (state.go:63-72).
SameAsDurable ==
  \A i \in native :
    /\ durable[i].current = exec[i].pos.current
    /\ JsonState(durable[i].state) = JsonState(exec[i].pos.state)
=============================================================================
