------------------------------- MODULE AgentRun -------------------------------
(***************************************************************************)
(* What running an agent graph promises, whoever runs it: a run starts at  *)
(* the graph's entry with its input; each step merges one output of the    *)
(* current node into the state exactly once and moves to the node that the *)
(* graph routes to; no more nodes are merged than the step limit allows;   *)
(* a run completes only when it has been routed to END, and a finished run *)
(* never changes again.  A run may fail at any point.                      *)
(*                                                                         *)
(* Execute implements this in one process, DurableRun across crashes, and  *)
(* Rollout for every run that one version works on.                        *)
(***************************************************************************)
EXTENDS CompiledAgent

CONSTANT Run        \* identities of runs

VARIABLE run

Phase == {"idle", "running", "completed", "failed"}

RunRecord == [phase : Phase, pos : Position, step : Nat, limit : Limits]

\* A run that has not started has no position yet.
Idle == [phase |-> "idle"]

TypeOK == run \in [Run -> RunRecord \cup {Idle}]

Init == run = [i \in Run |-> Idle]

Start(i) ==
  /\ run[i] = Idle
  /\ \E input \in Inputs, limit \in Limits :
       run' = [run EXCEPT ![i] = [phase |-> "running", pos |-> Entry(input),
                                  step |-> 0, limit |-> limit]]

Advance(i) ==
  /\ run[i].phase = "running"
  /\ run[i].pos.current \in Graph.nodes
  /\ run[i].step < run[i].limit
  /\ \E u \in NodeOutputs[run[i].pos.current] :
       run' = [run EXCEPT ![i].pos = Advanced(@, u), ![i].step = @ + 1]

Complete(i) ==
  /\ run[i].phase = "running"
  /\ run[i].pos.current = END
  /\ run' = [run EXCEPT ![i].phase = "completed"]

Fail(i) ==
  /\ run[i].phase = "running"
  /\ run' = [run EXCEPT ![i].phase = "failed"]

RunStep(i) == Start(i) \/ Advance(i) \/ Complete(i) \/ Fail(i)

RunNext == \E i \in Run : RunStep(i)

RunSpec == Init /\ [][RunNext]_run
=============================================================================
