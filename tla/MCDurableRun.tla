----------------------------- MODULE MCDurableRun -----------------------------
(* Constants for the model checking of DurableRun. *)
EXTENDS DurableRun

CONSTANTS plan, act, m1, m2

A == INSTANCE MCAgent

MCRouterFunc(router, state) == A!MCRouterFunc(router, state)
MCGraph == A!MCGraph
MCNodeOutputs == A!MCNodeOutputs
MCInputs == A!MCInputs
MCChannel == {"history", "draft"}
MCScalar == {m1, m2}

\* Recorded outputs are JSON, as the agent's outputs are: without this the
\* durable run does not implement AgentRun.
ASSUME OutputsAssumption == JsonNativeOutputs

\* The behaviours of Spec in which processes are killed and started again, and none
\* closes its Runner or fails to make one.
KilledNext ==
  \/ \E p \in Process : StartWorker(p) \/ RegisterGraph(p) \/ Crash(p)
  \/ \E c \in Invocation : CallStep(c)
  \/ \E i \in InstanceId : RunStep(i)

KilledSpec == Init /\ [][KilledNext]_vars
=============================================================================
