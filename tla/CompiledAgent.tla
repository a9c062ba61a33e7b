---------------------------- MODULE CompiledAgent ----------------------------
(***************************************************************************)
(* The agent that is run: one compiled graph, what its node functions may  *)
(* return, and the inputs and step limits it is run with.                  *)
(*                                                                         *)
(* A node function is the non-deterministic part of an agent (model, tool  *)
(* and MCP calls): it may return any of its outputs, or an error, in any   *)
(* state.                                                                  *)
(***************************************************************************)
EXTENDS AgentGraph

CONSTANTS
  Graph,        \* the compiled graph, a record as WellFormed describes
  NodeOutputs,  \* for each node the partial states its function may return
  Inputs,       \* input states of runs
  MaxStepsOpts, \* values a caller gives RunOptions.MaxSteps (0: not set)
  DefaultMaxSteps   \* the limit of a run that sets none (100 in the code)

ASSUME GraphAssumption ==
  /\ WellFormed(Graph)
  /\ {END, RouteError} \cap Graph.nodes = {}

ASSUME AgentAssumption ==
  /\ \A n \in Graph.nodes : \A u \in NodeOutputs[n] : u \in State
  /\ \A s \in Inputs : s \in State
  /\ MaxStepsOpts \subseteq Int
  /\ DefaultMaxSteps \in Nat \ {0}

\* `if maxSteps <= 0 { maxSteps = 100 }`
EffectiveLimit(maxSteps) ==
  IF maxSteps <= 0 THEN DefaultMaxSteps ELSE maxSteps

Limits == {EffectiveLimit(m) : m \in MaxStepsOpts}

\* Where a run stands between two nodes: the node to run next and the state.
Entry(input) == [current |-> Graph.entry, state |-> input]

\* One pass of the loop body after the node returned `updates`.
Advanced(pos, updates) ==
  LET merged == ApplyUpdates(Graph, pos.state, updates)
  IN  [current |-> Next(Graph, pos.current, merged), state |-> merged]

Position == [current : Targets(Graph) \cup {RouteError}, state : State]

\* Every output of every node is what JSON makes of it: it holds no list with
\* a static element type.
JsonNativeOutputs ==
  \A n \in Graph.nodes : \A u \in NodeOutputs[n] : JsonState(u) = u
=============================================================================
