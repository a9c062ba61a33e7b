--------------------------- MODULE AgentGraph_proofs ---------------------------
(***************************************************************************)
(* What the shared operators of AgentGraph and CompiledAgent return: the   *)
(* merge and the JSON round trip keep states states, and a well-formed     *)
(* graph routes only to its nodes, to END or to an error.                  *)
(***************************************************************************)
EXTENDS CompiledAgent, TLAPS

\* What a value contributes to an appended list is a sequence of items.
LEMMA ElementsType ==
  ASSUME NEW v \in Value
  PROVE  Elements(v) \in Seq(Item)
<1>1. CASE v.kind = "typed"
  <2>1. v.items \in Seq(Scalar)
    BY <1>1 DEF Value
  <2>2. Elements(v) = <<v.items>>
    BY <1>1 DEF Elements
  <2> QED BY <2>1, <2>2 DEF Item
<1>2. CASE v.kind = "scalar"
  <2>1. v.items \in Seq(Scalar) /\ Elements(v) = v.items
    BY <1>2 DEF Value, Elements
  <2> QED BY <2>1 DEF Item
<1>3. CASE v.kind = "any"
  BY <1>3 DEF Value, Elements
<1>4. CASE v.kind \in {"unset", "nil"}
  BY <1>4 DEF Elements
<1> QED BY <1>1, <1>2, <1>3, <1>4 DEF Value

\* AppendReducer returns a value, whatever it is given: always a []any.
LEMMA AppendReducerType ==
  ASSUME NEW v \in Value, NEW w \in Value
  PROVE  AppendReducer(v, w) \in Value
<1>1. Elements(v) \o Elements(w) \in Seq(Item)
  BY ElementsType
<1> QED BY <1>1 DEF AppendReducer, AnyList, Value

\* Merging a node's output into a state gives a state.
LEMMA ApplyUpdatesType ==
  ASSUME NEW s \in State, NEW u \in State
  PROVE  ApplyUpdates(Graph, s, u) \in State
<1>1. ASSUME NEW ch \in Channel
      PROVE  /\ s[ch] \in Value /\ u[ch] \in Value
             /\ AppendReducer(s[ch], u[ch]) \in Value
  <2>1. s[ch] \in Value /\ u[ch] \in Value
    BY DEF State
  <2> QED BY <2>1, AppendReducerType
<1> QED BY <1>1 DEF ApplyUpdates, Merge, State

\* A value that went through encoding/json is a value.
LEMMA JsonValueType ==
  ASSUME NEW v \in Value
  PROVE  JsonValue(v) \in Value
<1>1. CASE v.kind = "typed"
  <2>1. v.items \in Seq(Item)
    BY <1>1 DEF Value, Item
  <2> QED BY <1>1, <2>1 DEF JsonValue, Nil, AnyList, Value
<1>2. CASE v.kind # "typed"
  BY <1>2 DEF JsonValue, Nil, AnyList, Value
<1> QED BY <1>1, <1>2

\* A state that went through encoding/json is a state.
LEMMA JsonStateType ==
  ASSUME NEW s \in State
  PROVE  JsonState(s) \in State
BY JsonValueType DEF JsonState, State

\* The state without entries is a state.
LEMMA EmptyStateType == EmptyState \in State
BY DEF EmptyState, State, Unset, Value

\* A compiled graph routes only to its nodes, to END, or to an error.
LEMMA NextType ==
  ASSUME NEW src \in Graph.nodes, NEW s
  PROVE  Next(Graph, src, s) \in Targets(Graph) \cup {RouteError}
<1>1. WellFormed(Graph)
  BY GraphAssumption
<1> QED BY <1>1 DEF WellFormed, Next, Targets

\* One pass of the loop body leads from a position at a node to a position.
LEMMA AdvancedType ==
  ASSUME NEW pos \in Position, pos.current \in Graph.nodes, NEW u \in State
  PROVE  Advanced(pos, u) \in Position
<1>1. ApplyUpdates(Graph, pos.state, u) \in State
  BY ApplyUpdatesType DEF Position
<1>2. Next(Graph, pos.current, ApplyUpdates(Graph, pos.state, u))
        \in Targets(Graph) \cup {RouteError}
  BY NextType
<1> QED BY <1>1, <1>2 DEF Advanced, Position

\* Every run starts at a position.
LEMMA EntryType ==
  ASSUME NEW s \in State
  PROVE  Entry(s) \in Position
<1>1. Graph.entry \in Graph.nodes
  BY GraphAssumption DEF WellFormed
<1> QED BY <1>1 DEF Entry, Position, Targets

\* The step limit of a run is positive whatever the caller asks for.
LEMMA EffectiveLimitType ==
  ASSUME NEW m \in Int
  PROVE  EffectiveLimit(m) \in Nat \ {0}
BY AgentAssumption DEF EffectiveLimit
=============================================================================
