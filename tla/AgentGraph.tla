------------------------------ MODULE AgentGraph ------------------------------
(***************************************************************************)
(* The data an agent run works on (agent/state.go) and the two pure        *)
(* functions of a compiled graph that the in-process interpreter and the   *)
(* durable workflow share: merging a node's output into the state, and     *)
(* routing (agent/graph.go).                                               *)
(*                                                                         *)
(* A state maps every channel to a value, Unset where the Go map has no    *)
(* entry.  A Go value is abstracted to what AppendReducer and              *)
(* encoding/json tell apart: nil, a scalar, a []any, or a list of any      *)
(* other element type ("typed", for instance []string).  An item of a      *)
(* []any is a scalar or a whole typed list appended as one element.        *)
(***************************************************************************)
EXTENDS Integers, Sequences

CONSTANTS
  Channel,          \* channel names
  Scalar,           \* opaque JSON scalars and objects
  END,              \* agent.END
  RouteError,       \* Next returned an error instead of a node
  RouterFunc(_, _)  \* router, state -> routing key; a key no mapping has
                    \* also stands for a router that returned an error

ASSUME EndAssumption == END # RouteError

-----------------------------------------------------------------------------
(* Values and states *)

Unset        == [kind |-> "unset",  items |-> <<>>]
Nil          == [kind |-> "nil",    items |-> <<>>]
ScalarOf(x)  == [kind |-> "scalar", items |-> <<x>>]
AnyList(s)   == [kind |-> "any",    items |-> s]
TypedList(s) == [kind |-> "typed",  items |-> s]

Item == Scalar \cup Seq(Scalar)

Value ==      [kind : {"unset", "nil", "any"}, items : Seq(Item)]
         \cup [kind : {"scalar", "typed"}, items : Seq(Scalar)]

State == [Channel -> Value]

EmptyState == [ch \in Channel |-> Unset]

-----------------------------------------------------------------------------
(* Reducers and merging *)

\* What a value contributes to the list AppendReducer builds: a []any is
\* flattened, nil adds nothing, and anything else is one element.
Elements(v) == CASE v.kind = "typed"           -> <<v.items>>
                 [] v.kind \in {"any", "scalar"} -> v.items
                 [] OTHER                      -> <<>>

AppendReducer(existing, update) ==
  AnyList(Elements(existing) \o Elements(update))

\* merge: a written channel is reduced when the graph gives it a reducer, and
\* replaced otherwise.
Merge(cg, ch, existing, update) ==
  IF ch \in cg.reducers THEN AppendReducer(existing, update) ELSE update

\* ApplyUpdates: channels that are not written stay.
ApplyUpdates(cg, state, updates) ==
  [ch \in Channel |->
     IF updates[ch] = Unset THEN state[ch]
     ELSE Merge(cg, ch, state[ch], updates[ch])]

\* One trip through encoding/json into an `any`: a list comes back as []any
\* whatever its element type was, and a list that AppendReducer left without
\* elements (a nil slice) is written as null.
JsonValue(v) ==
  IF v.kind \notin {"any", "typed"} THEN v
  ELSE IF v.items = <<>> THEN Nil ELSE AnyList(v.items)

JsonState(state) == [ch \in Channel |-> JsonValue(state[ch])]

-----------------------------------------------------------------------------
(* Routing *)

\* A compiled graph: nodes, the entry node, at most one static edge per node,
\* conditional edges (a router and its key-to-target mapping) and the channels
\* whose reducer is AppendReducer.
Targets(cg) == cg.nodes \cup {END}

\* What Compile guarantees of the graphs it returns.
WellFormed(cg) ==
  /\ cg.entry \in cg.nodes
  /\ DOMAIN cg.edges \cup DOMAIN cg.conds \subseteq cg.nodes
  /\ DOMAIN cg.edges \cap DOMAIN cg.conds = {}
  /\ \A n \in DOMAIN cg.edges : cg.edges[n] \in Targets(cg)
  /\ \A n \in DOMAIN cg.conds :
       \A key \in DOMAIN cg.conds[n].mapping :
         cg.conds[n].mapping[key] \in Targets(cg)

\* CompiledGraph.Next: the static edge, else the router's choice, else END.
Next(cg, src, state) ==
  IF src \in DOMAIN cg.edges THEN cg.edges[src]
  ELSE IF src \in DOMAIN cg.conds
    THEN LET c   == cg.conds[src]
             key == RouterFunc(c.router, state)
         IN  IF key \in DOMAIN c.mapping THEN c.mapping[key] ELSE RouteError
  ELSE END
=============================================================================
