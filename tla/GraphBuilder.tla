----------------------------- MODULE GraphBuilder -----------------------------
(***************************************************************************)
(* Building and compiling an agent graph: the Graph builder's methods,     *)
(* Compile (agent/graph.go) and the description that goes to the agent     *)
(* registry (agent/config.go).                                             *)
(*                                                                         *)
(* The compiled graph holds the builder's own maps (nodes, edges, conds,   *)
(* reducers), so those are one variable here, `maps`; what it copies at    *)
(* Compile (the order, the entry, the description) is in `compiled`.       *)
(***************************************************************************)
EXTENDS AgentGraph, FiniteSets, Functions

CONSTANTS
  Name,       \* node names; AddEdge and friends also meet the ones below
  EmptyName,  \* ""
  START,      \* agent.START
  Mappings,   \* mappings given to AddConditionalEdge
  Router,     \* routers given to AddConditionalEdge
  MaxCalls,   \* bound: builder calls
  ReuseBuilder  \* whether builder methods are called after Compile succeeded

ASSUME BuilderAssumption ==
  /\ Cardinality({EmptyName, START, END}) = 3
  /\ {EmptyName, START, END} \cap Name = {}
  /\ MaxCalls \in Nat
  /\ ReuseBuilder \in BOOLEAN

VARIABLES
  maps,      \* [nodes, edges, conds, reducers]: shared with the compiled graph
  order,     \* node names in insertion order
  entry,     \* EmptyName until it is set
  err,       \* the error Compile will return: the call that failed, or "none"
  compiled,  \* the CompiledGraph, or NotCompiled
  calls      \* counts towards MaxCalls

vars == <<maps, order, entry, err, compiled, calls>>

AnyName == Name \cup {EmptyName, START, END}

NotCompiled == [order |-> <<>>]

GraphOf(m, e) == [nodes |-> m.nodes, entry |-> e, edges |-> m.edges,
                  conds |-> m.conds, reducers |-> m.reducers]

-----------------------------------------------------------------------------
(* describe: the serializable description of a graph *)

StaticTarget(g, n) == IF n \in DOMAIN g.edges THEN g.edges[n] ELSE EmptyName

\* A node finishes the run when an edge of it can lead to END or it has none.
OnlyExplicitFinish(g, n) ==                     \* faulty variant
  IF StaticTarget(g, n) # EmptyName THEN g.edges[n] = END
  ELSE n \in DOMAIN g.conds /\ END \in Range(g.conds[n].mapping)

Finishes(g, n) ==
  IF StaticTarget(g, n) # EmptyName THEN g.edges[n] = END
  ELSE n \in DOMAIN g.conds => END \in Range(g.conds[n].mapping)

EdgeConfigs(g) ==
       {[source |-> n, conditional |-> FALSE, targets |-> {g.edges[n]}] :
          n \in {x \in g.nodes : StaticTarget(g, x) # EmptyName}}
  \cup {[source |-> n, conditional |-> TRUE,
         targets |-> Range(g.conds[n].mapping)] :
          n \in {x \in DOMAIN g.conds \cap g.nodes : StaticTarget(g, x) = EmptyName}}

Describe(g) == [entry |-> g.entry, edges |-> EdgeConfigs(g),
                finish |-> {n \in g.nodes : Finishes(g, n)}]

-----------------------------------------------------------------------------
Init ==
  /\ maps = [nodes |-> {}, edges |-> <<>>, conds |-> <<>>, reducers |-> {}]
  /\ order = <<>>
  /\ entry = EmptyName
  /\ err = "none"
  /\ compiled = NotCompiled
  /\ calls = 0

\* A builder method is called; `fail` keeps the first error.
MayCall ==
  /\ calls < MaxCalls
  /\ ReuseBuilder \/ compiled = NotCompiled
  /\ calls' = calls + 1

FirstError(what) == IF err = "none" THEN what ELSE err

Fail(what) ==
  /\ err' = FirstError(what)
  /\ UNCHANGED <<maps, order, entry, compiled>>

RefusedName(name)  == name \in {EmptyName, START, END} \cup maps.nodes

\* AddNode; `isNil` stands for a nil NodeFunc.
AddNode(name, isNil) ==
  /\ MayCall
  /\ IF RefusedName(name) \/ isNil
       THEN Fail("AddNode")
       ELSE /\ maps' = [maps EXCEPT !.nodes = @ \cup {name}]
            /\ order' = Append(order, name)
            /\ UNCHANGED <<entry, err, compiled>>

NoConditional(src)  == FALSE                    \* faulty variant
HasConditional(src) == src \in DOMAIN maps.conds

With(f, x, y) == [z \in DOMAIN f \cup {x} |-> IF z = x THEN y ELSE f[z]]

AddEdge(src, dst) ==
  /\ MayCall
  /\ IF src = START
       THEN entry' = dst /\ UNCHANGED <<maps, order, err, compiled>>
     ELSE IF HasConditional(src) THEN Fail("AddEdge")
     ELSE /\ maps' = [maps EXCEPT !.edges = With(@, src, dst)]
          /\ UNCHANGED <<order, entry, err, compiled>>

\* An empty mapping stands for a nil router as well.
AddConditionalEdge(src, router, mapping) ==
  /\ MayCall
  /\ IF mapping = <<>> \/ src \in DOMAIN maps.edges
       THEN Fail("AddConditionalEdge")
       ELSE /\ maps' = [maps EXCEPT !.conds =
                 With(@, src, [router |-> router, mapping |-> mapping])]
            /\ UNCHANGED <<order, entry, err, compiled>>

SetEntry(name) ==
  /\ MayCall
  /\ entry' = name
  /\ UNCHANGED <<maps, order, err, compiled>>

WithReducer(channel) ==
  /\ MayCall
  /\ maps' = [maps EXCEPT !.reducers = @ \cup {channel}]
  /\ UNCHANGED <<order, entry, err, compiled>>

-----------------------------------------------------------------------------
(* Compile *)

StartNode == IF entry = EmptyName THEN order[1] ELSE entry

ValidTarget(t) == t \in maps.nodes \cup {END}

Compilable ==
  /\ err = "none"
  /\ maps.nodes # {}
  /\ StartNode \in maps.nodes
  /\ \A src \in DOMAIN maps.edges :
       src \in maps.nodes /\ ValidTarget(maps.edges[src])
  /\ \A src \in DOMAIN maps.conds :
       /\ src \in maps.nodes
       /\ \A dst \in Range(maps.conds[src].mapping) : ValidTarget(dst)

\* `snapshot` is the graph as it is at this moment (history).
Compile ==
  /\ compiled = NotCompiled
  /\ Compilable
  /\ LET g == GraphOf(maps, StartNode)
     IN  compiled' = [order |-> order, entry |-> StartNode,
                      config |-> Describe(g), snapshot |-> g]
  /\ UNCHANGED <<maps, order, entry, err, calls>>

BuilderNext ==
  \/ \E name \in AnyName, isNil \in BOOLEAN : AddNode(name, isNil)
  \/ \E src, dst \in AnyName : AddEdge(src, dst)
  \/ \E src \in AnyName, router \in Router, mapping \in Mappings :
       AddConditionalEdge(src, router, mapping)
  \/ \E name \in AnyName : SetEntry(name)
  \/ \E channel \in Channel : WithReducer(channel)
  \/ Compile

Spec == Init /\ [][BuilderNext]_vars

-----------------------------------------------------------------------------
(* Properties *)

\* The graph a run of the compiled graph uses: the maps as they are now.
LiveGraph == GraphOf(maps, compiled.entry)
IsCompiled == compiled # NotCompiled

\* Insertion order and node map agree, and only legal names became nodes.
TypeOK ==
  /\ maps.nodes \subseteq Name
  /\ DOMAIN maps.edges \subseteq AnyName \ {START}
  /\ DOMAIN maps.conds \subseteq AnyName
  /\ maps.reducers \subseteq Channel
  /\ Range(order) = maps.nodes /\ Len(order) = Cardinality(maps.nodes)
  /\ entry \in AnyName
  /\ err \in {"none", "AddNode", "AddEdge", "AddConditionalEdge"}

\* "A validated, executable graph": whatever the order of the builder's calls,
\* a graph that Compile returns can be run.  Every node reachable by routing is
\* defined, and no node has both kinds of edge.  This is what the modules that
\* run graphs assume of them.
CompiledWellFormed == IsCompiled => WellFormed(LiveGraph)

\* What Next can return from a node, over all states.
Successors(g, n) ==
  IF n \in DOMAIN g.edges THEN {g.edges[n]}
  ELSE IF n \in DOMAIN g.conds THEN Range(g.conds[n].mapping)
  ELSE {END}

\* The description sent to the registry is that of the routing function: an
\* edge per node that routes, to exactly the nodes Next can return, and the
\* finish points are the nodes from which a run can end.
DescriptionMatchesRouting ==
  IsCompiled =>
    /\ compiled.config.finish =
         {n \in LiveGraph.nodes : END \in Successors(LiveGraph, n)}
    /\ \A n \in LiveGraph.nodes :
         LET out == {e \in compiled.config.edges : e.source = n}
         IN  IF out = {} THEN Successors(LiveGraph, n) = {END}
             ELSE \E e \in out :
                    out = {e} /\ e.targets = Successors(LiveGraph, n)

\* "Compile ... returns an immutable CompiledGraph": from its nodes it routes as
\* it did when it was compiled, and merges with the same reducers.
CompiledImmutable ==
  IsCompiled =>
    /\ \A n \in compiled.snapshot.nodes :
         Successors(LiveGraph, n) = Successors(compiled.snapshot, n)
    /\ LiveGraph.reducers = compiled.snapshot.reducers
=============================================================================
