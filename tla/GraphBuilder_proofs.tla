------------------------- MODULE GraphBuilder_proofs -------------------------
(***************************************************************************)
(* What a graph that Compile returned can be relied on for, for any nodes, *)
(* routers, mappings and any number of builder calls in any order, as long *)
(* as the builder is left alone afterwards.                                *)
(***************************************************************************)
EXTENDS GraphBuilder, FiniteSetTheorems, TLAPS

\* The names that stand for no node are three.
LEMMA Reserved ==
  /\ EmptyName # START /\ EmptyName # END /\ START # END
  /\ {EmptyName, START, END} \cap Name = {}
<1>1. ASSUME NEW x, NEW y PROVE Cardinality({x, y}) # 3
  <2>1. IsFiniteSet({x}) /\ Cardinality({x}) = 1
    BY FS_Singleton
  <2>2. Cardinality({x} \cup {y}) = IF y \in {x} THEN 1 ELSE 1 + 1
    BY <2>1, FS_AddElement
  <2>3. {x, y} = {x} \cup {y}
    OBVIOUS
  <2> QED BY <2>2, <2>3
<1>2. Cardinality({EmptyName, START, END}) = 3
  BY BuilderAssumption
<1>3. EmptyName # START
  <2>1. Cardinality({START, END}) # 3
    BY <1>1
  <2>2. EmptyName = START => {EmptyName, START, END} = {START, END}
    OBVIOUS
  <2> QED BY <1>2, <2>1, <2>2
<1>4. EmptyName # END
  <2>1. Cardinality({START, END}) # 3
    BY <1>1
  <2>2. EmptyName = END => {EmptyName, START, END} = {START, END}
    OBVIOUS
  <2> QED BY <1>2, <2>1, <2>2
<1>5. START # END
  <2>1. Cardinality({EmptyName, END}) # 3
    BY <1>1
  <2>2. START = END => {EmptyName, START, END} = {EmptyName, END}
    OBVIOUS
  <2> QED BY <1>2, <2>1, <2>2
<1> QED BY <1>3, <1>4, <1>5, BuilderAssumption

-----------------------------------------------------------------------------
\* The builder's maps, and what no call of it breaks: a node has one kind of
\* edge, whatever the calls that failed.
MapsInv ==
  /\ maps = [nodes |-> maps.nodes, edges |-> maps.edges, conds |-> maps.conds,
             reducers |-> maps.reducers]
  /\ maps.nodes \subseteq Name
  /\ DOMAIN maps.edges \cap DOMAIN maps.conds = {}

\* What Compile checked still holds of the maps, and what it wrote down is still
\* what they say.
CompiledInv ==
  IsCompiled =>
    /\ WellFormed(LiveGraph)
    /\ compiled.snapshot = LiveGraph
    /\ compiled.config = Describe(LiveGraph)

BInv == MapsInv /\ CompiledInv

LEMMA BInit == Init => BInv
BY DEF Init, BInv, MapsInv, CompiledInv, IsCompiled

\* A builder call cannot touch the maps of a graph that was compiled.
LEMMA CallInv ==
  ASSUME ~ReuseBuilder, BInv, MayCall, MapsInv', compiled' = compiled
  PROVE  BInv'
BY DEF BInv, CompiledInv, IsCompiled, MayCall

LEMMA BNext ==
  ASSUME ~ReuseBuilder, BInv, [BuilderNext]_vars
  PROVE  BInv'
<1>1. ASSUME NEW name \in AnyName, NEW isNil \in BOOLEAN, AddNode(name, isNil)
      PROVE  BInv'
  <2>1. MayCall /\ compiled' = compiled
    BY <1>1 DEF AddNode, Fail
  <2>2. MapsInv'
    <3>1. CASE RefusedName(name) \/ isNil
      BY <1>1, <3>1 DEF AddNode, Fail, BInv, MapsInv
    <3>2. CASE ~(RefusedName(name) \/ isNil)
      <4>1. name \in Name
        BY <3>2 DEF RefusedName, AnyName
      <4>2. maps' = [maps EXCEPT !.nodes = @ \cup {name}]
        BY <1>1, <3>2 DEF AddNode
      <4> QED BY <4>1, <4>2 DEF BInv, MapsInv
    <3> QED BY <3>1, <3>2
  <2> QED BY <2>1, <2>2, CallInv
<1>2. ASSUME NEW src \in AnyName, NEW dst \in AnyName, AddEdge(src, dst)
      PROVE  BInv'
  <2>1. MayCall /\ compiled' = compiled
    BY <1>2 DEF AddEdge, Fail
  <2>2. MapsInv'
    <3>1. CASE src = START \/ HasConditional(src)
      BY <1>2, <3>1 DEF AddEdge, Fail, BInv, MapsInv
    <3>2. CASE src # START /\ ~HasConditional(src)
      <4>1. maps' = [maps EXCEPT !.edges = With(@, src, dst)]
        BY <1>2, <3>2 DEF AddEdge
      <4>2. DOMAIN With(maps.edges, src, dst) = DOMAIN maps.edges \cup {src}
        BY DEF With
      <4>3. src \notin DOMAIN maps.conds
        BY <3>2 DEF HasConditional
      <4> HIDE DEF With
      <4> QED BY <4>1, <4>2, <4>3 DEF BInv, MapsInv
    <3> QED BY <3>1, <3>2
  <2> QED BY <2>1, <2>2, CallInv
<1>3. ASSUME NEW src \in AnyName, NEW router \in Router, NEW mapping \in Mappings,
             AddConditionalEdge(src, router, mapping)
      PROVE  BInv'
  <2>1. MayCall /\ compiled' = compiled
    BY <1>3 DEF AddConditionalEdge, Fail
  <2>2. MapsInv'
    <3>1. CASE mapping = <<>> \/ src \in DOMAIN maps.edges
      BY <1>3, <3>1 DEF AddConditionalEdge, Fail, BInv, MapsInv
    <3>2. CASE mapping # <<>> /\ src \notin DOMAIN maps.edges
      <4> DEFINE to == [router |-> router, mapping |-> mapping]
      <4>1. maps' = [maps EXCEPT !.conds = With(@, src, to)]
        BY <1>3, <3>2 DEF AddConditionalEdge
      <4>2. DOMAIN With(maps.conds, src, to) = DOMAIN maps.conds \cup {src}
        BY DEF With
      <4> HIDE DEF With, to
      <4> QED BY <3>2, <4>1, <4>2 DEF BInv, MapsInv
    <3> QED BY <3>1, <3>2
  <2> QED BY <2>1, <2>2, CallInv
<1>4. ASSUME NEW name \in AnyName, SetEntry(name)
      PROVE  BInv'
  <2>1. MayCall /\ compiled' = compiled /\ MapsInv'
    BY <1>4 DEF SetEntry, BInv, MapsInv
  <2> QED BY <2>1, CallInv
<1>5. ASSUME NEW channel \in Channel, WithReducer(channel)
      PROVE  BInv'
  <2>1. MayCall /\ compiled' = compiled
    BY <1>5 DEF WithReducer
  <2>2. MapsInv'
    BY <1>5 DEF WithReducer, BInv, MapsInv
  <2> QED BY <2>1, <2>2, CallInv
<1>6. CASE Compile
  <2> DEFINE g == GraphOf(maps, StartNode)
  <2>1. /\ Compilable /\ UNCHANGED maps
        /\ compiled' = [order |-> order, entry |-> StartNode,
                        config |-> Describe(g), snapshot |-> g]
    BY <1>6 DEF Compile
  <2>2. MapsInv'
    BY <2>1 DEF BInv, MapsInv
  <2>3. LiveGraph' = g
    BY <2>1 DEF LiveGraph, GraphOf
  <2>4. WellFormed(g)
    <3>1. /\ g.nodes = maps.nodes /\ g.entry = StartNode
          /\ g.edges = maps.edges /\ g.conds = maps.conds
      BY DEF GraphOf
    <3>2. /\ StartNode \in maps.nodes
          /\ \A src \in DOMAIN maps.edges :
               src \in maps.nodes /\ maps.edges[src] \in maps.nodes \cup {END}
          /\ \A src \in DOMAIN maps.conds :
               /\ src \in maps.nodes
               /\ \A key \in DOMAIN maps.conds[src].mapping :
                    maps.conds[src].mapping[key] \in maps.nodes \cup {END}
      BY <2>1 DEF Compilable, ValidTarget, Range
    <3>3. DOMAIN maps.edges \cap DOMAIN maps.conds = {}
      BY DEF BInv, MapsInv
    <3> HIDE DEF g
    <3> QED BY <3>1, <3>2, <3>3 DEF WellFormed, Targets
  <2>5. compiled'.snapshot = g /\ compiled'.config = Describe(g)
    BY <2>1
  <2>6. WellFormed(LiveGraph)' /\ Describe(LiveGraph)' = Describe(g)
    BY <2>3, <2>4
  <2> QED BY <2>2, <2>3, <2>5, <2>6 DEF BInv, CompiledInv
<1>7. CASE UNCHANGED vars
  BY <1>7 DEF vars, BInv, MapsInv, CompiledInv, IsCompiled, LiveGraph
<1> QED BY <1>1, <1>2, <1>3, <1>4, <1>5, <1>6, <1>7 DEF BuilderNext

LEMMA BInvariance ==
  ASSUME ~ReuseBuilder
  PROVE  Spec => []BInv
<1>1. BInv /\ [BuilderNext]_vars => BInv'
  BY BNext
<1> QED BY <1>1, BInit, PTL DEF Spec

-----------------------------------------------------------------------------
\* A graph that Compile returned is one the modules that run graphs can rely on.
THEOREM Validated ==
  ASSUME ~ReuseBuilder
  PROVE  Spec => []CompiledWellFormed
<1>1. BInv => CompiledWellFormed
  BY DEF BInv, CompiledInv, CompiledWellFormed
<1> QED BY <1>1, BInvariance, PTL

\* The description of a well-formed graph over legal names is that of its routing.
LEMMA DescribeRight ==
  ASSUME NEW g, WellFormed(g), g.nodes \subseteq Name
  PROVE  /\ Describe(g).finish = {n \in g.nodes : END \in Successors(g, n)}
         /\ \A n \in g.nodes :
              LET out == {e \in Describe(g).edges : e.source = n}
              IN  IF out = {} THEN Successors(g, n) = {END}
                  ELSE \E e \in out :
                         out = {e} /\ e.targets = Successors(g, n)
<1>1. /\ Describe(g).finish = {n \in g.nodes : Finishes(g, n)}
      /\ Describe(g).edges = EdgeConfigs(g)
  BY DEF Describe
<1>2. \A n \in DOMAIN g.edges : g.edges[n] # EmptyName
  BY Reserved DEF WellFormed, Targets
<1>3. \A n : StaticTarget(g, n) # EmptyName <=> n \in DOMAIN g.edges
  BY <1>2 DEF StaticTarget
<1>4. \A n \in g.nodes : Finishes(g, n) <=> END \in Successors(g, n)
  BY <1>3 DEF Finishes, Successors
<1>5. ASSUME NEW n \in g.nodes
      PROVE  LET out == {e \in Describe(g).edges : e.source = n}
             IN  IF out = {} THEN Successors(g, n) = {END}
                 ELSE \E e \in out : out = {e} /\ e.targets = Successors(g, n)
  <2> DEFINE out  == {e \in EdgeConfigs(g) : e.source = n}
             edge(x) == [source |-> x, conditional |-> FALSE,
                         targets |-> {g.edges[x]}]
             cond(x) == [source |-> x, conditional |-> TRUE,
                         targets |-> Range(g.conds[x].mapping)]
  <2>1. \A e : e \in EdgeConfigs(g) <=>
          \/ \E x \in g.nodes : x \in DOMAIN g.edges /\ e = edge(x)
          \/ \E x \in DOMAIN g.conds \cap g.nodes :
               x \notin DOMAIN g.edges /\ e = cond(x)
    BY <1>3 DEF EdgeConfigs
  <2>2. \A x : edge(x).source = x /\ cond(x).source = x
    OBVIOUS
  <2>3. CASE n \in DOMAIN g.edges
    <3>1. out = {edge(n)} /\ edge(n).targets = Successors(g, n)
      <4>1. edge(n) \in out
        BY <2>1, <2>2, <2>3
      <4>2. \A e \in out : e = edge(n)
        BY <2>1, <2>2, <2>3
      <4>3. edge(n).targets = Successors(g, n)
        BY <2>3 DEF Successors
      <4> HIDE DEF out, edge
      <4> QED BY <4>1, <4>2, <4>3
    <3> HIDE DEF out, edge
    <3>2. \E e \in out : out = {e} /\ e.targets = Successors(g, n)
      BY <3>1
    <3> QED BY <1>1, <3>1, <3>2 DEF out
  <2>4. CASE n \notin DOMAIN g.edges /\ n \in DOMAIN g.conds
    <3>1. out = {cond(n)} /\ cond(n).targets = Successors(g, n)
      <4>1. cond(n) \in out
        BY <2>1, <2>2, <2>4
      <4>2. \A e \in out : e = cond(n)
        BY <2>1, <2>2, <2>4
      <4>3. cond(n).targets = Successors(g, n)
        BY <2>4 DEF Successors
      <4> HIDE DEF out, cond
      <4> QED BY <4>1, <4>2, <4>3
    <3> HIDE DEF out, cond
    <3>2. \E e \in out : out = {e} /\ e.targets = Successors(g, n)
      BY <3>1
    <3> QED BY <1>1, <3>1, <3>2 DEF out
  <2>5. CASE n \notin DOMAIN g.edges /\ n \notin DOMAIN g.conds
    <3>1. out = {}
      BY <2>1, <2>2, <2>5
    <3>2. Successors(g, n) = {END}
      BY <2>5 DEF Successors
    <3> QED BY <1>1, <3>1, <3>2
  <2> QED BY <2>3, <2>4, <2>5
<1> QED BY <1>1, <1>4, <1>5

\* The registry is told how the graph routes, whatever the graph.
THEOREM Described ==
  ASSUME ~ReuseBuilder
  PROVE  Spec => []DescriptionMatchesRouting
<1>1. BInv => DescriptionMatchesRouting
  <2> SUFFICES ASSUME BInv, IsCompiled
               PROVE  DescriptionMatchesRouting
    BY DEF DescriptionMatchesRouting
  <2>1. WellFormed(LiveGraph) /\ compiled.config = Describe(LiveGraph)
    BY DEF BInv, CompiledInv
  <2>2. LiveGraph.nodes \subseteq Name
    BY DEF BInv, MapsInv, LiveGraph, GraphOf
  <2> QED BY <2>1, <2>2, DescribeRight DEF DescriptionMatchesRouting
<1> QED BY <1>1, BInvariance, PTL

\* Only a builder that goes on being used after Compile can change what the
\* compiled graph routes to.
THEOREM LeftAlone ==
  ASSUME ~ReuseBuilder
  PROVE  Spec => []CompiledImmutable
<1>1. BInv => CompiledImmutable
  BY DEF BInv, CompiledInv, CompiledImmutable
<1> QED BY <1>1, BInvariance, PTL
-----------------------------------------------------------------------------
\* Type correctness needs the order to be a sequence without repetitions.
TInv ==
  /\ TypeOK
  /\ MapsInv
  /\ order \in Seq(Name)
  /\ IsFiniteSet(maps.nodes)

LEMMA WithDomain ==
  ASSUME NEW f, NEW x, NEW y
  PROVE  DOMAIN With(f, x, y) = DOMAIN f \cup {x}
BY DEF With

LEMMA TInit == Init => TInv
<1> SUFFICES ASSUME Init PROVE TInv
  OBVIOUS
<1>1. /\ IsFiniteSet(maps.nodes) /\ Cardinality(maps.nodes) = 0
      /\ order = <<>> /\ Range(order) = {} /\ maps.nodes = {}
  BY FS_EmptySet DEF Init, Range
<1>2. MapsInv
  BY DEF Init, MapsInv
<1>3. maps.edges = <<>> /\ maps.conds = <<>> /\ maps.reducers = {}
      /\ entry = EmptyName /\ err = "none"
  BY DEF Init
<1> QED BY <1>1, <1>2, <1>3 DEF TInv, TypeOK, AnyName

\* A call that fails leaves everything but the error.
LEMMA FailTyped ==
  ASSUME TInv, NEW what \in {"AddNode", "AddEdge", "AddConditionalEdge"},
         Fail(what)
  PROVE  TInv'
BY DEF TInv, TypeOK, MapsInv, Fail, FirstError

LEMMA TNext ==
  ASSUME TInv, [BuilderNext]_vars
  PROVE  TInv'
<1> USE DEF TInv
<1>0. maps = [nodes |-> maps.nodes, edges |-> maps.edges, conds |-> maps.conds,
              reducers |-> maps.reducers]
  BY DEF MapsInv
<1>1. ASSUME NEW name \in AnyName, NEW isNil \in BOOLEAN, AddNode(name, isNil)
      PROVE  TInv'
  <2>1. CASE RefusedName(name) \/ isNil
    BY <1>1, <2>1, FailTyped DEF AddNode
  <2>2. CASE ~(RefusedName(name) \/ isNil)
    <3>1. name \in Name /\ name \notin maps.nodes
      BY <2>2 DEF RefusedName, AnyName
    <3>2. /\ maps' = [maps EXCEPT !.nodes = @ \cup {name}]
          /\ order' = Append(order, name)
          /\ UNCHANGED <<entry, err, compiled>>
      BY <1>1, <2>2 DEF AddNode
    <3>3. /\ maps'.nodes = maps.nodes \cup {name} /\ maps'.edges = maps.edges
          /\ maps'.conds = maps.conds /\ maps'.reducers = maps.reducers
      BY <1>0, <3>2
    <3>4. MapsInv'
      BY <1>0, <3>1, <3>2 DEF MapsInv
    <3>5. /\ IsFiniteSet(maps'.nodes)
          /\ Cardinality(maps'.nodes) = Cardinality(maps.nodes) + 1
      BY <3>1, <3>3, FS_AddElement
    <3>6. /\ order' \in Seq(Name) /\ Len(order') = Len(order) + 1
          /\ Range(order') = Range(order) \cup {name}
      <4>1. /\ order' \in Seq(Name) /\ Len(order') = Len(order) + 1
            /\ DOMAIN order' = 1..Len(order) + 1 /\ DOMAIN order = 1..Len(order)
            /\ order'[Len(order) + 1] = name
            /\ \A k \in 1..Len(order) : order'[k] = order[k]
        BY <3>1, <3>2
      <4>2. Len(order) \in Nat
        OBVIOUS
      <4>3. \A k : k \in 1..Len(order) + 1 <=>
                   k \in 1..Len(order) \/ k = Len(order) + 1
        BY <4>2
      <4>4. \A x : x \in Range(order') <=> x \in Range(order) \/ x = name
        BY <4>1, <4>3 DEF Range
      <4> QED BY <4>1, <4>4
    <3>7. maps'.nodes \subseteq Name
      BY <3>4 DEF MapsInv
    <3> HIDE DEF TInv
    <3>8. TypeOK'
      <4>1. TypeOK
        BY DEF TInv
      <4>2. entry' = entry /\ err' = err
        BY <3>2
      <4>3. Len(order') = Cardinality(maps'.nodes) /\ Range(order') = maps'.nodes
        BY <3>3, <3>5, <3>6, <4>1 DEF TypeOK
      <4> QED BY <3>3, <3>7, <4>1, <4>2, <4>3 DEF TypeOK
    <3> QED BY <3>4, <3>5, <3>6, <3>8 DEF TInv
  <2> QED BY <2>1, <2>2
<1>2. ASSUME NEW src \in AnyName, NEW dst \in AnyName, AddEdge(src, dst)
      PROVE  TInv'
  <2>1. CASE src = START
    BY <1>2, <2>1 DEF AddEdge, TypeOK, MapsInv
  <2>2. CASE src # START /\ HasConditional(src)
    BY <1>2, <2>2, FailTyped DEF AddEdge
  <2>3. CASE src # START /\ ~HasConditional(src)
    <3> DEFINE new == With(maps.edges, src, dst)
    <3>1. /\ maps' = [maps EXCEPT !.edges = new]
          /\ UNCHANGED <<order, entry, err, compiled>>
      BY <1>2, <2>3 DEF AddEdge
    <3>2. DOMAIN new = DOMAIN maps.edges \cup {src}
      BY WithDomain
    <3> HIDE DEF new
    <3>3. /\ maps'.nodes = maps.nodes /\ maps'.edges = new
          /\ maps'.conds = maps.conds /\ maps'.reducers = maps.reducers
      BY <1>0, <3>1
    <3>4. src \notin DOMAIN maps.conds
      BY <2>3 DEF HasConditional
    <3>5. MapsInv'
      BY <1>0, <3>1, <3>2, <3>4 DEF MapsInv
    <3> QED BY <2>3, <3>1, <3>2, <3>3, <3>5 DEF TypeOK
  <2> QED BY <2>1, <2>2, <2>3
<1>3. ASSUME NEW src \in AnyName, NEW router \in Router, NEW mapping \in Mappings,
             AddConditionalEdge(src, router, mapping)
      PROVE  TInv'
  <2>1. CASE mapping = <<>> \/ src \in DOMAIN maps.edges
    BY <1>3, <2>1, FailTyped DEF AddConditionalEdge
  <2>2. CASE mapping # <<>> /\ src \notin DOMAIN maps.edges
    <3> DEFINE new == With(maps.conds, src, [router |-> router, mapping |-> mapping])
    <3>1. /\ maps' = [maps EXCEPT !.conds = new]
          /\ UNCHANGED <<order, entry, err, compiled>>
      BY <1>3, <2>2 DEF AddConditionalEdge
    <3>2. DOMAIN new = DOMAIN maps.conds \cup {src}
      BY WithDomain
    <3> HIDE DEF new
    <3>3. /\ maps'.nodes = maps.nodes /\ maps'.edges = maps.edges
          /\ maps'.conds = new /\ maps'.reducers = maps.reducers
      BY <1>0, <3>1
    <3>4. MapsInv'
      BY <1>0, <2>2, <3>1, <3>2 DEF MapsInv
    <3> QED BY <3>1, <3>2, <3>3, <3>4 DEF TypeOK
  <2> QED BY <2>1, <2>2
<1>4. ASSUME NEW name \in AnyName, SetEntry(name)
      PROVE  TInv'
  BY <1>4 DEF SetEntry, TypeOK, MapsInv
<1>5. ASSUME NEW channel \in Channel, WithReducer(channel)
      PROVE  TInv'
  <2>1. /\ maps' = [maps EXCEPT !.reducers = @ \cup {channel}]
        /\ UNCHANGED <<order, entry, err, compiled>>
    BY <1>5 DEF WithReducer
  <2>2. /\ maps'.nodes = maps.nodes /\ maps'.edges = maps.edges
        /\ maps'.conds = maps.conds
        /\ maps'.reducers = maps.reducers \cup {channel}
    BY <1>0, <2>1
  <2>3. MapsInv'
    BY <1>0, <2>1 DEF MapsInv
  <2> QED BY <2>1, <2>2, <2>3 DEF TypeOK
<1>6. CASE Compile
  BY <1>6 DEF Compile, TypeOK, MapsInv
<1>7. CASE UNCHANGED vars
  BY <1>7 DEF vars, TypeOK, MapsInv
<1> QED BY <1>1, <1>2, <1>3, <1>4, <1>5, <1>6, <1>7 DEF BuilderNext

\* Insertion order and node map name the same nodes, each once, and only legal
\* names become nodes, also of a builder that is used after Compile.
THEOREM BuilderTypes == Spec => []TypeOK
<1>1. TInv => TypeOK
  BY DEF TInv
<1>2. TInv /\ [BuilderNext]_vars => TInv'
  BY TNext
<1> QED BY <1>1, <1>2, TInit, PTL DEF Spec
=============================================================================
