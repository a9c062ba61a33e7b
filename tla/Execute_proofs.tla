----------------------------- MODULE Execute_proofs -----------------------------
(***************************************************************************)
(* The in-process interpreter for every graph, input and step limit, and   *)
(* whatever the node functions return: it implements the contract that the *)
(* durable workflow implements, and runs of JSON values go as they would   *)
(* go there.                                                               *)
(***************************************************************************)
EXTENDS Execute, AgentGraph_proofs

Frame == [pc : {"loop", "ok", "max steps", "node", "route"}, pos : Position,
          step : Nat, limit : Limits]

\* The loops of a run that was given JSON values only are in step to the value: as
\* JSON took nothing from the outputs, both have merged the same ones.
InStep(i) == exec[i] \in Frame /\ durable[i] = exec[i].pos

EInv ==
  /\ exec \in [Run -> Frame \cup {NotCalled}]
  /\ durable = [i \in Run |-> durable[i]]
  /\ native \subseteq Run
  /\ \A i \in native : InStep(i)

LEMMA NoFrame == NotCalled \notin Frame /\ NotCalled.pc = "idle"
BY DEF NotCalled, Frame

\* A run that is under way or has returned has its frame.
LEMMA HasFrame ==
  ASSUME EInv, NEW i \in Run, exec[i].pc # "idle"
  PROVE  exec[i] \in Frame
BY NoFrame DEF EInv

\* The frame after a node: its position and step, and nothing else, have moved.
LEMMA FrameAdvances ==
  ASSUME NEW x \in Frame, NEW pos, NEW n
  PROVE  [x EXCEPT !.pos = pos, !.step = n]
           = [pc |-> x.pc, pos |-> pos, step |-> n, limit |-> x.limit]
<1>1. x = [pc |-> x.pc, pos |-> x.pos, step |-> x.step, limit |-> x.limit]
  BY DEF Frame
<1> DEFINE pc == x.pc
           at == x.pos
           k  == x.step
           l  == x.limit
<1>2. x = [pc |-> pc, pos |-> at, step |-> k, limit |-> l]
  BY <1>1
<1> HIDE DEF pc, at, k, l
<1>3. [x EXCEPT !.pos = pos, !.step = n]
        \in [pc : {pc}, pos : {pos}, step : {n}, limit : {l}]
  BY ONLY <1>2
<1>4. \A q \in [pc : {pc}, pos : {pos}, step : {n}, limit : {l}] :
        q = [pc |-> pc, pos |-> pos, step |-> n, limit |-> l]
  BY ONLY TRUE
<1> QED BY <1>3, <1>4 DEF pc, l

LEMMA EInit == Init => EInv
BY DEF Init, EInv

\* A step of one run leaves the others as they are.
LEMMA OneMoves ==
  ASSUME EInv, NEW i \in Run, NEW f \in Frame, NEW d,
         exec' = [exec EXCEPT ![i] = f], durable' = [durable EXCEPT ![i] = d],
         native' \subseteq native \cup {i}, i \in native' => d = f.pos
  PROVE  EInv'
<1>1. /\ exec' \in [Run -> Frame \cup {NotCalled}]
      /\ durable' = [j \in Run |-> durable'[j]]
      /\ native' \subseteq Run
  BY DEF EInv
<1>2. /\ \A j \in Run : exec'[j] = IF j = i THEN f ELSE exec[j]
      /\ \A j \in Run : durable'[j] = IF j = i THEN d ELSE durable[j]
  BY DEF EInv
<1>3. ASSUME NEW j \in native'
      PROVE  InStep(j)'
  <2>1. j \in Run /\ (j # i => j \in native)
    BY <1>1
  <2> QED BY <1>2, <1>3, <2>1 DEF EInv, InStep
<1> QED BY <1>1, <1>3 DEF EInv

LEMMA CallInv ==
  ASSUME EInv, NEW i \in Run, Call(i)
  PROVE  EInv'
<1>1. PICK input \in Inputs, m \in MaxStepsOpts :
        /\ exec' = [exec EXCEPT ![i] =
             [pc |-> "loop", pos |-> Entry(input), step |-> 0,
              limit |-> EffectiveLimit(m)]]
        /\ durable' = [durable EXCEPT ![i] = Entry(JsonState(input))]
        /\ native' = IF JsonState(input) = input THEN native \cup {i} ELSE native
  BY DEF Call
<1> DEFINE f == [pc |-> "loop", pos |-> Entry(input), step |-> 0,
                 limit |-> EffectiveLimit(m)]
<1>2. Entry(input) \in Position /\ EffectiveLimit(m) \in Limits
  BY EntryType, AgentAssumption DEF Limits
<1>3. f \in Frame /\ f.pos = Entry(input)
  BY <1>2 DEF Frame
<1>4. i \notin native
  BY NoFrame DEF Call, EInv, InStep
<1> HIDE DEF f
<1>5. i \in native' => Entry(JsonState(input)) = f.pos
  BY <1>1, <1>3, <1>4
<1> QED
  BY <1>1, <1>3, <1>5, OneMoves DEF f

\* A return keeps the frame.
LEMMA ReturnInv ==
  ASSUME EInv, NEW i \in Run, exec[i].pc = "loop",
         NEW result \in {"ok", "max steps", "node", "route"}, Return(i, result)
  PROVE  EInv'
<1> DEFINE f == [exec[i] EXCEPT !.pc = result]
<1>1. exec[i] \in Frame
  BY HasFrame
<1>2. f \in Frame /\ f.pos = exec[i].pos
  BY <1>1 DEF Frame
<1>3. exec' = [exec EXCEPT ![i] = f] /\ UNCHANGED <<durable, native>>
  BY DEF Return
<1>4. durable' = [durable EXCEPT ![i] = durable[i]]
  BY <1>3 DEF EInv
<1>5. i \in native => durable[i] = f.pos
  BY <1>2 DEF EInv, InStep
<1> HIDE DEF f
<1> QED BY <1>2, <1>3, <1>4, <1>5, OneMoves

\* The node that runs is one of the graph's.
LEMMA AtNode ==
  ASSUME EInv, NEW i \in Run, CanRunNode(i)
  PROVE  /\ exec[i] \in Frame /\ exec[i].pc = "loop" /\ exec[i].pos \in Position
         /\ exec[i].pos.current \in Graph.nodes
         /\ exec[i].step < exec[i].limit /\ exec[i].limit \in Nat
<1>1. exec[i] \in Frame /\ exec[i].pc = "loop"
  BY HasFrame DEF CanRunNode, AtLoopHead
<1>2. exec[i].pos \in Position /\ exec[i].step \in Nat /\ exec[i].limit \in Limits
  BY <1>1 DEF Frame
<1>3. exec[i].pos.current \in Graph.nodes
  BY <1>2 DEF Position, Targets, CanRunNode, AtLoopHead
<1>4. exec[i].limit \in Nat
  BY <1>2, AgentAssumption, EffectiveLimitType DEF Limits
<1> QED BY <1>1, <1>2, <1>3, <1>4 DEF CanRunNode, AtLimit

LEMMA NodeReturnsInv ==
  ASSUME EInv, NEW i \in Run, NodeReturns(i)
  PROVE  EInv'
<1> DEFINE n == exec[i].pos.current
<1>1. /\ exec[i] \in Frame /\ exec[i].pos \in Position /\ n \in Graph.nodes
  BY AtNode DEF NodeReturns
<1>2. PICK u \in NodeOutputs[n] :
        /\ exec' = [exec EXCEPT ![i].pos = Advanced(exec[i].pos, u),
                                ![i].step = exec[i].step + 1]
        /\ durable' = [durable EXCEPT ![i] = Advanced(durable[i], JsonState(u))]
        /\ native' = IF JsonState(u) = u THEN native ELSE native \ {i}
  BY DEF NodeReturns, Merged, NextStep, EInv
<1> DEFINE pos == Advanced(exec[i].pos, u)
           n1  == exec[i].step + 1
           f   == [pc |-> exec[i].pc, pos |-> pos, step |-> n1,
                   limit |-> exec[i].limit]
<1>3. u \in State
  BY <1>1, AgentAssumption
<1>4. pos \in Position /\ n1 \in Nat
  <2>1. exec[i].step \in Nat
    BY <1>1 DEF Frame
  <2> QED BY <1>1, <1>3, <2>1, AdvancedType
<1> HIDE DEF pos, n1
<1>5. f \in Frame /\ f.pos = pos
  BY <1>1, <1>4 DEF Frame
<1>6. exec' = [exec EXCEPT ![i] = f]
  <2>1. exec' = [exec EXCEPT ![i] = [exec[i] EXCEPT !.pos = pos, !.step = n1]]
    BY <1>2 DEF pos, n1, EInv
  <2>2. [exec[i] EXCEPT !.pos = pos, !.step = n1] = f
    BY <1>1, FrameAdvances
  <2> QED BY <2>1, <2>2
<1>7. i \in native' => Advanced(durable[i], JsonState(u)) = f.pos
  <2> SUFFICES ASSUME i \in native' PROVE Advanced(durable[i], JsonState(u)) = f.pos
    OBVIOUS
  <2>1. i \in native /\ JsonState(u) = u
    BY <1>2
  <2>2. durable[i] = exec[i].pos
    BY <2>1 DEF EInv, InStep
  <2> QED BY <1>5, <2>1, <2>2 DEF pos
<1> HIDE DEF f
<1> QED BY <1>2, <1>5, <1>6, <1>7, OneMoves

LEMMA ENext == EInv /\ [ExecuteNext]_vars => EInv'
<1> SUFFICES ASSUME EInv, [ExecuteNext]_vars PROVE EInv'
  OBVIOUS
<1>1. CASE UNCHANGED vars
  BY <1>1 DEF vars, EInv, InStep
<1>2. ASSUME NEW i \in Run, ExecuteStep(i)
      PROVE  EInv'
  <2>1. CASE Call(i) \/ NodeReturns(i)
    BY <2>1, CallInv, NodeReturnsInv
  <2>2. CASE LoopEnds(i) \/ MaxStepsExceeded(i) \/ NodeFails(i) \/ RouteFails(i)
    BY <2>2, ReturnInv DEF LoopEnds, MaxStepsExceeded, NodeFails, RouteFails,
                           CanRunNode, AtLoopHead, NextFailed
  <2> QED BY <1>2, <2>1, <2>2 DEF ExecuteStep
<1> QED BY <1>1, <1>2 DEF ExecuteNext

LEMMA EInvariance == Spec => []EInv
BY EInit, ENext, PTL DEF Spec

\* The same outputs take both loops to the same node and state, through any graph.
THEOREM SameRun == Spec => []SameAsDurable
<1>1. EInv => SameAsDurable
  BY DEF EInv, InStep, SameAsDurable
<1> QED BY <1>1, EInvariance, PTL

-----------------------------------------------------------------------------
(* The contract *)

\* The contract speaks of positions and limits as Execute does.
LEMMA ContractOperators ==
  /\ \A s : Contract!Entry(s) = Entry(s)
  /\ \A pos, u : Contract!Advanced(pos, u) = Advanced(pos, u)
  /\ Contract!Limits = Limits
BY DEF Contract!Entry, Entry, Contract!Advanced, Advanced,
       Contract!Limits, Limits, Contract!EffectiveLimit, EffectiveLimit,
       Contract!ApplyUpdates, ApplyUpdates, Contract!Merge, Merge,
       Contract!Next, Next, Contract!AppendReducer, AppendReducer,
       Contract!AnyList, AnyList, Contract!Elements, Elements,
       Contract!Unset, Unset

AbstractRuns == [i \in Run |-> AbstractRun(i)]

\* The abstract run of a frame.
Abstraction(f) ==
  [phase |-> CASE f.pc = "loop" -> "running" [] f.pc = "ok" -> "completed"
               [] OTHER -> "failed",
   pos |-> f.pos, step |-> f.step, limit |-> f.limit]

LEMMA AbstractionIs ==
  ASSUME NEW f
  PROVE  \E phase : /\ Abstraction(f) = [phase |-> phase, pos |-> f.pos,
                                        step |-> f.step, limit |-> f.limit]
                    /\ f.pc = "loop" => phase = "running"
                    /\ f.pc = "ok" => phase = "completed"
                    /\ f.pc \notin {"loop", "ok"} => phase = "failed"
<1> DEFINE phase == CASE f.pc = "loop" -> "running" [] f.pc = "ok" -> "completed"
                      [] OTHER -> "failed"
<1>1. Abstraction(f) = [phase |-> phase, pos |-> f.pos,
                        step |-> f.step, limit |-> f.limit]
  BY DEF Abstraction
<1>2. /\ f.pc = "loop" => phase = "running"
      /\ f.pc = "ok" => phase = "completed"
      /\ f.pc \notin {"loop", "ok"} => phase = "failed"
  OBVIOUS
<1> QED BY <1>1, <1>2

\* A run of the contract is what its fields are.
LEMMA ContractRecord ==
  \A h, p, n, l : \A r \in [phase : {h}, pos : {p}, step : {n}, limit : {l}] :
    r = [phase |-> h, pos |-> p, step |-> n, limit |-> l]
OBVIOUS

\* A run that moves to frame f moves to f's abstraction.
LEMMA OneAbstracts ==
  ASSUME EInv, NEW i \in Run, NEW f \in Frame, exec' = [exec EXCEPT ![i] = f]
  PROVE  AbstractRuns' = [AbstractRuns EXCEPT ![i] = Abstraction(f)]
<1>1. \A j \in Run : exec'[j] = IF j = i THEN f ELSE exec[j]
  BY DEF EInv
<1>2. AbstractRun(i)' = Abstraction(f)
  BY <1>1, NoFrame DEF AbstractRun, Abstraction
<1>3. \A j \in Run : j # i => AbstractRun(j)' = AbstractRun(j)
  BY <1>1 DEF AbstractRun
<1> QED BY <1>2, <1>3 DEF AbstractRuns

LEMMA FrameAbstracts ==
  ASSUME NEW i \in Run, exec[i] \in Frame
  PROVE  AbstractRuns[i] = Abstraction(exec[i])
BY NoFrame DEF AbstractRuns, AbstractRun, Abstraction

LEMMA CallStarts ==
  ASSUME EInv, NEW i \in Run, Call(i)
  PROVE  Contract!Start(i)
<1>1. PICK input \in Inputs, m \in MaxStepsOpts :
        exec' = [exec EXCEPT ![i] =
          [pc |-> "loop", pos |-> Entry(input), step |-> 0,
           limit |-> EffectiveLimit(m)]]
  BY DEF Call
<1> DEFINE f == [pc |-> "loop", pos |-> Entry(input), step |-> 0,
                 limit |-> EffectiveLimit(m)]
<1>2. Entry(input) \in Position /\ EffectiveLimit(m) \in Limits
  BY EntryType, AgentAssumption DEF Limits
<1>3. f \in Frame
  BY <1>2 DEF Frame
<1>4. Abstraction(f) = [phase |-> "running", pos |-> Entry(input), step |-> 0,
                        limit |-> EffectiveLimit(m)]
  BY DEF Abstraction
<1>5. exec' = [exec EXCEPT ![i] = f]
  BY <1>1
<1> HIDE DEF f
<1>6. AbstractRuns' = [AbstractRuns EXCEPT ![i] = Abstraction(f)]
  BY <1>3, <1>5, OneAbstracts
<1>7. AbstractRuns[i] = Contract!Idle
  BY DEF AbstractRuns, AbstractRun, Contract!Idle, Call
<1> QED BY <1>2, <1>4, <1>6, <1>7, ContractOperators
        DEF Contract!Start, AbstractRuns

LEMMA ReturnEnds ==
  ASSUME EInv, NEW i \in Run, exec[i].pc = "loop",
         NEW result \in {"ok", "max steps", "node", "route"}, Return(i, result),
         result = "ok" => exec[i].pos.current = END
  PROVE  Contract!Complete(i) \/ Contract!Fail(i)
<1> DEFINE f     == [exec[i] EXCEPT !.pc = result]
           phase == IF result = "ok" THEN "completed" ELSE "failed"
<1>1. exec[i] \in Frame
  BY HasFrame
<1>2. /\ f \in Frame /\ f.pc = result /\ f.pos = exec[i].pos
      /\ f.step = exec[i].step /\ f.limit = exec[i].limit
  BY <1>1 DEF Frame
<1>3. exec' = [exec EXCEPT ![i] = f]
  BY DEF Return
<1> HIDE DEF f
<1>4. AbstractRuns' = [AbstractRuns EXCEPT ![i] = Abstraction(f)]
  BY <1>2, <1>3, OneAbstracts
<1>5. AbstractRuns[i] = Abstraction(exec[i])
  BY <1>1, FrameAbstracts
<1>6. AbstractRuns[i] = [phase |-> "running", pos |-> exec[i].pos,
                         step |-> exec[i].step, limit |-> exec[i].limit]
  BY <1>5, AbstractionIs
<1>7. Abstraction(f) = [phase |-> phase, pos |-> exec[i].pos,
                        step |-> exec[i].step, limit |-> exec[i].limit]
  BY <1>2, AbstractionIs
<1> HIDE DEF AbstractRuns, Abstraction, phase
<1>8. PICK r : r = AbstractRuns[i]
  OBVIOUS
<1>9. /\ [r EXCEPT !.phase = phase] = Abstraction(f)
      /\ r.phase = "running" /\ r.pos = exec[i].pos
  <2>1. r = [phase |-> "running", pos |-> exec[i].pos,
             step |-> exec[i].step, limit |-> exec[i].limit]
    BY <1>6, <1>8
  <2>2. /\ [r EXCEPT !.phase = phase] = [phase |-> phase, pos |-> exec[i].pos,
                                         step |-> exec[i].step, limit |-> exec[i].limit]
        /\ r.phase = "running" /\ r.pos = exec[i].pos
    <3> DEFINE a == exec[i].pos
               k == exec[i].step
               l == exec[i].limit
    <3> HIDE DEF a, k, l
    <3>1. r = [phase |-> "running", pos |-> a, step |-> k, limit |-> l]
      BY <2>1 DEF a, k, l
    <3>2. /\ [r EXCEPT !.phase = phase]
               \in [phase : {phase}, pos : {a}, step : {k}, limit : {l}]
          /\ r.phase = "running" /\ r.pos = a
      BY ONLY <3>1
    <3> QED BY <3>2, ContractRecord DEF a, k, l
  <2> QED BY <1>7, <2>2
<1>10. \/ phase = "failed"
       \/ phase = "completed" /\ exec[i].pos.current = END
  BY DEF phase
<1>11. AbstractRuns' = [AbstractRuns EXCEPT ![i].phase = phase]
  BY <1>4, <1>8, <1>9
<1> QED
  BY <1>8, <1>9, <1>10, <1>11 DEF Contract!Complete, Contract!Fail, AbstractRuns

LEMMA NodeAdvances ==
  ASSUME EInv, NEW i \in Run, NodeReturns(i)
  PROVE  Contract!Advance(i)
<1> DEFINE n == exec[i].pos.current
<1>1. /\ exec[i] \in Frame /\ exec[i].pc = "loop" /\ exec[i].pos \in Position
      /\ n \in Graph.nodes /\ exec[i].step < exec[i].limit
  BY AtNode DEF NodeReturns
<1>2. PICK u \in NodeOutputs[n] :
        exec' = [exec EXCEPT ![i].pos = Advanced(exec[i].pos, u),
                             ![i].step = exec[i].step + 1]
  BY DEF NodeReturns, Merged, NextStep, EInv
<1> DEFINE pos == Advanced(exec[i].pos, u)
           n1  == exec[i].step + 1
           f   == [pc |-> exec[i].pc, pos |-> pos, step |-> n1,
                   limit |-> exec[i].limit]
<1>3. u \in State
  BY <1>1, AgentAssumption
<1>4. pos \in Position /\ n1 \in Nat
  <2>1. exec[i].step \in Nat
    BY <1>1 DEF Frame
  <2> QED BY <1>1, <1>3, <2>1, AdvancedType
<1> HIDE DEF pos, n1
<1>5. /\ f \in Frame /\ f.pos = pos /\ f.step = n1
      /\ f.pc = "loop" /\ f.limit = exec[i].limit
  BY <1>1, <1>4 DEF Frame
<1>6. exec' = [exec EXCEPT ![i] = f]
  <2>1. exec' = [exec EXCEPT ![i] = [exec[i] EXCEPT !.pos = pos, !.step = n1]]
    BY <1>2 DEF pos, n1, EInv
  <2>2. [exec[i] EXCEPT !.pos = pos, !.step = n1] = f
    BY <1>1, FrameAdvances
  <2> QED BY <2>1, <2>2
<1> HIDE DEF f
<1>7. AbstractRuns' = [AbstractRuns EXCEPT ![i] = Abstraction(f)]
  BY <1>5, <1>6, OneAbstracts
<1>8. AbstractRuns[i] = [phase |-> "running", pos |-> exec[i].pos,
                         step |-> exec[i].step, limit |-> exec[i].limit]
  BY <1>1, FrameAbstracts, AbstractionIs
<1>9. Abstraction(f) = [phase |-> "running", pos |-> pos,
                        step |-> n1, limit |-> exec[i].limit]
  BY <1>5, AbstractionIs
<1>10. pos = Contract!Advanced(AbstractRuns[i].pos, u)
  BY <1>8, ContractOperators DEF pos
<1> HIDE DEF AbstractRuns, n
<1>11. AbstractRuns' = [AbstractRuns EXCEPT
         ![i].pos = Contract!Advanced(@, u), ![i].step = @ + 1]
  <2> DEFINE p == Contract!Advanced(AbstractRuns[i].pos, u)
  <2>1. p = pos
    BY <1>10
  <2> HIDE DEF p
  <2>2. PICK r : r = AbstractRuns[i]
    OBVIOUS
  <2>3. [r EXCEPT !.pos = p, !.step = n1] = Abstraction(f) /\ r.step + 1 = n1
    <3> DEFINE a == exec[i].pos
               k == exec[i].step
               l == exec[i].limit
    <3> HIDE DEF a, k, l
    <3>1. r = [phase |-> "running", pos |-> a, step |-> k, limit |-> l]
      BY <1>8, <2>2 DEF a, k, l
    <3>2. /\ [r EXCEPT !.pos = p, !.step = n1]
               \in [phase : {"running"}, pos : {p}, step : {n1}, limit : {l}]
          /\ r.step = k
      BY ONLY <3>1
    <3> QED BY <1>9, <2>1, <3>2, ContractRecord DEF n1, k, l
  <2>4. AbstractRuns' = [AbstractRuns EXCEPT ![i].pos = p, ![i].step = n1]
    BY <1>7, <2>2, <2>3
  <2> QED BY <2>2, <2>3, <2>4 DEF p
<1>12. /\ AbstractRuns[i].phase = "running"
       /\ AbstractRuns[i].pos.current = n
       /\ AbstractRuns[i].step < AbstractRuns[i].limit
  BY <1>1, <1>8 DEF n
<1> QED BY <1>1, <1>11, <1>12 DEF Contract!Advance, AbstractRuns

\* Every step of Execute is a step of the contract.
LEMMA StepRefines ==
  ASSUME EInv, [ExecuteNext]_vars
  PROVE  [Contract!RunNext]_AbstractRuns
<1>1. CASE UNCHANGED vars
  BY <1>1 DEF vars, AbstractRuns, AbstractRun
<1>2. ASSUME NEW i \in Run, ExecuteStep(i)
      PROVE  Contract!RunStep(i)
  <2>1. CASE Call(i) \/ NodeReturns(i)
    BY <2>1, CallStarts, NodeAdvances DEF Contract!RunStep
  <2>2. CASE LoopEnds(i) \/ MaxStepsExceeded(i) \/ NodeFails(i) \/ RouteFails(i)
    BY <2>2, ReturnEnds DEF LoopEnds, MaxStepsExceeded, NodeFails, RouteFails,
                            CanRunNode, AtLoopHead, NextFailed, Contract!RunStep
  <2> QED BY <1>2, <2>1, <2>2 DEF ExecuteStep
<1> QED BY <1>1, <1>2 DEF ExecuteNext, Contract!RunNext

\* Execute keeps the contract of AgentRun, with whatever values its nodes return:
\* one merge per step, within the limit, completion only at END, and nothing after
\* a return.
THEOREM ExecuteRefines == Spec => ImplementsAgentRun
<1>1. Init => Contract!Init
  BY DEF Init, Contract!Init, Contract!Idle, AbstractRun
<1>2. EInv /\ [ExecuteNext]_vars
        => [Contract!RunNext]_([i \in Run |-> AbstractRun(i)])
  BY StepRefines DEF AbstractRuns
<1> QED BY <1>1, <1>2, EInvariance, PTL DEF Spec, ImplementsAgentRun, Contract!RunSpec
=============================================================================
