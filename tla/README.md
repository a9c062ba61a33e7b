# Verification of go-ai

TLA+ models of go-ai (packages `ai`, `agent`, `durable`, `registry`, `identity`,
`mcp`, `adapters`), the TLC runs that check them on small instances, and proofs,
for every instance, of all their safety properties. Paths below are those of the
repository, under `src/`.

## 1. The system

go-ai turns an agent, a graph of node functions over a map of named channels,
into a Dapr workflow, so that a run survives the death of the process that
serves it. Around that core it registers the agent in a shared team registry,
lets models call tools of MCP servers as durable workflows, and verifies the
callers of the agent's HTTP endpoints.

```
 Graph builder --Compile--> CompiledGraph --+--> Execute (in process)
                                 |          |
                            Describe        +--> graphWorkflow + activities
                                 |                    |  (Dapr sidecar)
                             Registry <---- NewRunner-+-- Invoke
                                                            ^
 HTTP request --> identity.Middleware --> handler ----------+
                        |                    |
                  JWKSVerifier          identity.Transport --> other services
```

| component | state | operations | interacts with |
|---|---|---|---|
| Graph builder, compiled graph (`agent/graph.go`, `agent/config.go`) | nodes, edges, conditional edges, reducers, first error; the compiled graph shares these maps | AddNode, AddEdge, AddConditionalEdge, SetEntry, WithReducer, Compile, describe, Next, ApplyUpdates | used by both interpreters; its description goes to the registry |
| State and reducers (`agent/state.go`) | none | merge, AppendReducer, ToState, Into | the merge step of both interpreters |
| In-process interpreter (`agent/engine.go`) | state, current node and step of one call | Execute, OnStep | graph |
| Durable backend (`durable/dapr.go`, `durable/backend.go`) | worker, process-wide graph registry; the run itself is in the sidecar | NewDaprBackend, Register, Run, Close; graphWorkflow, executeNodeActivity | graph; Dapr sidecar (workflow tasks, activity tasks, instance ids) |
| Runner (`runner.go`) | backend, client, agent record | NewRunner, Invoke, Close | backend, registry, analytics |
| Usage analytics (`analytics.go`) | what this process has reported | reportUsage, sendUsageEvent | called by NewRunner, sends from a goroutine of its own |
| Agent registry (`registry/*.go`) | one record per agent and one index document per team, in a Dapr state store or in memory, with etags | Register, Deregister, List, Get | shared by all agents of a team in all processes |
| Identity middleware (`identity/middleware.go`) | verifier pointer and build mutex | the handler wrapper | token verifier, application handlers |
| Token verifier (`identity/verifier.go`) | JWKS cache and its refresher, closed flag, time of the last forced refresh | BuildVerifier, Verify, Warm, Close | JWKS endpoint, sidecar metadata |
| Identity transport (`identity/http.go`) | none | RoundTrip | request contexts, net/http's redirects |
| MCP client (`mcp/mcp.go`) | none; its workflows are in the sidecar | DiscoverTools, callTool, runWorkflow | sidecar, MCP servers |
| LangChainGo and Eino adapters (`adapters/`) | messages and turn of one node execution | ModelNode, ToolModelNode, ChatModelNode | model, MCP client; run inside one node |
| Metadata records (`registry/metadata.go`), examples | none | | |

What is hard, and what correctness means for each part:

- **Durable run.** Crashes between running a node and recording it, replays on
  other processes, retries counted over replays, workers that take tasks before
  the graph is registered, callers that attach to runs or lose the answer of
  ScheduleWorkflow. Correct: the run is one execution of the graph, whatever
  happens to processes; it resumes after the last recorded node; it is never
  stranded and never driven twice; a returned state is the run's final state.
- **Execute.** The same graph semantics, step limit and failure rules as the
  durable loop ("shares the same routing and state-merge logic so behavior
  matches", `agent/engine.go:31-32`).
- **Graph builder.** Any sequence of builder calls, accepted or not. Correct:
  a compiled graph routes only to its nodes or END, does not change, and its
  description says what it does.
- **Rolling deployments.** A run knows its graph by name only, and the name means
  what was registered last in the process that replays it. Correct: a replay goes
  by one version throughout, a run that met one version only is not disturbed by
  the others, and every run ends.
- **NewRunner.** Six steps that can each fail, some after the worker has started,
  in several goroutines and processes at once. Correct: a failure leaves no worker
  running and no Dapr client open, nor does Close; a success is listed, each
  process reports its usage once at most, and every call returns.
- **Registry.** Read-modify-write of a shared list by many processes, etag
  conflicts, failing stores, store errors that are taken for conflicts. Correct:
  no update is lost or duplicated, success means listed, giving up needs real
  contention.
- **Identity.** Requests that race to build the verifier, key rotation against
  a rate-limited refresh, Close against first use and against requests under way,
  endpoints that hang, callers that leave, custom verifiers that panic, redirects.
  Correct: one verifier and one refresher, no refresher after Close, a rotated key
  is picked up, a caller with a good token is never blamed, every request is
  answered unless its own fetch of the keys hangs, a token goes only where the
  request was addressed.
- **Tool loop.** One durable node that has effects half way, over workflows that
  go on when nobody waits for them any more. Correct: every conversation the
  model sees is well formed, and tools are used one at a time, in order, and only
  for calls the model made.

PROJECT.json lists the hazards with their lines, and which properties cover each.

## 2. Modules

| module | models | extends / implements |
|---|---|---|
| `AgentGraph` | channel values, AppendReducer, merge, JSON round trip, compiled graphs, Next | |
| `CompiledAgent` | the agent that is run: a graph, what its nodes may return, limits; `Advanced` is one pass of the loop | AgentGraph |
| `AgentRun` | abstract: what running a graph promises | CompiledAgent |
| `DurableRun` | `durable/dapr.go`, Invoke, Close, the sidecar | CompiledAgent, implements AgentRun |
| `Execute` | `agent/engine.go`, next to the durable loop | CompiledAgent, implements AgentRun |
| `Rollout` | `durable/dapr.go` again, with several versions of a graph and several Runners in a process | AgentGraph; a run left to one version implements AgentRun |
| `GraphBuilder` | the builder, Compile, describe | AgentGraph |
| `Registry` | Register, Deregister, updateIndex, List, Get, the store's etags | |
| `Usage` | the usage event | |
| `NewRunner` | NewRunner over the registry and the usage event, Close | composes Registry and Usage |
| `Verifier` | JWKSVerifier: cache, refresher, forced refetch, Close | |
| `Middleware` | oauthGate: serve, getVerifier, adjudicate, answers | composes with Verifier |
| `Coordinates` | BuildVerifier's search for issuer, key address, audience | |
| `Redirects` | Transport.RoundTrip along redirect chains | |
| `MCP` | DiscoverTools, callTool, the workflows in the sidecar | |
| `ToolLoop` | ToolModelNode, ModelNode, ChatModelNode | composes with MCP |
| `*_proofs` (eight) | theorems, section 5 | |
| `MC*` | constants for the model checker; `MCAgent` is the agent of the durable and the in-process runs, `MCIdentity` puts Coordinates and Redirects, which share no state, into one run | |

How state and actions correspond to the code:

- **DurableRun.** `proc` is a process's Runner (down, starting: its worker
  runs, ready: the graph is registered, closed): StartWorker is NewDaprBackend,
  RegisterGraph is backend.Register at the end of NewRunner, NewRunnerFails its
  error paths after the worker has started. `inst` is what the sidecar has recorded: input, step
  limit, activity results. `turn` holds graphWorkflow's locals while a process
  replays: BeginReplay enters it, Iterate is a pass of the loop over a recorded
  result, ScheduleNode the CallActivity without one, and the turn ends in
  MaxStepsExceeded, RoutingFailed, NodeFailed or FinishRun. `task` is the open
  activity: DispatchActivity and RunNode are executeNodeActivity, RecordResult
  and RecordFailure the sidecar's. `call` is an Invoke: ScheduleNew, AttachExisting
  (AlreadyExists), ScheduleReplyLost, WaitReturns. Crash and Close drop what the
  process holds and hand its task out again (`RequeuedTask`).
- **Execute.** `exec` holds the locals of one call and how it returned; `durable`
  moves along as graphWorkflow would with the same node outputs after JSON.
- **Rollout.** `worker` is the version each Runner was made from, `graphs` what each
  process has registered last under the name. NewRunner registers on start, and Run
  registers again on every Invoke (`durable/dapr.go:95`). `turn.cg` is the graph a
  replay looked up at its start; RunNode looks it up again for the node. A run's life is that of
  DurableRun with the details left out that do not depend on the version: lost
  replies, callers, JSON.
- **GraphBuilder.** `maps` are the builder's maps, which the compiled graph
  shares; `compiled` is what Compile copies, and a snapshot to compare with.
- **Registry.** `record`, `index` and `etag` are the store; `op` is how far each
  call is and what loadIndex gave it. ETagConflict is Set's error on a changed
  etag, StoreError any other error, before or after the write took effect, and
  Misread one whose text isETagConflict takes for a conflict. List and Get are
  single reads: `Listed` and `Found`.
- **Usage.** `reported` is the process's mark, `outbox` its goroutines that are about
  to send, `events` what was sent.
- **NewRunner.** `runner` is how far each call is, the store it chose and what it has
  open: Begin (validation, usage report, Compile), StartBackend (workflow client, then
  worker), Connect (Dapr client, metadata, choice of the store), Registering
  (Registry's steps, one store call each) and RegisterReturns, with the closes of each
  error return, and Close.
- **Verifier.** `ver` holds the mutex-guarded fields, `keys` what jwk.Cache holds,
  `refreshers` how many background refreshers run, `call` how far each Verify
  is. ReadCache and CreateCache are jwksCache's two critical sections;
  AllowForcedRefresh is allowForcedRefresh. GetKeys, Refetch and FetchFails are the
  outcomes of cache.Get and cache.Refresh, CallerLeaves the end of the caller's
  context, and `endpoint` tells whether fetches are answered, refused or left hanging;
  a call that `MayHang` is at a fetch that only its caller is sure to end. Signatures
  and claims are attributes of a token.
- **Middleware.** `gate` and `mu` are oauthGate's pointer and mutex, `req` how far
  each request is, inside Verify it is Verifier's `call`. The gate starts empty, with
  a JWKSVerifier the application supplied (OwnerCloses may close it), or with a
  `Custom` TokenVerifier, whose verdict, error or panic CustomVerify chooses.
  Disconnect is a caller that goes away. Whether coordinates can be discovered at
  the moment is `coords`.
- **Coordinates.** `answers` is what the sources asked so far said. `Resolve` is the
  rest of BuildVerifier up to checkJWKSTransport.
- **Redirects.** `chain` are the URLs of the hops, `sent` what RoundTrip put in the
  header on each, `broken` the hops whose response does not name its request.
- **MCP.** `found` are the tools discovered so far; `open`, `ended` and `effects` are
  the CallTool workflows in the sidecar. RunTool is external: it goes on whether or
  not anybody waits.
- **ToolLoop.** `msgs`, `turn` and `todo` are the loop's locals, `attempt` counts the
  executions of the node. ScheduleTool, ToolReturns, ToolFails and WaitFails are the
  two halves of runWorkflow.

## 3. Runs

Run one with `tlc -config X.cfg M`.

| run | config | question | bounds |
|---|---|---|---|
| durable | Durable.cfg | Is a durable run one run of the graph whatever happens to processes, does it end, and do its callers get its result? | two processes, one stop (crash, Close or failed NewRunner), two Invokes, one instance id, two attempts per node, limits 2 and 3 |
| durable_restart | DurableRestart.cfg | Can a restart after a crash fail a run? (yes, section 6) | one process, one crash, no Close (`KilledSpec`) |
| execute | Execute.cfg | Does Execute keep the same contract and state as the durable loop? | limits 1, 2, 4 and the default 6; nodes also write a []string |
| graph_builder | GraphBuilder.cfg | Is every graph that Compile accepts well formed, and is its description right? | five builder calls before Compile, two names and the reserved ones |
| graph_builder_reuse | GraphBuilderReuse.cfg | Is a compiled graph immutable? (no) | four calls |
| new_runner | NewRunner.cfg | Do NewRunner calls that fail and Close leave no worker or Dapr client behind, and is every successful call listed once? | two NewRunners of one agent in a process and one in another whose graph does not compile, a removal, two attempts, store errors, misread errors |
| registry_first | RegistryFirst.cfg | Is a success listed also when the team has no index yet? (no) | two calls |
| rollout | Rollout.cfg | What may a run suffer from other versions of its graph? | three versions, three Runners in two processes, one stop, limit 4, two attempts |
| verifier | Verifier.cfg | Are refreshers, Close, rotation, rate limit and verdicts right under concurrency? | two goroutines, two keys, interval of two ticks, six tokens, an endpoint that answers, refuses or hangs |
| middleware | Middleware.cfg | Do requests share one verifier and get fitting answers, all but those whose fetch hangs? | two goroutines that serve request after request, three tokens and none, one supplied verifier |
| identity | Identity.cfg | Whose keys does a token get checked against, and where does a token go? | all configurations over two issuers, all answers of three sources; four hops, walk of three (64 in the code, `identity/http.go:22`), two hosts, three ports and none |
| tool_loop | ToolLoop.cfg | Is the conversation well formed, and what do attempts leave behind? | two servers with a tool of the same name, two attempts, two turns, two calls per reply |

What makes the bounds enough:

- *durable*: the agent of MCAgent loops, appends to a reduced channel, and
  routes to END, back, or to no node at all; with limits of 2 and 3 each of
  these happens, at the limit and before it, and so does the limit with a node
  still to run. One stop per history
  is enough for a crash at every point of a run, with the other process or the
  same one, restarted, going on. The safety properties do not depend on these
  bounds: section 5 proves them for any number of everything. Two callers are
  needed to attach, since a call schedules once. One id is enough, because runs
  share nothing but the processes.
- *execute*: `act` may return nothing, an element, a list or a typed list, so the
  reducer meets each kind of value on top of each other one. Calls of Execute
  share no state, so one is enough.
- *graph_builder*: five calls suffice for two nodes, both kinds of edge between
  them and one call that is refused.
- *new_runner*: three calls of Registry's that can conflict against two attempts,
  so that a writer can lose every attempt, and a loser can still fail for other
  reasons; the framework's name crosses the cap inside a rune; the two processes
  differ in opt-out.
- *rollout*: the three versions differ in a node, an edge, a router, a reducer and
  the entry. Two Runners of different versions in one process register over each
  other with every Invoke; the third Runner can be of any version, and again of
  another after the stop. v2 loops until its trail is long enough, and forever over
  a trail that v1 began, so mixed runs meet the limit too.
- *verifier*: two goroutines race for the cache, for the forced refetch and
  against Close; one that always asks for a key nobody has can spend the rate
  limit of the other. Two ticks make an interval that passes partly.
- *middleware*: the race for the pointer is between two; a request that arrives
  later takes the fast path. Each goroutine serves on forever, so "later" occurs.
- *identity*: one hop more than the walk back, so that both sides of that limit
  occur, and a detour with a return fits in.
- *tool_loop*: two calls per reply, so that the first is done when the second fails;
  two attempts, so that workflows of the first are under way during the second.

The durable, rollout, new_runner, verifier and middleware runs use specifications
with fairness, so they check liveness on the same states as safety. Only the identity run
uses symmetry, and it checks no liveness.

### What the properties say

Each is stated in natural language above its definition. The main ones:

- *Durable run*: `CheckpointsChain` (recorded results form one path, each merged
  once), `ReplayMatches` (a replay anywhere is on that path), `ResumesAtFrontier`
  (only the node after the last result is handed out, with its state),
  `OneDriver` (exactly one thing drives a run until it ends), `ExecutionBudget`
  (extra executions of a node are paid for by stops), `EndJustified`,
  `AnswerIsFinal`, `ImplementsAgentRun`, `RunsTerminate`, `CallsReturn`.
- *Execute*: `SameAsDurable`, `ImplementsAgentRun`.
- *Rollout*: `OneVersionPerReplay` (a replay and an answer are one version's, over
  recorded results that may be several versions'), `AloneIsUndisturbed`,
  `RunsTerminate`.
- *Builder*: `CompiledWellFormed` is what the run modules assume of a graph
  (`GraphAssumption`), so the two halves fit; `DescriptionMatchesRouting`.
- *NewRunner and Registry*: `IndexMutationsSerialized`, `NoDuplicates`,
  `SuccessIsVisible`, `ConflictsArePaidFor` (attempts are bounded by other calls'
  writes and misread errors); `OnlyWorkflowClientLeft` (no worker and no Dapr client
  outlives a failed NewRunner or Close), `UsageReportedOnce`, `NewRunnerReturns`.
- *Verifier*: `NoStrayRefresher`, `ClosedFailsClosed`, `TokenFaultsOnly`,
  `ForcedRefreshesSpaced`, `RotationPickedUp`.
- *Middleware*: `OneVerifier`, `NotConfiguredIsCurrent`, `AnswersFit`,
  `RequestsAnswered`.
- *Coordinates, Redirects*: `KeysBelongToIssuer`, `FirstAnswerWins`;
  `TokenStaysHome`, `StaysIdentified`.
- *ToolLoop*: `WellFormedConversation`, `UsedInOrder` (a call is scheduled only when
  every earlier call of its attempt has ended well), `EffectsAreCalled`.

Type invariants are proved where a module has proofs (section 5).

For every property of a passing run PROJECT.json names a mutant: a definition
changed as a plausible bug would change it, with which TLC finds the property
violated. The faulty variants stand before the definitions they replace.

## 4. Fairness

- *Durable*: weak fairness of StartWorker, RegisterGraph and Exit per process (a
  platform restarts what is down, and NewRunner does not hang); of RunStep per
  run (the sidecar hands out a task that some live worker can take, node
  functions return, answers arrive); of WaitReturns per call. Nothing is assumed
  of crashes, whose number is bounded, of callers, or of who gets a task. Which
  process takes a task is not fair, and need not be.
- *Rollout*: Runners are made again (weak fairness of NewRunner per Runner, in
  whatever version it is built), and RunStep per run as in DurableRun. Stops are bounded.
- *NewRunner*: weak fairness of all calls together. That is the weakest useful
  assumption: as long as some call can go on, some call does. It suffices because
  no call waits for another one and retries are bounded. Nothing is assumed of the
  goroutine that sends the usage event.
- *Verifier*: VerifyStep is weakly fair for each goroutine while it may not hang:
  jwksCache's sections, allowForcedRefresh, and `cache.Get` and `cache.Refresh` while
  the endpoint answers or refuses. While it hangs, or after Close has cancelled the
  cache under them, these two are not fair: they run on the caller's context and have
  no timeout (`identity/verifier.go:182`, `238`). Callers take results (Take) and time passes
  (Tick), both weakly fair. Rotation, changes of the endpoint, Close, new calls,
  callers that leave and the background refresher are not fair: `RotationPickedUp`
  says in its hypotheses under which conditions a key is picked up, namely that from
  some time on it is published, the endpoint answers, the verifier is open and callers
  do not leave while their fetch is under way, and that the key is asked for again
  and again.
- *Middleware*: serve goes on (weak fairness of ServeStep): a build ends, since
  verifierBuildTimeout bounds its context (`identity/middleware.go:210`), and custom
  verifiers return or panic. Lock is strongly fair, since sync.Mutex hands the lock to
  a waiter that has waited for a millisecond. VerifyStep is fair as above, so a
  request whose own fetch hangs need not be answered, and `RequestsAnswered` leaves
  out just that: a request that is never answered is at such a fetch again and again.
  Nothing is assumed of Disconnect, Close, new requests or the coordinates.

## 5. Proofs

`tlapm <module>_proofs.tla` checks a module's proofs.

| module | theorems | assuming |
|---|---|---|
| `DurableRun_proofs` | `Invariance` (`Spec => []IInv`), `TypeCorrect`, `Chain` (`CheckpointsChain`), `Replay` (`ReplayMatches`), `Recovery` (`ResumesAtFrontier`), `Scheduling` (`OneDriver`), `Budget` (`ExecutionBudget`), `Endings` (`EndJustified`), `Answers` (`AnswerIsFinal`), `DurableRefines` (`ImplementsAgentRun`) | `JsonNativeOutputs` for `DurableRefines` |
| `Execute_proofs` | `ExecuteRefines` (`ImplementsAgentRun`), `SameRun` (`SameAsDurable`) | |
| `Rollout_proofs` | `OneVersion` (`OneVersionPerReplay`), `Undisturbed` (`AloneIsUndisturbed`), `LoneRunRefines` (a run left to one version keeps AgentRun's `RunSpec`) | |
| `GraphBuilder_proofs` | `BuilderTypes`, `Validated` (`CompiledWellFormed`), `Described` (`DescriptionMatchesRouting`), `LeftAlone` (`CompiledImmutable`) | `~ReuseBuilder`, except `BuilderTypes` |
| `NewRunner_proofs` | of Registry: `RegistryTypes`, `ListedOnce` (`NoDuplicates`), `ConflictsPaid` (`ConflictsArePaidFor`), `Serialized` (`IndexMutationsSerialized`), `Succeeded` (`SuccessIsVisible`); of NewRunner: `UsesTheRegistry` (`NewRunnerSpec => RegistrySpec`), `RunnersListedOnce`, `RunnersSerialized`, `WorkerAndClientClosed` (`OnlyWorkflowClientLeft`), `ReportsOnce` (`UsageReportedOnce`), `CutBetweenRunes` | `IndexExists` for `Serialized`, `Succeeded`, `RunnersSerialized` |
| `Identity_proofs` | of Verifier: `VerifierTypes`, `OneRefresher` (`NoStrayRefresher`), `FailsClosed` (`ClosedFailsClosed`), `Blame` (`TokenFaultsOnly`), `Spaced` (`ForcedRefreshesSpaced`); of Middleware: `OneForAll` (`OneVerifier`), `RefusalsAreCurrent` (`NotConfiguredIsCurrent`), `FittingAnswers` (`AnswersFit`), `UnderTheGate` and `SpacedUnderTheGate` (Verifier's properties, of `GateSpec`); of Coordinates: `OwnKeys` (`KeysBelongToIssuer`), `OrderedSearch` (`FirstAnswerWins`); of Redirects: `NoTokenAbroad` (`TokenStaysHome`), `IdentityKept` (`StaysIdentified`) | |
| `ToolLoop_proofs` | `Conversation` (`WellFormedConversation`), `OneAtATime` (`UsedInOrder`), `OnlyWhatWasAsked` (`EffectsAreCalled`) | |
| `AgentGraph_proofs` | lemmas: merging states gives a state, the JSON round trip does, Next gives a target or the routing error | |

They hold for every value of the constants that satisfies the named assumptions of
the modules, which TLC evaluates in the runs, and what the last column adds.

*Durable run.* Any number of processes, calls, runs, attempts and stops, every
graph that satisfies `GraphAssumption` (it is well formed, as Compile ensures:
`Validated`; END and the routing error are not nodes), every node
outputs, inputs and limits that satisfy `AgentAssumption` (states; the default
limit is positive), and `DurableAssumption` (no id is the empty one, at least one
attempt). The inductive invariant `IInv` is `TypeOK`, six properties of each run,
`CallsKnown` and `AnswerIsFinal`. None of the six is inductive alone. A replay stays on the
recorded positions because these chain, so `ReplayMatches` needs
`CheckpointsChain`; the task it hands out is the frontier's because the replay
has come to its end there; the result that is recorded extends the chain because
the task was at the frontier and had the frontier's state; and this is still so
when it arrives because nothing else drives the run meanwhile (`OneDriver`).
`EndJustified` reads where the turn was when it ended the run, and
`AnswerIsFinal` what WaitReturns found, for which a waiting caller's run must
exist (`CallsKnown`).

*Refinement.* A run is mapped to its frontier: RecordResult is AgentRun's Advance,
the ways a run fails its Fail, FinishRun its Complete, ScheduleNew (or its reply
lost) its Start, and everything else stutters. A second invariant, `OutputsKnown`,
says that what an activity answers with is an output of its node. The theorem
needs `JsonNativeOutputs`, because AgentRun merges the nodes' own values and the
durable run what JSON made of them; without it the statement is false, for the reason
given in section 6.

*Execute.* `EInv` says that a call that was given JSON values only (`native`) is at
the position of the durable loop that moves along with it (`InStep`), and nothing
about the others. That Execute implements AgentRun needs no `JsonNativeOutputs`,
since both merge what the nodes return; the proof goes through `Advanced`, the
pass of the loop that the three modules share.

*Rollout.* `Fold` is a recursive function of the number of results gone through. A
further result does not change the positions before it (`CourseAppend`), so what
was true of a replay at a step stays true while other versions register and
record. `RInv` says of each run that a replay stands where the version it looked up
comes to over the recorded results, through nodes of that version (`OnCourse`); that an
activity and a replay exclude each other, and an ended run has neither
(`Scheduled`); that a completed run's output is some version's at its END
(`Concluded`); and that a run only one version touched has that version's results and
failures, and, if a node is to run, the one that version has come to (`Alone`).
`LoneRunRefines` speaks of any run i and version v: as long as nothing but v touches
i (`[](touched[i] \subseteq {v})`), i is a run of AgentRun over v's graph, with
what v's nodes write as their outputs, whatever happens beside it. The run is
mapped to where v comes to over its results, RunNode is AgentRun's Advance, Invoke
its Start, and the ways a replay ends its Complete and Fail. Advance is
within the limit because a node is only handed out within it (`Affordable`). The
hypothesis holds of the behaviours with one version, but not of all, so no run
checks the refinement; what it says of each state is `AloneIsUndisturbed`'s.

*Builder.* `BInv` says that a node has one kind of edge, and, once compiled, that what
Compile checked, copied and described is still what the maps say. The second part
is preserved only while the builder is left alone, hence `~ReuseBuilder`: the run
graph_builder_reuse shows `LeftAlone` false without it. `Described`
rests on a lemma about `Describe` that holds of any graph. `TInv`, behind
`BuilderTypes`, does without the assumption.

*Registry.* `RegInv` adds to the type invariant that neither the index nor a list
a call holds names an agent twice (`NoRepetitions`), and that each further attempt
of a call is paid for by another call that has finished or by a misread error, and
so is the conflict it is about to have (`Paid`). `DirInv` says that a list a call
has read under the current etag is the index (`Fresh`), and that a call without
rivals finds in record, list and index what it left there (`Visible`). Only `Fresh`
needs `IndexExists`: without an index document the first write compares no
etag, which registry_first shows.

*NewRunner.* Each of its steps is a step of Registry's or leaves the directory alone
(`RegistrySteps`), so the theorems about Registry hold of it. `RunnersRight` says
what each Runner has open at each step of its life (`MayHave`), and that one that was
returned has its registration behind it. `UsageRight` says that what a process
has sent and has under way is one report together, and none before its mark is
set or where its user opted out. `CutBetweenRunes` compares cleanDimension's loop over
bytes with a definition over runes, `WholeRunes`, for names of any length: with each
rune the bytes of the shorter fronts stay what they are, and the ends of runes are
where their widths say (`Grown`), so the loop stops at the end of the longest front
that fits.

*Verifier.* `VInv` says of each verifier that it has one refresher exactly while it
has a cache and no cache once closed, and that the rate limit's clock is the time
since the last forced refetch; and of each call that it has passed the checks its
position implies, and that one that began after Close is before its first look
at the verifier or has ended as `ClosedFailsClosed` says. CreateCache and Close each
keep it because each is one critical section.

*Middleware.* `GInv` puts `VInv` under the gate, for any number of concurrent
requests, verifiers and scopes. `Pointer` says that the only verifier there is is
the gate's; `Mutex` that at most one request builds, and that there is no verifier
meanwhile, which is why the build is the first; `Reqs` relates each request to its
Verify call: the call has the request's token and began after Close if the request
did, so `VInv` tells what it may end with, and a request that still waits for a
verifier while the coordinates are missing knows it. `AnswersFit` then needs that
extractScopes grants what the first spelling with scopes says (`ScopesRight`), for
which MiddlewareAssumption asks that the spellings are tried in a fixed order, as
scopeClaims is a list. `UnderTheGate` and `SpacedUnderTheGate` say that the gate
spoils none of what a verifier promises by itself: each of its steps is one of
Verifier's, the start of a call, or leaves the verifiers alone.

*Coordinates and Redirects.* `CInv` adds to the properties that what was found is
what the last source asked said, which named an issuer, and that the ones before
did not. `RInv` says that what was sent on each hop is what RoundTrip computes from
the hops before it; the theorems follow from what `Attached` requires, for chains of any length.

*Tool loop.* `LInv` speaks of the conversation of the attempt at hand and of the
workflows in the sidecar, of any number of servers, tools, turns, attempts and calls
per reply. While the model is asked, each reply is answered (`Settled`); while
tools are used, each but the last is, and the last up to the calls still to do
(`Unsettled`). `Accounted` ties the two: every workflow of the attempt has ended
well and its result is in the conversation (`Passed`), except the one waited for,
and there are as many as results. From this follows that a workflow before
another one has ended well, which `UsedInOrder` then keeps for attempts that are
over, and, at the output, that there are as many workflows as calls. Nothing is assumed
of workflows of earlier attempts, which go on and have effects meanwhile.

Induction over natural numbers is done with sets: a nonempty set of numbers has a
least element (WFMin of WellFoundedInduction and the order of Nat), which
gives the equation of a recursive function (`Course`, `FlattenSeq`) at every
number and properties of its values.

Only model-checked: liveness, under fairness, which TLAPS does not prove:
`RunsTerminate`, `CallsReturn`, `NewRunnerReturns`, `RotationPickedUp`,
`RequestsAnswered`.

## 6. Where code and documentation differ

Three runs end in a violation, each of one statement that a document makes:

- **A restart can fail the run it should resume** (`durable_restart`,
  `NoSpuriousFailure`). NewRunner starts the worker before it registers the
  graph; a workflow task that arrives in between finds no graph and the run
  fails for good (`runner.go:120`, `runner.go:174`, `durable/dapr.go:154-157`),
  against "picks the workflow back up where it left off" (`README.md:63-64`). In the
  trace a process schedules a run, crashes, and is handed the run's task when its new
  worker has started and the graph is not registered yet.
- **A compiled graph is not immutable** (`graph_builder_reuse`,
  `CompiledImmutable`). Compile shares the builder's maps
  (`agent/graph.go:155-163`), against `agent/graph.go:120`.
- **The first two agents of a team can overwrite each other's index entry**
  (`registry_first`, `SuccessIsVisible`). Without an index the etag is empty and
  the write unconditional (`registry/registry.go:154`, `registry/daprstore.go:38`),
  against "first-write-only" (`registry/store.go:14-15`).

These are in the models as the code has them, or limit what is claimed:

- AppendReducer flattens only []any (`agent/state.go:63-72`). A node that returns a
  []string for a reduced channel adds one element in process, and its elements
  after JSON. `SameAsDurable` therefore speaks of runs that were given JSON
  values only; without that condition the `execute` run refutes it.
- Register and Deregister are two store calls each (`registry/registry.go:67-71`,
  `84-87`). At the same time for one agent they may leave a record that is not
  listed or a listed agent without a record, both returning nil. `SuccessIsVisible`
  leaves out agents with such opposite calls.
- BuildVerifier starts discovery only when issuer or key address is unset
  (`identity/verifier.go:426`). An audience left unset beside both stays unset and
  is not checked, although `identity/verifier.go:410-412` and `identity/identity.go:53`
  promise discovery for it.
- A run is tied to a graph's name, not to its version (`durable/dapr.go:150-157`).
  When a new version goes on with an old run, or two Runners of one process use one
  name, results of both versions are folded in one run: `OneVersionPerReplay` says
  what still holds then.
  `registry.BuildWorkflowName` maps "my-agent", "my_agent" and "My Agent" to
  one workflow name (`registry/metadata.go:111`), so that workers of one such agent
  are handed runs of another and look for a graph they may not have.
- An agent named `_index` has the key of its team's index document, and a colon in
  team or agent name can make two keys equal (`registry/registry.go:32-38`). The
  models abstract keys to agent names and so exclude this.
- An error of GetMetadata is dropped (`runner.go:130`): NewRunner then registers in
  `kvstore` although the sidecar may have `agent-registry`. NewRunner models this;
  no property promises otherwise.
- Nothing closes the workflow client that NewDaprBackend makes (`durable/dapr.go:67`):
  not NewDaprBackend when StartWorker fails (`72-75`), not DaprBackend.Close, which
  only cancels the worker's context (`86-91`), and so neither NewRunner's error
  returns nor Runner.Close. A program that makes and closes Runners over and over
  keeps what each of these clients holds. `OnlyWorkflowClientLeft` says that this is
  all it keeps.
- "A closed verifier fails every subsequent Verify with ErrVerifierNotReady"
  (`identity/verifier.go:151-152`), but Verify looks at the token's header before it
  asks for keys (`265-280`): on a closed verifier, too, a malformed token is answered
  with decode_error and one with an algorithm that is not allowed with invalid_token,
  neither of which is ErrVerifierNotReady. `ClosedFailsClosed` says exactly that, and
  not-ready for all other tokens.
- Verify has no timeout of its own. `cache.Get` and `cache.Refresh`
  (`identity/verifier.go:182`, `238`) run on the request's context, and only the build
  of a verifier is bounded (`identity/middleware.go:210`). While the endpoint accepts
  fetches and does not answer, a caller that does not leave waits, behind Middleware
  too. `RequestsAnswered` does not hold without the exception for such requests.
- Of two MCP tools with one name the model sees both and calls reach the later one
  (`adapters/langchaingo/tools.go:37`). `EffectsAreCalled` can only ask for a server
  that offers a tool of that name.

## 7. Assumptions and limits

The models rely on this about code outside the repository:

- *Dapr sidecar and SDK*: recorded results are durable; one task of a run is with
  one process at a time and is handed out again when that process stops; the
  replay of a workflow gets the recorded results in order; scheduling an id that
  exists answers AlreadyExists, whatever state that run is in; retries are
  counted by the engine and survive restarts. The retry delay is not modelled.
- *Node functions* may return any of their outputs or an error whatever the state
  is, which includes every deterministic function. They do not change the maps
  they are given.
- *State store*: a Set with an etag compares and writes in one step.
- *jwk.Cache*: the first Get fetches; Refresh refetches; a failed fetch keeps the
  old set; cancelling its own context stops the refresher, and a call to
  it that is under way then may succeed, fail or hang; when the context of the caller
  ends, its wait ends. While the endpoint hangs, Get too may wait for the fetch of
  another call. That Register itself fails is not modelled.
- *Dapr clients*: NewWorkflowClient, StartWorker and NewClient open something or fail;
  whether the SDK lets the two clients share a connection is not modelled.
- *net/http*: as the head of Redirects says.
- *MCP workflows*: a scheduled CallTool workflow runs to its end; a tool that failed
  may have had its effect.
- *Custom TokenVerifiers* fail closed: they know good tokens from bad ones, and
  otherwise do what they like, panics included.

Abstracted: channel values to unset, nil, one element, list and typed list; a
router to a function of the state; a key to its kid; URLs to what the code
compares; record contents, names, error texts and messages left out. In Rollout a
Runner that was closed is not used again, nodes do not fail by themselves, and
whether the engine notices that a replay calls another activity than was recorded
is left open (EngineRefuses).

Not modelled: metadata records and ToState/Into, which are conversions without
state; OnStep, which only reports; the fields of VerifiedUser and the context that
carries it; the further dimensions of the usage URL; the examples.

## 8. Plan

Done: the durable run with its contract, its refinement and proofs, rolling
deployments, Execute, the builder, NewRunner over Registry and the usage event,
identity with supplied and custom verifiers, the tool loop over MCP; proofs of
every safety property that a run checks, and that Execute, DurableRun and each
undisturbed run of Rollout implement AgentRun. Next:

1. *Registry*: keys as the code builds them, for the collisions of section 6.
