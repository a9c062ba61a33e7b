------------------------------- MODULE NewRunner -------------------------------
(***************************************************************************)
(* runner.go: NewRunner, over the agent registry and the usage report it   *)
(* calls, and Close.  Several NewRunner calls, in one process or in many,  *)
(* run at the same time, next to calls of Deregister.                      *)
(*                                                                         *)
(* Of the worker and the connections it is told whether they are open;     *)
(* what the worker does, and what Close means to runs under way, is        *)
(* DurableRun's matter.  Registry has the directory in one state store; a  *)
(* Runner that resolves to another store registers there by itself.        *)
(***************************************************************************)
EXTENDS Registry, Usage

CONSTANTS
  Config,      \* Runner -> its Config, see ConfigType
  ProcessOf,   \* Runner -> the process that makes it
  TheStore,    \* the state store that Registry models
  Fallback,    \* "kvstore"
  EnvStore,    \* GOAI_REGISTRY_STORE, Unset without it
  InSidecar,   \* the state stores the sidecar has
  Unset

AgentRegistry == "agent-registry"
Store         == {TheStore, Fallback, AgentRegistry}

Runner == {o \in Op : Registers(o)}

\* fault: a required field is missing, or the graph does not compile.
ConfigType == [fault : {"none", "field", "graph"}, framework : Seq(1..4),
               store : Store \cup {Unset}]

ASSUME NewRunnerAssumption ==
  /\ Config \in [Runner -> ConfigType]
  /\ ProcessOf \in [Runner -> Process]
  /\ EnvStore \in Store \cup {Unset}
  /\ InSidecar \subseteq Store

VARIABLE
  runner   \* Runner -> how far it is, the store it chose, what it has open

nvars == <<rvars, uvars, runner>>

\* What a Runner acquires: the DaprBackend's workflow client and the worker it
\* starts on it, and the Dapr client.
Opening == {"workflow client", "worker", "client"}

\* start: not called.  Between backend and ready NewRunner is under way.
RunnerState ==
  [pc : {"start", "backend", "client", "register", "ready", "failed", "closed"},
   store : Store \cup {Unset}, open : SUBSET Opening]

NewRunnerInit ==
  /\ RegistryInit
  /\ UsageInit
  /\ runner = [r \in Runner |-> [pc |-> "start", store |-> Unset, open |-> {}]]

-----------------------------------------------------------------------------
At(r, pc) == runner[r].pc = pc
Goto(r, pc) == runner' = [runner EXCEPT ![r].pc = pc]

Opened(r, what, pc) ==
  runner' = [runner EXCEPT ![r].pc = pc, ![r].open = @ \cup what]

Ends(r, pc, closes) ==
  runner' = [runner EXCEPT ![r].pc = pc, ![r].open = @ \ closes]

\* An error return; what is closed on the way is told by the code, step by step.
Fails(r, closes) == Ends(r, "failed", closes)

\* Validation, the usage report, Compile.  A report is made for a graph that
\* does not compile, too.
Begin(r) ==
  /\ At(r, "start")
  /\ IF Config[r].fault = "field" THEN UNCHANGED uvars
     ELSE ReportUsage(ProcessOf[r], Config[r].framework)
  /\ IF Config[r].fault = "none" THEN Goto(r, "backend") ELSE Fails(r, {})
  /\ UNCHANGED rvars

\* NewDaprBackend: there is no workflow client, or the worker does not start and its
\* context is cancelled, or it does.  Nothing closes the workflow client.
StartBackend(r) ==
  /\ At(r, "backend")
  /\ \/ Fails(r, {})
     \/ Opened(r, {"workflow client"}, "failed")
     \/ Opened(r, {"workflow client", "worker"}, "client")
  /\ UNCHANGED <<rvars, uvars>>

\* Config, then the environment, then agent-registry if the sidecar has it.  An
\* error of GetMetadata is dropped: nothing is known of the sidecar then.
DiscoverRegistryStore(components) ==
  IF AgentRegistry \in components THEN AgentRegistry ELSE Fallback

RegStore(r, components) ==
  IF Config[r].store # Unset THEN Config[r].store
  ELSE IF EnvStore # Unset THEN EnvStore
  ELSE DiscoverRegistryStore(components)

\* NewClient and GetMetadata.
Connect(r) ==
  /\ At(r, "client")
  /\ \/ Fails(r, {"worker"})
     \/ \E components \in {InSidecar, {}} :
          runner' = [runner EXCEPT ![r] =
            [pc |-> "register", store |-> RegStore(r, components),
             open |-> @.open \cup {"client"}]]
  /\ UNCHANGED <<rvars, uvars>>

\* Register, one store call after the other.
Registering(r) ==
  /\ At(r, "register") /\ runner[r].store = TheStore
  /\ OpStep(r) \/ Misread(r) \/ StoreError(r)
  /\ UNCHANGED <<uvars, runner>>

\* What a Register that failed leaves to close, and Close closes.  After one that did
\* not fail, backend.Register makes the graph known and NewRunner returns.
WorkerForgotten == {"client"}                       \* faulty variant
BothClosed      == {"worker", "client"}

RegisterReturns(r) ==
  /\ At(r, "register")
  /\ \/ runner[r].store = TheStore /\ op[r].pc = "ok" /\ Goto(r, "ready")
     \/ runner[r].store = TheStore /\ op[r].pc = "failed" /\ Fails(r, BothClosed)
     \/ runner[r].store # TheStore /\ (Goto(r, "ready") \/ Fails(r, BothClosed))
  /\ UNCHANGED <<rvars, uvars>>

\* Runner.Close cancels the worker and closes the Dapr client.  The agent stays
\* listed.
Close(r) ==
  /\ At(r, "ready")
  /\ Ends(r, "closed", BothClosed)
  /\ UNCHANGED <<rvars, uvars>>

RunnerStep(r) ==
  \/ Begin(r) \/ StartBackend(r) \/ Connect(r) \/ Registering(r)
  \/ RegisterReturns(r)

Deregistering(o) ==
  /\ ~Registers(o)
  /\ OpStep(o) \/ Misread(o) \/ StoreError(o)
  /\ UNCHANGED <<uvars, runner>>

CallsStep == \/ \E r \in Runner : RunnerStep(r)
             \/ \E o \in Op : Deregistering(o)

NewRunnerNext ==
  \/ CallsStep
  \/ \E r \in Runner : Close(r)
  \/ \E p \in Process : SendUsageEvent(p) /\ UNCHANGED <<rvars, runner>>

NewRunnerSpec == NewRunnerInit /\ [][NewRunnerNext]_nvars

\* As long as any call can go on, some call does: no call ever waits for another.
\* Nothing is assumed of the goroutine that sends the event, nor that anybody closes
\* a Runner.
FairNewRunnerSpec == NewRunnerSpec /\ WF_nvars(CallsStep)

-----------------------------------------------------------------------------
(* Properties *)

\* A NewRunner that returns an error, or a Runner that was closed, has no worker left
\* that takes tasks, of a graph nobody registered at that, and no Dapr client: at
\* most the workflow client is still open, which nothing in the code ever closes.  A
\* Runner in use has all three, and was listed by its registry when it was returned.
OnlyWorkflowClientLeft ==
  \A r \in Runner :
    /\ At(r, "failed") => runner[r].open \subseteq {"workflow client"}
    /\ At(r, "closed") => runner[r].open = {"workflow client"}
    /\ At(r, "ready") => runner[r].open = Opening
    /\ runner[r].pc \in {"ready", "closed"} /\ runner[r].store = TheStore
         => op[r].pc = "ok"

UsageReportedOnce == ReportedOnce({Config[r].framework : r \in Runner})

\* Every NewRunner returns, and every Deregister: neither conflicts nor errors
\* taken for conflicts keep one trying, and no usage event keeps one waiting.
NewRunnerReturns ==
  <>(/\ \A r \in Runner : runner[r].pc \in {"ready", "failed", "closed"}
     /\ \A o \in Op \ Runner : Done(o))
=============================================================================
