----------------------------------- MODULE MCP -----------------------------------
(***************************************************************************)
(* mcp/mcp.go: the tools of MCP servers, discovered from the sidecar and   *)
(* called as durable workflows of it.                                      *)
(*                                                                         *)
(* External: the sidecar.  Each of a server's tools is a workflow; once    *)
(* scheduled it runs to its end whether or not anybody still waits, so a   *)
(* call whose caller left, or whose schedule reply was lost, takes effect  *)
(* later.  Arguments and texts are left out.                               *)
(***************************************************************************)
EXTENDS Naturals, SequencesExt

CONSTANTS
  Server,   \* MCP servers
  Loaded,   \* the servers in the sidecar, in the order of its metadata
  Offers    \* server -> the names of its tools, in the order it lists them

ASSUME MCPAssumption == Loaded \in Seq(Server)

VARIABLES
  found,    \* DiscoverTools: none, the tools found so far, or all of them
  open,     \* CallTool workflows that have been scheduled and have not ended
  ended,    \* CallTool workflows that ended -> how
  effects   \* history: those that took effect

mcpvars == <<found, open, ended, effects>>
runs    == <<open, ended, effects>>

Undiscovered == [asked |-> 0, tools |-> <<>>, done |-> FALSE]

MCPInit == found = Undiscovered /\ open = {} /\ ended = <<>> /\ effects = {}

-----------------------------------------------------------------------------
(* DiscoverTools *)

\* The tools of one server, each to be called at that server.
ToolsOf(s) == [k \in DOMAIN Offers[s] |-> [server |-> s, name |-> Offers[s][k]]]

\* discoverServers and the ListTools workflow of one server after the other.
ListTools ==
  /\ ~found.done
  /\ found.asked < Len(Loaded)
  /\ found' = [found EXCEPT !.asked = @ + 1,
                            !.tools = @ \o ToolsOf(Loaded[found.asked + 1])]
  /\ UNCHANGED runs

Discovered ==
  /\ ~found.done
  /\ found.asked = Len(Loaded)
  /\ found' = [found EXCEPT !.done = TRUE]
  /\ UNCHANGED runs

\* The metadata or one server fails: no tools at all.  The application may try
\* again.
DiscoveryFails ==
  /\ ~found.done
  /\ found' = Undiscovered
  /\ UNCHANGED runs

Discover == ListTools \/ Discovered \/ DiscoveryFails

-----------------------------------------------------------------------------
(* callTool and runWorkflow *)

\* ScheduleWorkflow reached the sidecar.
Scheduled(wf) == open' = open \cup {wf} /\ UNCHANGED <<found, ended, effects>>

\* The workflow runs.  It ends with a text, or with an error: a tool that says
\* IsError, a status other than completed, an output that does not decode.  A
\* tool that failed may have had its effect.
RunTool(wf) ==
  /\ wf \in open
  /\ open' = open \ {wf}
  /\ \E how \in {"text", "error"} :
       /\ ended' = [x \in DOMAIN ended \cup {wf} |->
                      IF x = wf THEN how ELSE ended[x]]
       /\ \/ effects' = effects \cup {wf}
          \/ how = "error" /\ UNCHANGED effects
  /\ UNCHANGED found

\* WaitForWorkflowCompletion, and what callTool makes of the result.
Ended(wf)        == wf \in DOMAIN ended
Succeeded(wf)    == Ended(wf) /\ ended[wf] = "text"
ErrorIgnored(wf) == Ended(wf)                       \* faulty variant
CallText(wf)     == Succeeded(wf)
CallError(wf)    == Ended(wf) /\ ~CallText(wf)
=============================================================================
