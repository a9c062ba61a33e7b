------------------------------- MODULE MCAgent -------------------------------
(***************************************************************************)
(* A small agent for the model checker: `plan` writes a draft, `act`       *)
(* appends to the message history, and a router sends `act` back to `plan` *)
(* until the history is long enough.  It names a key that the mapping does *)
(* not have when the history is two times m2.                              *)
(***************************************************************************)
EXTENDS Integers, Sequences

CONSTANTS plan, act, m1, m2, END, RouteError, Channel, Scalar, RouterFunc(_, _)

D == INSTANCE AgentGraph

MCRouterFunc(router, state) ==
  LET h == state["history"].items
  IN  IF Len(h) < 2 THEN "again"
      ELSE IF h = <<m2, m2>> THEN "lost" ELSE "done"

MCGraph ==
  [nodes    |-> {plan, act},
   entry    |-> plan,
   edges    |-> [n \in {plan} |-> act],
   conds    |-> [n \in {act} |->
                  [router  |-> "loop",
                   mapping |-> [key \in {"again", "done"} |->
                                  IF key = "again" THEN plan ELSE END]]],
   reducers |-> {"history"}]

On(ch, v) == [D!EmptyState EXCEPT ![ch] = v]

MCNodeOutputs ==
  [n \in {plan, act} |->
     IF n = plan THEN {On("draft", D!ScalarOf(m1))}
     ELSE {On("history", D!ScalarOf(m1)), On("history", D!AnyList(<<m2>>))}]

\* The same agent, whose `act` may also write nothing, or a []string.
TypedNodeOutputs ==
  [MCNodeOutputs EXCEPT ![act] =
     @ \cup {D!EmptyState, On("history", D!TypedList(<<m1>>))}]

MCInputs == {D!EmptyState, On("history", D!AnyList(<<m2>>))}
=============================================================================
