------------------------------ MODULE MCExecute ------------------------------
(* Constants for the model checking of Execute. *)
EXTENDS Execute

CONSTANTS plan, act, m1, m2

A == INSTANCE MCAgent

MCRouterFunc(router, state) == A!MCRouterFunc(router, state)
MCGraph == A!MCGraph
MCNodeOutputs == A!TypedNodeOutputs
MCInputs == A!MCInputs
MCChannel == {"history", "draft"}
MCScalar == {m1, m2}
=============================================================================
