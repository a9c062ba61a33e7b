---------------------------- MODULE MCGraphBuilder ----------------------------
(* Constants for the model checking of GraphBuilder. *)
EXTENDS GraphBuilder

CONSTANTS a, b

MCMappings ==
  {<<>>} \cup [{"k"} -> {a, END, EmptyName}]
         \cup {[key \in {"k", "l"} |-> IF key = "k" THEN b ELSE END]}

MCRouterFunc(router, state) == "k"
=============================================================================
