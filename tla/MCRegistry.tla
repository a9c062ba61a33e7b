------------------------------ MODULE MCRegistry ------------------------------
(* Constants for the model checking of Registry in a new team. *)
EXTENDS Registry

CONSTANTS a, b, x, y

\* Two agents start for the first time.
FirstAgents ==
  [o \in {x, y} |-> [kind |-> "register", name |-> IF o = x THEN a ELSE b]]
NoIndex == <<>>
=============================================================================
