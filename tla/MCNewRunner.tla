------------------------------ MODULE MCNewRunner ------------------------------
(* Constants for the model checking of NewRunner. *)
EXTENDS NewRunner

CONSTANTS a, b, c, w, x, y, z, p1, p2

Reg(n)   == [kind |-> "register", name |-> n]
Dereg(n) == [kind |-> "deregister", name |-> n]

\* One process makes two Runners of agent a, another one a Runner of c; b,
\* which is listed, is removed.
Replicas == [o \in {w, x, y, z} |->
               CASE o \in {w, x} -> Reg(a) [] o = y -> Dereg(b) [] o = z -> Reg(c)]
BOnly == <<b>>

\* w takes its store from the sidecar, x names it; the graph of z does not
\* compile.  The framework's second rune crosses the cap.
MCConfig == [r \in {w, x, z} |->
  [fault |-> IF r = z THEN "graph" ELSE "none", framework |-> <<2, 3>>,
   store |-> IF r = w THEN Unset ELSE AgentRegistry]]
MCProcessOf == [r \in {w, x, z} |-> IF r = z THEN p2 ELSE p1]

\* The user of p2 opted out.
MCEnvironment == [p \in {p1, p2} |->
  [endpoint |-> TRUE, optOut |-> IF p = p2 THEN {FALSE, TRUE} ELSE {},
   ciFlags |-> {FALSE}, ciVendor |-> p = p1, daprHosts |-> {TRUE},
   apiToken |-> FALSE]]
=============================================================================
