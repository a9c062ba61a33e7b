------------------------------ MODULE MCToolLoop ------------------------------
(* Constants for the model checking of ToolLoop. *)
EXTENDS ToolLoop

CONSTANTS s1, s2, t1, t2

\* Both servers offer a tool t1.
BothLoaded == <<s1, s2>>
MCOffers == [s \in {s1, s2} |-> IF s = s1 THEN <<t1, t2>> ELSE <<t1>>]
=============================================================================
