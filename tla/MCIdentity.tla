------------------------------ MODULE MCIdentity ------------------------------
(***************************************************************************)
(* Constants for the model checking of Coordinates and Redirects.  The two *)
(* share no state, so a behaviour either builds a verifier or makes one    *)
(* outbound request: the checker meets the sum of their states, not the    *)
(* product.                                                                *)
(***************************************************************************)
EXTENDS Coordinates, Redirects, TLC

CONSTANTS i1, i2

\* i1 is a public issuer, i2 one on a loopback port without TLS.
SchemeOf(i)   == IF i = i1 THEN "https" ELSE "http"
LoopbackOf(i) == i = i2

\* Every block with an issuer, and one without.
Blocks == {b \in Published : b.issuer # Empty}
          \cup {[state |-> "block", issuer |-> Empty, jwks |-> Empty,
                 audience |-> Empty]}

HostSymmetry == Permutations(Host)

\* The configuration in the behaviours that make a request.
NothingSet == cfg = [issuer |-> Empty, jwks |-> Empty, audience |-> Empty,
                     insecure |-> FALSE]

MCInit == ConfigInit /\ RequestInit

MCNext ==
  \/ chain = <<>> /\ BuildStep /\ UNCHANGED tvars
  \/ NothingSet /\ answers = <<>> /\ RequestStep /\ UNCHANGED cvars

MCSpec == MCInit /\ [][MCNext]_<<cvars, tvars>>
=============================================================================
