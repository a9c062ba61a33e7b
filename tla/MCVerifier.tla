------------------------------ MODULE MCVerifier ------------------------------
(* Constants for the model checking of Verifier. *)
EXTENDS Verifier

CONSTANTS k1, k2

Tok4(header, kid, signed, claims) ==
  [header |-> header, kid |-> kid, signed |-> signed, claims |-> claims]

\* Good tokens of both keys, and one for each step of Verify that can refuse it.
\* The other bad claims are refused where an expired token is.
Tokens ==
  {Tok4("ok", k1, TRUE, "ok"), Tok4("ok", k2, TRUE, "ok"),
   Tok4("malformed", k1, TRUE, "ok"), Tok4("algorithm", k1, TRUE, "ok"),
   Tok4("ok", k1, FALSE, "ok"), Tok4("ok", k2, TRUE, "expired")}
=============================================================================
