----------------------------- MODULE MCMiddleware -----------------------------
(* Constants for the model checking of Middleware. *)
EXTENDS Middleware

CONSTANTS k1, read, write

ClaimNames == <<"scp", "scope", "scopes">>
Order(s, t) == \E i, j \in 1..3 : i < j /\ s = ClaimNames[i] /\ t = ClaimNames[j]

T(signed, claims, scp, scope) ==
  [header |-> "ok", kid |-> k1, signed |-> signed, claims |-> claims,
   scopes |-> [s \in {"scp", "scope", "scopes"} |->
                 CASE s = "scp" -> scp [] s = "scope" -> scope [] OTHER -> {read}]]

\* Good tokens with the scope under the second spelling alone, and without it
\* under the first one; and a forged one.
Tokens == {T(TRUE, "ok", {}, {read}), T(TRUE, "ok", {write}, {read}),
           T(FALSE, "ok", {read}, {})}
=============================================================================
