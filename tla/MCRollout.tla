------------------------------- MODULE MCRollout -------------------------------
(***************************************************************************)
(* Three versions of a small agent for the model checker: v1 runs a, then  *)
(* b; v2 puts mid in between, keeps a trail of what ran and goes back to   *)
(* a until the trail is long enough, for ever if it begins in v1; v3 is v1 *)
(* with b and a exchanged, and a router that has no target for such a      *)
(* trail.                                                                  *)
(***************************************************************************)
EXTENDS Rollout

CONSTANTS a, b, mid, v1, v2, v3, p1, p2, w1, w2, w3

MCChannel == {"trail"}
MCScalar  == {v1, v2, v3}
MCInput   == EmptyState

MCRouterFunc(router, state) ==
  LET trail == state["trail"].items
      old   == trail # <<>> /\ trail[1] = v1
  IN  IF router = "long" THEN (IF Len(trail) >= 3 /\ ~old THEN "yes" ELSE "no")
      ELSE IF old THEN "lost" ELSE "yes"

To(yes, no) == [key \in {"yes", "no"} |-> IF key = "yes" THEN yes ELSE no]
Edge(m, n)  == [x \in {m} |-> n]
Cond(m, router, mapping) ==
  [x \in {m} |-> [router |-> router, mapping |-> mapping]]

MCProgram == [v \in {v1, v2, v3} |->
  CASE v = v1 -> [nodes |-> {a, b}, entry |-> a, edges |-> Edge(a, b),
                  conds |-> <<>>, reducers |-> {}]
    [] v = v2 -> [nodes |-> {a, b, mid}, entry |-> a,
                  edges |-> [x \in {a, mid} |-> IF x = a THEN mid ELSE b],
                  conds |-> Cond(b, "long", To(END, a)), reducers |-> {"trail"}]
    [] v = v3 -> [nodes |-> {a, b}, entry |-> b, edges |-> <<>>,
                  conds |-> Cond(b, "lost", To(a, END)), reducers |-> {"trail"}]]

MCOutput == [v \in {v1, v2, v3} |->
               [n \in {a, b, mid} |-> [EmptyState EXCEPT !["trail"] = ScalarOf(v)]]]

\* p1 holds two Runners, one of the old version and one of either; p2 is upgraded.
MCProcessOf == [w \in {w1, w2, w3} |-> IF w = w3 THEN p2 ELSE p1]
MCBuilt == [w \in {w1, w2, w3} |->
              CASE w = w1 -> {v1} [] w = w2 -> {v2} [] OTHER -> {v1, v2, v3}]
=============================================================================
