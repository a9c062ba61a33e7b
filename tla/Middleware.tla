------------------------------ MODULE Middleware ------------------------------
(***************************************************************************)
(* identity/middleware.go: the handler that admits requests.  Requests are *)
(* served concurrently, and their callers may go away meanwhile.  The      *)
(* first one that brings a token builds the JWKSVerifier that all of them  *)
(* then share (Verifier), and a failed build is tried again by a later     *)
(* request; or the application has supplied a verifier with WithVerifier,  *)
(* a JWKSVerifier it may close at any time or a TokenVerifier of its own,  *)
(* which may fail and panic as it likes.                                   *)
(*                                                                         *)
(* How BuildVerifier finds its coordinates is in Coordinates; here they    *)
(* can be found or not.                                                    *)
(***************************************************************************)
EXTENDS Verifier

CONSTANTS
  NoToken,      \* a request without UserTokenHeader
  Spellings,    \* scopeClaims: the claim names scopes are read from
  Precedes(_, _), \* the order they are read in
  Required,     \* OAuthConfig.Scopes
  RequireAuth,  \* OAuthConfig.requireAuth()
  NoVerifier,   \* the gate's nil pointer
  Supplied,     \* the JWKSVerifiers the application may supply
  Custom        \* the application's own TokenVerifier

ASSUME MiddlewareAssumption ==
  /\ NoToken \notin Token
  /\ NoVerifier \notin Verifiers \cup {Custom}
  /\ Custom \notin Verifiers
  /\ Supplied \subseteq Verifiers
  /\ RequireAuth \in BOOLEAN
  /\ \A t \in Token : DOMAIN t.scopes = Spellings
  /\ Spellings # {}
  /\ \A some \in (SUBSET Spellings) \ {{}} :
       \E s \in some : \A t \in some \ {s} : Precedes(s, t) /\ ~Precedes(t, s)

VARIABLES
  gate,    \* oauthGate.verifier
  mu,      \* the goroutines that hold oauthGate.buildMu
  req,     \* goroutine -> how far its request is
  coords   \* whether usable coordinates can be discovered

mvars == <<gate, mu, req, coords>>
vars  == <<vvars, mvars>>

-----------------------------------------------------------------------------
(* The shape of the state *)

\* What the client or the handler gets: the handler runs with the verified
\* user, without one, or not at all.
Status(answer) ==
  CASE answer \in {"user", "anonymous"} -> 200
    [] answer \in {"missing_token"} \cup TokenErrors -> 401
    [] answer = "missing_scope" -> 403
    [] OTHER -> 503

\* load: before the lock-free read of the pointer; wait: for buildMu; build:
\* in BuildVerifier, holding it; have: with a verifier; verify: in Verify.
\* `gone`: the caller went away.  History: `dark`, the coordinates were missing
\* at some time while the request had no verifier; `late`, it came after the verifier's owner
\* had closed it.
NoRequest == [pc |-> "none"]

\* Middleware: the gate starts empty, or with what WithVerifier supplied.
GateInit ==
  /\ gate \in {NoVerifier, Custom} \cup Supplied
  /\ VInit({gate} \cap Verifiers)
  /\ mu = {}
  /\ req = [p \in Proc |-> NoRequest]
  /\ coords \in BOOLEAN

-----------------------------------------------------------------------------
(* serve *)

InPhase(p, label) == req[p].pc = label
Served(p)         == req[p].pc \notin {"none", "answered"}

Step(r, label)  == [pc |-> label, tok |-> r.tok, gone |-> r.gone, dark |-> r.dark,
                    late |-> r.late]
Having(r, v)    == [pc |-> "have", tok |-> r.tok, gone |-> r.gone, dark |-> FALSE,
                    late |-> r.late, v |-> v]
Reply(r, a)     == [pc |-> "answered", tok |-> r.tok, gone |-> r.gone,
                    dark |-> r.dark, late |-> r.late, answer |-> a]

\* What trimBearer leaves of the header: a token, or nothing of a header that is
\* missing, blank or only the scheme.
Presented == Token \cup {NoToken}

Arrive(p) ==
  /\ req[p] = NoRequest
  /\ \E tok \in Presented :
       LET r == [tok |-> tok, gone |-> FALSE, dark |-> ~coords, late |-> gate \in shut]
       IN  req' = [req EXCEPT ![p] =
             IF tok # NoToken THEN Step(r, "load")
             ELSE Reply(r, IF RequireAuth THEN "missing_token" ELSE "anonymous")]
  /\ UNCHANGED <<vvars, gate, mu, coords>>

\* getVerifier: the fast path, without the lock.
LoadVerifier(p) ==
  /\ InPhase(p, "load")
  /\ req' = [req EXCEPT ![p] =
       IF gate # NoVerifier THEN Having(@, gate) ELSE Step(@, "wait")]
  /\ UNCHANGED <<vvars, gate, mu, coords>>

\* With the lock the pointer is read again.
NotReread        == FALSE                         \* faulty variant
AlreadyBuilt     == gate # NoVerifier

Lock(p) ==
  /\ InPhase(p, "wait")
  /\ mu = {}
  /\ IF AlreadyBuilt
       THEN req' = [req EXCEPT ![p] = Having(@, gate)] /\ UNCHANGED mu
     ELSE req' = [req EXCEPT ![p] = Step(@, "build")] /\ mu' = {p}
  /\ UNCHANGED <<vvars, gate, coords>>

\* BuildVerifier resolves the coordinates, makes the verifier and warms it: its
\* cache is created, and filled when the endpoint answers.  Its context has a timeout,
\* so that a build ends also when the endpoint hangs.
NeverFound   == FALSE                             \* faulty variant
Discoverable == coords

Warmed(v) ==
  /\ ver' = [ver EXCEPT ![v] = [NewVerifier EXCEPT !.cache = TRUE]]
  /\ keys' = [keys EXCEPT ![v] = IF endpoint = "answers" THEN Fetched(published)
                                  ELSE Unfetched]
  /\ refreshers' = [refreshers EXCEPT ![v] = 1]
  /\ UNCHANGED <<call, env, hist>>

Build(p) ==
  /\ InPhase(p, "build")
  /\ Discoverable
  /\ \E v \in Verifiers \ Supplied : ~Built(v)
  /\ LET v == CHOOSE v \in Verifiers \ Supplied : ~Built(v)
     IN  /\ Warmed(v)
         /\ gate' = v
         /\ req' = [req EXCEPT ![p] = Having(@, v)]
  /\ mu' = {}
  /\ UNCHANGED coords

\* The error is answered and not kept; the deferred unlock runs.
StillHeld == mu                                   \* faulty variant
Released  == {}

BuildFails(p) ==
  /\ InPhase(p, "build")
  /\ ~Discoverable
  /\ mu' = Released
  /\ req' = [req EXCEPT ![p] = Reply(@, "not_configured")]
  /\ UNCHANGED <<vvars, gate, coords>>

\* adjudicate, with a JWKSVerifier.
StartVerify(p) ==
  /\ InPhase(p, "have")
  /\ req[p].v \in Verifiers
  /\ BeginVerify(p, req[p].v, req[p].tok)
  /\ req' = [req EXCEPT ![p] = Step(@, "verify")]
  /\ UNCHANGED <<gate, mu, coords>>

\* extractScopes: the first spelling that carries any scopes decides.
Carried(tok) == {s \in Spellings : tok.scopes[s] # {}}

FirstSpelling(tok) ==                             \* faulty variant
  LET first == CHOOSE s \in Spellings : \A t \in Spellings \ {s} : Precedes(s, t)
  IN  tok.scopes[first]

GrantedScopes(tok) ==
  IF Carried(tok) = {} THEN {}
  ELSE LET s == CHOOSE s \in Carried(tok) :
                  \A t \in Carried(tok) \ {s} : Precedes(s, t)
       IN  tok.scopes[s]

\* missingScopes
ScopesMissing(tok) == ~(Required \subseteq GrantedScopes(tok))

\* rejectVerifyError, and the scope check on claims that verified: the causes
\* that are known are told apart before the caller is looked for.
AnswerTo(r, result) ==
  CASE result = "claims" -> IF ScopesMissing(r.tok) THEN "missing_scope" ELSE "user"
    [] result = "not_ready" -> "verifier_unavailable"
    [] result \in TokenErrors \cup {"missing_scope"} -> result
    [] result = "panic" -> "nothing"
    [] OTHER -> IF r.gone THEN "nothing" ELSE "verifier_unavailable"

Respond(p) ==
  /\ InPhase(p, "verify")
  /\ Working(p, "done")
  /\ req' = [req EXCEPT ![p] = Reply(@, AnswerTo(@, call[p].result))]
  /\ call' = [call EXCEPT ![p] = Idle]
  /\ UNCHANGED <<ver, keys, refreshers, env, hist, gate, mu, coords>>

\* A TokenVerifier of the application's fails closed: it knows good tokens from
\* bad ones, may refuse for want of a scope itself, or reports a token's fault;
\* but it may also be not ready, and fail or panic in any way.
CustomVerdicts(tok) ==
  {"not_ready", "error", "panic"} \cup
  (IF ~GoodToken(tok) THEN TokenErrors
   ELSE {"claims"} \cup (IF ScopesMissing(tok) THEN {"missing_scope"} ELSE {}))

\* adjudicate: a panic left to unwind makes net/http drop the connection.
Recovered(result) == IF result = "panic" THEN "error" ELSE result

CustomVerify(p) ==
  /\ InPhase(p, "have")
  /\ req[p].v = Custom
  /\ \E result \in CustomVerdicts(req[p].tok) :
       req' = [req EXCEPT ![p] = Reply(@, AnswerTo(@, Recovered(result)))]
  /\ UNCHANGED <<vvars, gate, mu, coords>>

\* The connection serves its next request.
NextRequest(p) ==
  /\ InPhase(p, "answered")
  /\ req' = [req EXCEPT ![p] = NoRequest]
  /\ UNCHANGED <<vvars, gate, mu, coords>>

-----------------------------------------------------------------------------
(* What goes on around the requests *)

\* The request's context is cancelled; Verify learns of it when it waits for a
\* fetch, a build does not.
Disconnect(p) ==
  /\ Served(p)
  /\ ~req[p].gone
  /\ req' = [req EXCEPT ![p].gone = TRUE]
  /\ UNCHANGED <<vvars, gate, mu, coords>>

FetchAbandoned(p) ==
  /\ InPhase(p, "verify")
  /\ req[p].gone
  /\ CallerLeaves(p)
  /\ UNCHANGED mvars

\* The gate never closes the verifier it built; the owner of a supplied one may.
OwnerCloses ==
  /\ gate \in Supplied \ shut
  /\ Close(gate)
  /\ UNCHANGED mvars

\* The sidecar comes up, or goes away: of interest until there is a verifier.
CoordsFlip ==
  /\ gate = NoVerifier
  /\ coords' = ~coords
  /\ req' = [p \in Proc |->
       IF Served(p) THEN [req[p] EXCEPT !.dark = TRUE] ELSE req[p]]
  /\ UNCHANGED <<vvars, gate, mu>>

ServeStep(p) ==
  \/ LoadVerifier(p) \/ Lock(p) \/ Build(p) \/ BuildFails(p)
  \/ StartVerify(p) \/ CustomVerify(p) \/ Respond(p)

GateNext ==
  \/ (World \/ \E p \in Proc : VerifyStep(p)) /\ UNCHANGED mvars
  \/ CoordsFlip \/ OwnerCloses
  \/ \E p \in Proc : \/ Arrive(p) \/ Disconnect(p) \/ FetchAbandoned(p)
                      \/ NextRequest(p) \/ ServeStep(p)

GateSpec == GateInit /\ [][GateNext]_vars

\* Goroutines run, custom verifiers return, and sync.Mutex does not starve a waiter.
\* Nothing is assumed of a Verify whose fetch may hang.
GateFairness ==
  \A p \in Proc : /\ WF_vars(ServeStep(p)) /\ SF_vars(Lock(p))
                  /\ WF_vars(VerifyStep(p) /\ ~MayHang(p) /\ UNCHANGED mvars)

FairGateSpec == GateSpec /\ GateFairness

-----------------------------------------------------------------------------
(* Properties *)

\* A burst of requests at cold start builds one verifier, and none beside a
\* supplied one: whatever interleaves, the process has one key cache and one
\* background refresher, and none is left once the owner closed it.
OneVerifier ==
  \A v \in Verifiers :
    /\ Built(v) => gate = v
    /\ refreshers[v] = (IF Built(v) /\ ver[v].cache THEN 1 ELSE 0)
    /\ v \in shut => refreshers[v] = 0

\* A build failure is not cached: not_configured is answered only to a request
\* during which the coordinates could not be found, and never when the
\* application supplied a verifier.
NotConfiguredIsCurrent ==
  \A p \in Proc : InPhase(p, "answered") /\ req[p].answer = "not_configured" =>
    req[p].dark /\ gate \notin {Custom} \cup Supplied

\* The answer fits the request, whatever else went on: the handler runs with a
\* user exactly for good tokens with the scopes, save for 503; a bad token or a
\* missing scope is told apart from an outage; no token is let in only as
\* anonymous and only when that is allowed; a request that came after the
\* verifier was closed brings no user in; only a caller that went away is left
\* without an answer.
HoldsScopes(tok) ==
  \E s \in Spellings :
    /\ Required \subseteq tok.scopes[s]
    /\ \A t \in Spellings \ {s} : Precedes(t, s) => tok.scopes[t] = {}

Fits(tok, answer) ==
  IF tok = NoToken THEN answer = (IF RequireAuth THEN "missing_token" ELSE "anonymous")
  ELSE \/ Status(answer) = 503
       \/ GoodToken(tok) /\ HoldsScopes(tok) /\ answer = "user"
       \/ GoodToken(tok) /\ ~HoldsScopes(tok) /\ Status(answer) = 403
       \/ ~GoodToken(tok) /\ Status(answer) = 401

AnswersFit ==
  \A p \in Proc : InPhase(p, "answered") =>
    /\ IF req[p].answer = "nothing" THEN req[p].gone ELSE Fits(req[p].tok, req[p].answer)
    /\ req[p].late => req[p].answer # "user"

\* A request is answered or found abandoned, or it is at a fetch, again and again, that
\* only its caller ends, because the endpoint hangs or the verifier was closed
\* meanwhile.  Nothing else holds a request up: a build that fails or takes its whole
\* timeout frees the lock for those that wait.
Hanging(p) == InPhase(p, "verify") /\ MayHang(p)

RequestsAnswered ==
  \A p \in Proc : Served(p) ~> ~Served(p) \/ Hanging(p)
=============================================================================
