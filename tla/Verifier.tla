------------------------------- MODULE Verifier -------------------------------
(***************************************************************************)
(* identity/verifier.go: JWKSVerifier, which checks tokens against a key   *)
(* set it caches.  Concurrent Verify calls share the cache that the first  *)
(* of them creates, a token that names an unknown key may force one        *)
(* refetch per jwksForcedRefreshInterval, and Close stops the cache's      *)
(* background refresher for good.                                          *)
(*                                                                         *)
(* External: the JWKS endpoint, which publishes a changing set of keys and *)
(* at times refuses or leaves fetches without an answer, and jwk.Cache,    *)
(* which fetches a set on the first Get, refetches on Refresh and in the   *)
(* background, and keeps the old set when a fetch fails.  A fetch has no   *)
(* timeout, only the context of the caller.  A key is its kid.             *)
(***************************************************************************)
EXTENDS Naturals, FiniteSets

CONSTANTS
  Verifiers,   \* the JWKSVerifiers there can be
  Proc,        \* goroutines that call Verify
  Kid,         \* key ids
  Token,       \* tokens: see TokenType
  Interval     \* jwksForcedRefreshInterval, in ticks

TokenType == [header : {"ok", "malformed", "algorithm"}, kid : Kid,
              signed : BOOLEAN, claims : {"ok", "expired", "issuer",
                                          "audience", "other"}]

ASSUME VerifierAssumption ==
  /\ Interval \in Nat \ {0}
  /\ \A t \in Token : \E u \in TokenType :
       \A f \in {"header", "kid", "signed", "claims"} : t[f] = u[f]

VARIABLES
  ver,         \* verifier -> its fields, or Unbuilt
  keys,        \* verifier -> what its cache holds, Unfetched before a fetch
  refreshers,  \* verifier -> how many background refreshers it has running
  call,        \* goroutine -> how far its Verify call is
  published,   \* the keys the endpoint publishes
  endpoint,    \* what becomes of fetches, see Endpoint
  age,         \* history: verifier -> ticks since a forced refetch was granted
  shut         \* history: the verifiers whose Close has returned

vvars == <<ver, keys, refreshers, call, published, endpoint, age, shut>>
hist  == <<age, shut>>
env   == <<published, endpoint>>

-----------------------------------------------------------------------------
(* The shape of the state *)

Unbuilt   == [built |-> FALSE]
Unfetched == [fetched |-> FALSE]
Fetched(ks) == [fetched |-> TRUE, keys |-> ks]

Endpoint == {"answers", "refuses", "hangs"}

\* lastForcedRefresh is kept as the ticks since then, Interval when it is
\* longer ago or never was.
NewVerifier == [built |-> TRUE, closed |-> FALSE, cache |-> FALSE, since |-> Interval]

Built(v) == ver[v] # Unbuilt

\* The ways a Verify call ends; the middle ones are token errors.
TokenErrors == {"decode_error", "invalid_token", "invalid_signature",
                "expired", "invalid_issuer", "invalid_audience"}
Verdict     == {"claims", "not_ready"} \cup TokenErrors

\* keyset and refresh: in jwksCache, before its read section; create: between
\* its two critical sections, on the way to `next`; get and refetch: about to
\* ask the cache; miss: the key is not in the set.
Idle  == [pc |-> "idle"]
Calls ==      [pc : {"keyset", "get", "miss", "refresh", "refetch"},
               v : Verifiers, tok : Token, late : BOOLEAN]
         \cup [pc : {"create"}, v : Verifiers, tok : Token, late : BOOLEAN,
               next : {"get", "refetch"}]
         \cup [pc : {"done"}, v : Verifiers, tok : Token, late : BOOLEAN,
               result : Verdict]

TypeOK ==
  /\ ver \in [Verifiers -> {Unbuilt} \cup [built : {TRUE}, closed : BOOLEAN,
                                           cache : BOOLEAN, since : 0..Interval]]
  /\ keys \in [Verifiers -> {Unfetched} \cup [fetched : {TRUE}, keys : SUBSET Kid]]
  /\ refreshers \in [Verifiers -> Nat]
  /\ call \in [Proc -> Calls \cup {Idle}]
  /\ published \in SUBSET Kid
  /\ endpoint \in Endpoint
  /\ age \in [Verifiers -> 0..Interval]
  /\ shut \in SUBSET Verifiers

\* `initial` is the set of verifiers the application has built by itself.
VInit(initial) ==
  /\ ver = [v \in Verifiers |-> IF v \in initial THEN NewVerifier ELSE Unbuilt]
  /\ keys = [v \in Verifiers |-> Unfetched]
  /\ refreshers = [v \in Verifiers |-> 0]
  /\ call = [p \in Proc |-> Idle]
  /\ published \in (SUBSET Kid) \ {{}}
  /\ endpoint \in Endpoint
  /\ age = [v \in Verifiers |-> Interval]
  /\ shut = {}

-----------------------------------------------------------------------------
(* Verify, around the key lookup *)

Working(p, label) == call[p].pc = label
Tok(p)            == call[p].tok

At(c, label)  == [pc |-> label, v |-> c.v, tok |-> c.tok, late |-> c.late]
Ended(c, res) == [pc |-> "done", v |-> c.v, tok |-> c.tok, late |-> c.late,
                  result |-> res]

Goto(p, label) == call' = [call EXCEPT ![p] = At(@, label)]
Return(p, res) == call' = [call EXCEPT ![p] = Ended(@, res)]

\* What is checked before any key is needed; "ok" when nothing is wrong.
HeaderVerdict(tok) ==
  CASE tok.header = "malformed" -> "decode_error"
    [] tok.header = "algorithm" -> "invalid_token"
    [] OTHER                    -> "ok"

\* codeForValidationError
ClaimsError(tok) ==
  CASE tok.claims = "expired"  -> "expired"
    [] tok.claims = "issuer"   -> "invalid_issuer"
    [] tok.claims = "audience" -> "invalid_audience"
    [] OTHER                   -> "invalid_token"

\* What is checked with the key the token names.
KeyVerdict(tok) ==
  IF ~tok.signed THEN "invalid_signature"
  ELSE IF tok.claims # "ok" THEN ClaimsError(tok) ELSE "claims"

BeginVerify(p, v, tok) ==
  /\ Built(v)
  /\ LET c == [v |-> v, tok |-> tok, late |-> v \in shut]
     IN  call' = [call EXCEPT ![p] =
           IF HeaderVerdict(tok) = "ok" THEN At(c, "keyset")
           ELSE Ended(c, HeaderVerdict(tok))]
  /\ UNCHANGED <<ver, keys, refreshers, env, hist>>

-----------------------------------------------------------------------------
(* jwksCache, called by keySet and by refreshKeySet *)

Wants(p) == IF Working(p, "keyset") THEN "get" ELSE "refetch"

\* The read-locked section.
ReadCache(p) ==
  /\ Working(p, "keyset") \/ Working(p, "refresh")
  /\ LET v == call[p].v
     IN  IF ver[v].closed THEN Return(p, "not_ready")
         ELSE IF ver[v].cache THEN Goto(p, Wants(p))
         ELSE call' = [call EXCEPT ![p] =
                [pc |-> "create", v |-> v, tok |-> Tok(p), late |-> @.late,
                 next |-> Wants(p)]]
  /\ UNCHANGED <<ver, keys, refreshers, env, hist>>

\* The write-locked section looks again at both fields.
AssumedOpen(v)   == FALSE                         \* faulty variant
StillClosed(v)   == ver[v].closed
AssumedMissing(v) == TRUE                         \* faulty variant
StillMissing(v)  == ~ver[v].cache

StartCache(v) ==
  /\ ver' = [ver EXCEPT ![v].cache = TRUE]
  /\ keys' = [keys EXCEPT ![v] = Unfetched]
  /\ refreshers' = [refreshers EXCEPT ![v] = @ + 1]

CreateCache(p) ==
  /\ Working(p, "create")
  /\ LET v == call[p].v
     IN  IF StillClosed(v)
           THEN Return(p, "not_ready") /\ UNCHANGED <<ver, keys, refreshers>>
         ELSE /\ Goto(p, call[p].next)
              /\ IF StillMissing(v) THEN StartCache(v)
                 ELSE UNCHANGED <<ver, keys, refreshers>>
  /\ UNCHANGED <<env, hist>>

\* The background refresher is cancelled, the cache forgotten.
Reopened(r) == [r EXCEPT !.cache = FALSE]         \* faulty variant
Shut(r)     == [r EXCEPT !.closed = TRUE, !.cache = FALSE]

Close(v) ==
  /\ Built(v)
  /\ ver' = [ver EXCEPT ![v] = Shut(@)]
  /\ refreshers' = [refreshers EXCEPT ![v] = IF ver[v].cache THEN @ - 1 ELSE @]
  /\ shut' = shut \cup {v}
  /\ UNCHANGED <<keys, call, env, age>>

-----------------------------------------------------------------------------
(* Keys: keySet, signingKey, refreshKeySet *)

\* The verdict when the named key is in the set, wherever the set came from.
BlamedForKey   == "invalid_token"                 \* faulty variant
UnknownKey     == "not_ready"

\* The call waits for the endpoint.
Fetching(p) ==
  \/ Working(p, "refetch")
  \/ Working(p, "get") /\ ~keys[call[p].v].fetched

UseKeys(p, ks) ==
  IF Tok(p).kid \in ks THEN Return(p, KeyVerdict(Tok(p)))
  ELSE IF Working(p, "get") THEN Goto(p, "miss")
  ELSE Return(p, UnknownKey)

\* cache.Get: the cached set, or the first fetch.
GetKeys(p) ==
  /\ Working(p, "get")
  /\ LET v == call[p].v
     IN  IF keys[v].fetched
           THEN UseKeys(p, keys[v].keys) /\ UNCHANGED keys
         ELSE /\ endpoint = "answers"
              /\ UseKeys(p, published)
              /\ keys' = [keys EXCEPT ![v] = Fetched(published)]
  /\ UNCHANGED <<ver, refreshers, env, hist>>

\* allowForcedRefresh checks and records the time in one critical section.
AlwaysForce(v)  == TRUE                           \* faulty variant
MayForce(v)     == ver[v].since >= Interval
Granted(r)      == [r EXCEPT !.since = 0]
PutOff(r)       == [r EXCEPT !.since = 0]         \* faulty variant
Declined(r)     == r

AllowForcedRefresh(p) ==
  /\ Working(p, "miss")
  /\ LET v == call[p].v
     IN  IF MayForce(v)
           THEN /\ Goto(p, "refresh")
                /\ ver' = [ver EXCEPT ![v] = Granted(@)]
                /\ age' = [age EXCEPT ![v] = 0]
         ELSE /\ Return(p, UnknownKey)
              /\ ver' = [ver EXCEPT ![v] = Declined(@)]
              /\ UNCHANGED age
  /\ UNCHANGED <<keys, refreshers, env, shut>>

\* cache.Refresh
Refetch(p) ==
  /\ Working(p, "refetch")
  /\ endpoint = "answers"
  /\ UseKeys(p, published)
  /\ keys' = [keys EXCEPT ![call[p].v] = Fetched(published)]
  /\ UNCHANGED <<ver, refreshers, env, hist>>

\* A fetch may fail when it gets no answer, or when Close has cancelled the cache's
\* own context.
FetchFails(p) ==
  /\ Fetching(p)
  /\ endpoint # "answers" \/ ver[call[p].v].closed
  /\ Return(p, "not_ready")
  /\ UNCHANGED <<ver, keys, refreshers, env, hist>>

\* The caller's request is gone while a fetch on its behalf is under way.
CallerLeaves(p) ==
  /\ Fetching(p)
  /\ Return(p, "not_ready")
  /\ UNCHANGED <<ver, keys, refreshers, env, hist>>

\* Nothing is known of when the cache returns while the endpoint hangs, be it that
\* the call waits for its own fetch or for another's, or after Close: the context of
\* the caller is all that ends the wait.
MayHang(p) == /\ Working(p, "get") \/ Working(p, "refetch")
              /\ endpoint = "hangs" \/ ver[call[p].v].closed

VerifyStep(p) ==
  \/ ReadCache(p) \/ CreateCache(p) \/ GetKeys(p)
  \/ AllowForcedRefresh(p) \/ Refetch(p) \/ FetchFails(p)

-----------------------------------------------------------------------------
(* What goes on around the calls *)

\* jwk.Cache refetches in the background as long as it is not cancelled.
BackgroundRefresh(v) ==
  /\ refreshers[v] > 0
  /\ keys[v].fetched /\ endpoint = "answers"
  /\ keys' = [keys EXCEPT ![v] = Fetched(published)]
  /\ UNCHANGED <<ver, refreshers, call, env, hist>>

Rotate ==
  /\ published' \in (SUBSET Kid) \ {{}, published}
  /\ UNCHANGED <<ver, keys, refreshers, call, endpoint, hist>>

EndpointChanges ==
  /\ endpoint' \in Endpoint \ {endpoint}
  /\ UNCHANGED <<ver, keys, refreshers, call, published, hist>>

\* Time, as far as the rate limit can tell it.
Later(t)    == IF t < Interval THEN t + 1 ELSE t

Tick ==
  /\ ver' = [v \in Verifiers |->
               IF Built(v) THEN [ver[v] EXCEPT !.since = Later(@)] ELSE ver[v]]
  /\ age' = [v \in Verifiers |-> IF age[v] < Interval THEN age[v] + 1 ELSE age[v]]
  /\ ver' # ver \/ age' # age
  /\ UNCHANGED <<keys, refreshers, call, env, shut>>

World == Rotate \/ EndpointChanges \/ Tick \/ \E v \in Verifiers : BackgroundRefresh(v)

-----------------------------------------------------------------------------
(* An application that calls Verify on verifiers of its own *)

Init == VInit(Verifiers)

Verify(p) ==
  /\ call[p] = Idle
  /\ \E v \in Verifiers, tok \in Token : BeginVerify(p, v, tok)

\* The caller takes the result and may call again.
Take(p) ==
  /\ Working(p, "done")
  /\ call' = [call EXCEPT ![p] = Idle]
  /\ UNCHANGED <<ver, keys, refreshers, env, hist>>

Next ==
  \/ World
  \/ \E v \in Verifiers : Close(v)
  \/ \E p \in Proc : Verify(p) \/ Take(p) \/ VerifyStep(p) \/ CallerLeaves(p)

Spec == Init /\ [][Next]_vvars

\* Goroutines run and time passes.  Nothing is assumed of fetches that may hang, of
\* callers, of the endpoint or of the background refresher.
Fairness == /\ \A p \in Proc : /\ WF_vvars(VerifyStep(p) /\ ~MayHang(p))
                               /\ WF_vvars(Take(p))
            /\ WF_vvars(Tick)

FairSpec == Spec /\ Fairness

-----------------------------------------------------------------------------
(* Properties *)

\* A verifier has one background refresher while it holds a cache and none
\* otherwise: however first uses and Close interleave, none is left running
\* after Close and none is started twice.
NoStrayRefresher ==
  \A v \in Verifiers : Built(v) =>
    /\ refreshers[v] = (IF ver[v].cache THEN 1 ELSE 0)
    /\ v \in shut => refreshers[v] = 0

\* "A closed verifier fails every subsequent Verify with ErrVerifierNotReady rather
\* than quietly starting a new refresher", save that Verify looks at the token's
\* header first: a call that began after Close is not ready, whatever calls are still
\* under way around it, or tells what is wrong with the header, as an open one does.
ClosedFailsClosed ==
  \A p \in Proc : Working(p, "done") /\ call[p].late =>
    call[p].result = IF HeaderVerdict(Tok(p)) = "ok" THEN "not_ready"
                     ELSE HeaderVerdict(Tok(p))

GoodToken(tok) == tok.header = "ok" /\ tok.signed /\ tok.claims = "ok"

\* No outage, rotation or rate limit is blamed on the caller, and none lets one
\* in: a good token yields its claims or not-ready, any other never yields claims.
TokenFaultsOnly ==
  \A p \in Proc : Working(p, "done") =>
    IF GoodToken(Tok(p)) THEN call[p].result \in {"claims", "not_ready"}
    ELSE call[p].result # "claims"

\* A stream of tokens with unknown kids cannot turn into a stream of fetches:
\* forced refetches of one verifier are granted at least Interval apart.
Grants(v) == \E p \in Proc : Working(p, "miss") /\ call[p].v = v
                             /\ call'[p].pc = "refresh"

ForcedRefreshesSpaced ==
  [][\A v \in Verifiers : Grants(v) => age[v] >= Interval]_vvars

\* Rotation is not an outage: once a key stays published, the endpoint answers
\* and callers stay, a verifier that is asked for the key over and over comes
\* to hold it, even with the background refresher dead and while other calls
\* spend the rate limit on keys nobody has.
Asked(v, k)     == \E p \in Proc : ~Working(p, "idle") /\ call[p].v = v
                                   /\ Tok(p).header = "ok" /\ Tok(p).kid = k
Available(v, k) == k \in published /\ endpoint = "answers" /\ ~ver[v].closed
Holds(v, k)     == keys[v].fetched /\ k \in keys[v].keys

RotationPickedUp ==
  \A v \in Verifiers, k \in Kid :
    /\ <>[]Available(v, k)
    /\ []<>Asked(v, k)
    /\ <>[][\A p \in Proc : ~CallerLeaves(p)]_vvars
    => <>[]Holds(v, k)
=============================================================================
