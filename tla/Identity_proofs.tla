---------------------------- MODULE Identity_proofs ----------------------------
(***************************************************************************)
(* Package identity, one part after the other.                             *)
(*                                                                         *)
(* Verifier: what Verify and Close promise, for any number of verifiers,   *)
(* goroutines, tokens and keys and however their critical sections         *)
(* interleave.                                                             *)
(*                                                                         *)
(* Middleware: the gate, for any number of concurrent requests, verifiers, *)
(* tokens and scopes.  Inside Verify a request is one of Verifier's calls, *)
(* so Verifier's invariant comes along, and what is added relates requests *)
(* to calls, to the gate's pointer and to its mutex.                       *)
(*                                                                         *)
(* Coordinates: whose keys a token is checked with, for any configuration  *)
(* and whatever the sources of coordinates answer.                         *)
(*                                                                         *)
(* Redirects: where a token is sent, for chains of redirects of any        *)
(* length.                                                                 *)
(***************************************************************************)
EXTENDS Middleware, Coordinates, Redirects, TLAPS

-----------------------------------------------------------------------------
(* Verifier: the invariant *)

Fields == [built : {TRUE}, closed : BOOLEAN, cache : BOOLEAN, since : 0..Interval]

\* The two fields that Close and the first use race on, and the refresher that
\* belongs to them; the rate limit's clock is the history's.
VerInv ==
  /\ ver \in [Verifiers -> {Unbuilt} \cup Fields]
  /\ refreshers \in [Verifiers -> Nat]
  /\ age \in [Verifiers -> 0..Interval]
  /\ shut \subseteq Verifiers
  /\ \A v \in Verifiers :
       IF Built(v)
         THEN /\ refreshers[v] = IF ver[v].cache THEN 1 ELSE 0
              /\ ver[v].closed => ~ver[v].cache
              /\ v \in shut => ver[v].closed
              /\ ver[v].since = age[v]
       ELSE refreshers[v] = 0 /\ v \notin shut /\ age[v] = Interval

\* A verdict fits the token.
VerdictFits(tok, res) == IF GoodToken(tok) THEN res \in {"claims", "not_ready"}
                  ELSE res # "claims"

\* What Verify says of a token on a closed verifier.
LateVerdict(tok) == IF HeaderVerdict(tok) = "ok" THEN "not_ready" ELSE HeaderVerdict(tok)

Existing == {v \in Verifiers : Built(v)}

\* A call is on a verifier that was built.  It works on only with a token whose
\* header is in order, and one that began after Close comes no further than its
\* first look at the verifier.
SoundIn(c, built, closed) ==
  /\ c \in Calls
  /\ c.v \in built
  /\ c.pc # "done" => c.tok.header = "ok"
  /\ c.pc = "done" => VerdictFits(c.tok, c.result)
  /\ c.late => /\ c.v \in closed
               /\ c.pc \in {"keyset", "done"}
               /\ c.pc = "done" => c.result = LateVerdict(c.tok)

Sound(c) == SoundIn(c, Existing, shut)

CallInv == call \in [Proc -> Calls \cup {Idle}]
           /\ \A p \in Proc : call[p] = Idle \/ Sound(call[p])

EnvInv ==
  /\ keys \in [Verifiers -> {Unfetched} \cup [fetched : {TRUE}, keys : SUBSET Kid]]
  /\ published \in SUBSET Kid
  /\ endpoint \in Endpoint

VInv == VerInv /\ CallInv /\ EnvInv

LEMMA IntervalNat == Interval \in Nat \ {0} /\ 0 \in 0..Interval
BY VerifierAssumption

\* A verifier that is built has its fields.
LEMMA BuiltFields ==
  ASSUME VerInv, NEW v \in Verifiers
  PROVE  Built(v) <=> ver[v] \in Fields
<1>1. Unbuilt \notin Fields
  BY DEF Unbuilt, Fields
<1> QED BY <1>1 DEF Built, VerInv

\* Setting the fields of one that is built builds no other.
LEMMA SetFields ==
  ASSUME VerInv, NEW v \in Existing, NEW r \in Fields, ver' = [ver EXCEPT ![v] = r]
  PROVE  /\ Existing' = Existing
         /\ ver' \in [Verifiers -> {Unbuilt} \cup Fields]
         /\ ver'[v] = r /\ \A w \in Verifiers : w # v => ver'[w] = ver[w]
<1>1. Unbuilt \notin Fields
  BY DEF Unbuilt, Fields
<1>2. /\ v \in Verifiers /\ ver \in [Verifiers -> {Unbuilt} \cup Fields]
      /\ ver[v] # Unbuilt
  BY DEF Existing, Built, VerInv
<1>3. /\ ver' \in [Verifiers -> {Unbuilt} \cup Fields]
      /\ ver'[v] = r /\ \A w \in Verifiers : w # v => ver'[w] = ver[w]
  BY <1>2
<1>4. Existing' = Existing
  BY <1>1, <1>2, <1>3 DEF Existing, Built
<1> QED BY <1>3, <1>4

-----------------------------------------------------------------------------
(* Calls and verdicts *)

LEMMA CallFields ==
  ASSUME NEW c \in Calls
  PROVE  /\ c.v \in Verifiers /\ c.tok \in Token /\ c.late \in BOOLEAN
         /\ c.pc \in {"keyset", "get", "miss", "refresh", "refetch", "create", "done"}
         /\ c.pc = "create" => c.next \in {"get", "refetch"}
BY DEF Calls

\* A call that is not idle is sound.
LEMMA Busy ==
  ASSUME CallInv, NEW p \in Proc, call[p].pc # "idle"
  PROVE  Sound(call[p]) /\ call[p] \in Calls /\ call[p].v \in Existing
BY DEF CallInv, Idle, Sound, SoundIn

LEMMA HeaderRight ==
  ASSUME NEW tok \in Token
  PROVE  /\ HeaderVerdict(tok) = "ok" <=> tok.header = "ok"
         /\ HeaderVerdict(tok) # "ok" =>
              /\ HeaderVerdict(tok) \in {"decode_error", "invalid_token"}
              /\ ~GoodToken(tok)
<1>1. tok.header \in {"ok", "malformed", "algorithm"}
  BY VerifierAssumption DEF TokenType
<1>2. CASE tok.header = "ok"
  BY <1>2 DEF HeaderVerdict
<1>3. CASE tok.header = "malformed"
  BY <1>3 DEF HeaderVerdict, GoodToken
<1>4. CASE tok.header = "algorithm"
  BY <1>4 DEF HeaderVerdict, GoodToken
<1> QED BY <1>1, <1>2, <1>3, <1>4

LEMMA KeyVerdictRight ==
  ASSUME NEW tok \in Token, tok.header = "ok"
  PROVE  KeyVerdict(tok) \in Verdict /\ VerdictFits(tok, KeyVerdict(tok))
<1>1. ClaimsError(tok) \in {"expired", "invalid_issuer", "invalid_audience",
                            "invalid_token"}
  BY DEF ClaimsError
<1>2. CASE ~tok.signed
  BY <1>2 DEF KeyVerdict, Verdict, TokenErrors, VerdictFits, GoodToken
<1>3. CASE tok.signed /\ tok.claims # "ok"
  BY <1>1, <1>3 DEF KeyVerdict, Verdict, TokenErrors, VerdictFits, GoodToken
<1>4. CASE tok.signed /\ tok.claims = "ok"
  BY <1>4 DEF KeyVerdict, Verdict, VerdictFits, GoodToken
<1> QED BY <1>2, <1>3, <1>4

\* Not-ready fits every token.
LEMMA NotReadyFits ==
  ASSUME NEW tok
  PROVE  VerdictFits(tok, "not_ready")
BY DEF VerdictFits

\* How a call goes on, and how it ends.
LEMMA GoesOn ==
  ASSUME NEW c \in Calls, c.v \in Existing, c.tok.header = "ok", ~c.late,
         NEW label \in {"keyset", "get", "miss", "refresh", "refetch"}
  PROVE  Sound(At(c, label))
<1>1. At(c, label) \in Calls
  BY CallFields DEF At, Calls
<1> QED BY <1>1 DEF Sound, SoundIn, At

LEMMA Ends ==
  ASSUME NEW c \in Calls, c.v \in Existing, c.late => c.v \in shut,
         NEW res \in Verdict, VerdictFits(c.tok, res),
         c.late => res = LateVerdict(c.tok)
  PROVE  Sound(Ended(c, res))
<1>1. Ended(c, res) \in Calls
  BY CallFields DEF Ended, Calls
<1> QED BY <1>1 DEF Sound, SoundIn, Ended

-----------------------------------------------------------------------------
(* Steps *)

\* A step of one call, around which verifiers are neither built nor closed.
LEMMA CallStep ==
  ASSUME CallInv, NEW p \in Proc, NEW c, call' = [call EXCEPT ![p] = c],
         c = Idle \/ Sound(c), shut' = shut, Existing' = Existing
  PROVE  CallInv'
<1> DEFINE Good(d) == SoundIn(d, Existing, shut)
<1>1. c \in Calls \cup {Idle} /\ (c = Idle \/ Good(c))
  BY DEF Sound, SoundIn
<1>2. /\ call \in [Proc -> Calls \cup {Idle}]
      /\ \A q \in Proc : call[q] = Idle \/ Good(call[q])
  BY DEF CallInv, Sound
<1>3. \A d : Good(d) <=> SoundIn(d, Existing', shut')
  OBVIOUS
<1> HIDE DEF Good
<1>4. /\ call' \in [Proc -> Calls \cup {Idle}]
      /\ \A q \in Proc : call'[q] = IF q = p THEN c ELSE call[q]
  BY <1>1, <1>2
<1>5. \A q \in Proc : call'[q] = Idle \/ Good(call'[q])
  BY <1>1, <1>2, <1>4
<1> QED BY <1>3, <1>4, <1>5 DEF CallInv, Sound

\* Calls do not notice what goes on around them.
LEMMA CallsStay ==
  ASSUME CallInv, call' = call, shut \subseteq shut', Existing \subseteq Existing'
  PROVE  CallInv'
<1>1. ASSUME NEW c, SoundIn(c, Existing, shut)
      PROVE  SoundIn(c, Existing', shut')
  BY <1>1 DEF SoundIn
<1> QED BY <1>1 DEF CallInv, Sound

LEMMA VerifiersStay ==
  ASSUME ver' = ver
  PROVE  Existing' = Existing
BY DEF Existing, Built

LEMMA VerStays ==
  ASSUME VerInv, UNCHANGED <<ver, refreshers, age, shut>>
  PROVE  VerInv'
BY DEF VerInv, Built

LEMMA EnvStays ==
  ASSUME EnvInv, UNCHANGED <<keys, env>>
  PROVE  EnvInv'
BY DEF EnvInv, env

LEMMA VInitInv ==
  ASSUME NEW initial \in SUBSET Verifiers, VInit(initial)
  PROVE  VInv /\ Existing = initial
<1>1. Interval \in Nat
  BY IntervalNat
<1>2. NewVerifier \in Fields /\ ~NewVerifier.cache /\ ~NewVerifier.closed
      /\ NewVerifier.since = Interval
  BY <1>1 DEF NewVerifier, Fields
<1>3. Unbuilt # NewVerifier
  BY DEF Unbuilt, NewVerifier
<1>4. /\ ver = [v \in Verifiers |-> IF v \in initial THEN NewVerifier ELSE Unbuilt]
      /\ refreshers = [v \in Verifiers |-> 0]
      /\ age = [v \in Verifiers |-> Interval]
      /\ keys = [v \in Verifiers |-> Unfetched]
      /\ published \in SUBSET Kid /\ endpoint \in Endpoint /\ shut = {}
      /\ call = [p \in Proc |-> Idle]
  BY DEF VInit
<1>5. VerInv
  BY <1>1, <1>2, <1>3, <1>4 DEF VerInv, Built
<1>6. CallInv /\ EnvInv
  BY <1>4 DEF CallInv, EnvInv
<1>7. Existing = initial
  BY <1>3, <1>4 DEF Existing, Built
<1> QED BY <1>5, <1>6, <1>7 DEF VInv

-----------------------------------------------------------------------------
(* Around the calls *)

LEMMA TickInv ==
  ASSUME VInv, Tick
  PROVE  VInv' /\ Existing' = Existing
<1> USE DEF VInv
<1>1. /\ UNCHANGED <<keys, refreshers, call, env, shut>>
      /\ DOMAIN ver' = Verifiers /\ DOMAIN age' = Verifiers
      /\ ver' = [v \in Verifiers |-> ver'[v]] /\ age' = [v \in Verifiers |-> age'[v]]
  BY DEF Tick
<1>2. \A t \in 0..Interval : Later(t) \in 0..Interval
  BY IntervalNat DEF Later
<1>3. Later(Interval) = Interval
  BY IntervalNat DEF Later
<1>4. \A v \in Verifiers : age'[v] = Later(age[v])
  BY DEF Tick, Later
<1>5. ASSUME NEW v \in Verifiers, ~Built(v)
      PROVE  ver'[v] = Unbuilt /\ age'[v] = Interval
  BY <1>3, <1>4, <1>5 DEF Tick, Built, VerInv
<1>6. ASSUME NEW v \in Verifiers, Built(v)
      PROVE  /\ ver'[v] \in Fields /\ ver'[v].since = age'[v]
             /\ ver'[v].cache = ver[v].cache /\ ver'[v].closed = ver[v].closed
  <2>1. ver'[v] = [ver[v] EXCEPT !.since = Later(@)]
    BY <1>6 DEF Tick
  <2>2. ver[v] \in Fields /\ ver[v].since = age[v]
    BY <1>6, BuiltFields DEF VerInv
  <2>3. Later(ver[v].since) \in 0..Interval
    BY <1>2, <2>2 DEF VerInv
  <2> QED BY <1>4, <2>1, <2>2, <2>3 DEF Fields
<1>7. Unbuilt \notin Fields
  BY DEF Unbuilt, Fields
<1>8. \A v \in Verifiers : Built(v)' <=> Built(v)
  BY <1>5, <1>6, <1>7 DEF Built
<1>9. ver' \in [Verifiers -> {Unbuilt} \cup Fields]
  BY <1>1, <1>5, <1>6
<1>10. age' \in [Verifiers -> 0..Interval]
  BY <1>1, <1>2, <1>4 DEF VerInv
<1>11. VerInv'
  BY <1>1, <1>5, <1>6, <1>8, <1>9, <1>10 DEF VerInv
<1>12. Existing' = Existing
  BY <1>8 DEF Existing
<1> QED BY <1>1, <1>11, <1>12, CallsStay, EnvStays

LEMMA WorldInv ==
  ASSUME VInv, World
  PROVE  VInv'
<1> USE DEF VInv
<1>1. CASE Rotate
  <2>1. VerInv' /\ CallInv'
    BY <1>1, VerStays, CallsStay, VerifiersStay DEF Rotate, hist
  <2>2. EnvInv'
    BY <1>1 DEF Rotate, EnvInv
  <2> QED BY <2>1, <2>2
<1>2. CASE EndpointChanges
  <2>1. VerInv' /\ CallInv'
    BY <1>2, VerStays, CallsStay, VerifiersStay DEF EndpointChanges, hist
  <2>2. EnvInv'
    BY <1>2 DEF EndpointChanges, EnvInv
  <2> QED BY <2>1, <2>2
<1>3. CASE Tick
  BY <1>3, TickInv
<1>4. ASSUME NEW v \in Verifiers, BackgroundRefresh(v)
      PROVE  VInv'
  <2>1. VerInv' /\ CallInv'
    BY <1>4, VerStays, CallsStay, VerifiersStay DEF BackgroundRefresh, hist
  <2>2. EnvInv'
    BY <1>4 DEF BackgroundRefresh, EnvInv, Fetched, env
  <2> QED BY <2>1, <2>2
<1> QED BY <1>1, <1>2, <1>3, <1>4 DEF World

LEMMA CloseInv ==
  ASSUME VInv, NEW v \in Verifiers, Close(v)
  PROVE  VInv'
<1> USE DEF VInv
<1>1. /\ ver' = [ver EXCEPT ![v] = Shut(@)]
      /\ refreshers' = [refreshers EXCEPT ![v] = IF ver[v].cache THEN @ - 1 ELSE @]
      /\ shut' = shut \cup {v}
      /\ UNCHANGED <<keys, call, env, age>>
  BY DEF Close
<1>2. v \in Existing /\ ver[v] \in Fields
  BY BuiltFields DEF Close, Existing
<1>3. /\ Shut(ver[v]) \in Fields /\ ~Shut(ver[v]).cache /\ Shut(ver[v]).closed
      /\ Shut(ver[v]).since = ver[v].since
  BY <1>2 DEF Shut, Fields
<1>4. refreshers'[v] = 0 /\ refreshers' \in [Verifiers -> Nat]
      /\ \A w \in Verifiers : w # v => refreshers'[w] = refreshers[w]
  <2>1. refreshers \in [Verifiers -> Nat]
        /\ refreshers[v] = IF ver[v].cache THEN 1 ELSE 0
    BY <1>2 DEF VerInv, Existing
  <2> QED BY <1>1, <2>1
<1>5. /\ Existing' = Existing
      /\ ver' \in [Verifiers -> {Unbuilt} \cup Fields]
      /\ ver'[v] = Shut(ver[v]) /\ \A w \in Verifiers : w # v => ver'[w] = ver[w]
  BY <1>1, <1>2, <1>3, SetFields
<1>6. \A w \in Verifiers : Built(w)' <=> Built(w)
  BY <1>5 DEF Existing
<1>7. VerInv'
  BY <1>1, <1>2, <1>3, <1>4, <1>5, <1>6 DEF VerInv, Existing
<1>8. CallInv' /\ EnvInv'
  BY <1>1, <1>5, CallsStay, EnvStays
<1> QED BY <1>7, <1>8

-----------------------------------------------------------------------------
(* Verify *)

LEMMA BeginInv ==
  ASSUME VInv, NEW p \in Proc, NEW v \in Verifiers, NEW tok \in Token,
         BeginVerify(p, v, tok)
  PROVE  VInv'
<1> DEFINE c   == [v |-> v, tok |-> tok, late |-> v \in shut]
           res == HeaderVerdict(tok)
           new == IF res = "ok" THEN At(c, "keyset") ELSE Ended(c, res)
<1>1. /\ call' = [call EXCEPT ![p] = new] /\ v \in Existing
      /\ UNCHANGED <<ver, keys, refreshers, env, hist>>
  BY DEF BeginVerify, Existing
<1>2. ASSUME res = "ok" PROVE Sound(new)
  <2>1. tok.header = "ok"
    BY <1>2, HeaderRight
  <2>2. new = [pc |-> "keyset", v |-> v, tok |-> tok, late |-> v \in shut]
    BY <1>2 DEF At
  <2>3. (v \in shut) \in BOOLEAN
    OBVIOUS
  <2> HIDE DEF new
  <2>4. new \in Calls
    BY <2>2, <2>3 DEF Calls
  <2> QED BY <1>1, <2>1, <2>2, <2>4 DEF Sound, SoundIn
<1>3. ASSUME res # "ok" PROVE Sound(new)
  <2>1. res \in {"decode_error", "invalid_token"} /\ ~GoodToken(tok)
    BY <1>3, HeaderRight
  <2>2. new = [pc |-> "done", v |-> v, tok |-> tok, late |-> v \in shut,
               result |-> res]
    BY <1>3 DEF Ended
  <2>3. VerdictFits(tok, res) /\ res \in Verdict
    BY <2>1 DEF VerdictFits, Verdict, TokenErrors
  <2>4. (v \in shut) \in BOOLEAN
    OBVIOUS
  <2>5. res = LateVerdict(tok)
    BY <1>3 DEF LateVerdict
  <2> HIDE DEF new, res
  <2>6. new \in Calls
    BY <2>2, <2>3, <2>4 DEF Calls
  <2> QED BY <1>1, <2>1, <2>2, <2>3, <2>5, <2>6 DEF Sound, SoundIn
<1>4. Sound(new)
  BY <1>2, <1>3
<1>5. shut' = shut /\ Existing' = Existing
  BY <1>1, VerifiersStay DEF hist
<1> HIDE DEF new
<1>6. CallInv'
  BY <1>1, <1>4, <1>5, CallStep DEF VInv
<1> QED BY <1>1, <1>6, VerStays, EnvStays DEF VInv, hist, env

\* A step of p's call that leaves the verifiers alone.
LEMMA OwnStep ==
  ASSUME VInv, NEW p \in Proc, NEW c, call' = [call EXCEPT ![p] = c],
         Sound(c), UNCHANGED <<ver, refreshers, hist>>, EnvInv'
  PROVE  VInv'
<1>1. shut' = shut /\ Existing' = Existing
  BY VerifiersStay DEF hist
<1>2. CallInv'
  BY <1>1, CallStep DEF VInv
<1> QED BY <1>2, VerStays DEF VInv, hist

LEMMA ReadCacheInv ==
  ASSUME VInv, NEW p \in Proc, ReadCache(p)
  PROVE  VInv'
<1> DEFINE c == call[p]
           v == call[p].v
<1>1. c.pc \in {"keyset", "refresh"} /\ UNCHANGED <<ver, keys, refreshers, env, hist>>
  BY DEF ReadCache, Working
<1>2. Sound(c) /\ c \in Calls /\ c.v \in Existing
  BY <1>1, Busy DEF VInv
<1>3. v \in Verifiers /\ c.tok.header = "ok" /\ c.tok \in Token
      /\ c.late \in BOOLEAN
  BY <1>1, <1>2, CallFields DEF Sound, SoundIn
<1>4. c.late => v \in shut /\ ver[v].closed
  BY <1>2, <1>3 DEF Sound, SoundIn, VInv, VerInv, Existing
<1>5. EnvInv'
  BY <1>1, EnvStays DEF VInv
<1>6. Wants(p) \in {"get", "refetch"}
  BY DEF Wants
<1>7. CASE ver[v].closed
  <2>1. call' = [call EXCEPT ![p] = Ended(c, "not_ready")]
    BY <1>7 DEF ReadCache, Return, VInv, CallInv
  <2>2. Sound(Ended(c, "not_ready"))
    BY <1>2, <1>3, <1>4, HeaderRight, Ends, NotReadyFits DEF Verdict, LateVerdict
  <2> QED BY <1>1, <1>5, <2>1, <2>2, OwnStep
<1>8. CASE ~ver[v].closed /\ ver[v].cache
  <2>1. call' = [call EXCEPT ![p] = At(c, Wants(p))]
    BY <1>8 DEF ReadCache, Goto, VInv, CallInv
  <2>2. Sound(At(c, Wants(p)))
    BY <1>2, <1>3, <1>4, <1>6, <1>8, GoesOn
  <2> QED BY <1>1, <1>5, <2>1, <2>2, OwnStep
<1>9. CASE ~ver[v].closed /\ ~ver[v].cache
  <2> DEFINE new == [pc |-> "create", v |-> v, tok |-> c.tok, late |-> c.late,
                     next |-> Wants(p)]
  <2>1. call' = [call EXCEPT ![p] = new]
    BY <1>9 DEF ReadCache, Tok, VInv, CallInv
  <2>2. ~c.late
    BY <1>4, <1>9
  <2>3. new \in Calls
    BY <1>3, <1>6 DEF Calls
  <2>4. Sound(new)
    BY <1>2, <1>3, <2>2, <2>3 DEF Sound, SoundIn
  <2> HIDE DEF new
  <2> QED BY <1>1, <1>5, <2>1, <2>4, OwnStep
<1> QED BY <1>7, <1>8, <1>9

LEMMA CreateCacheInv ==
  ASSUME VInv, NEW p \in Proc, CreateCache(p)
  PROVE  VInv'
<1> DEFINE c == call[p]
           v == call[p].v
<1>1. c.pc = "create" /\ UNCHANGED <<env, hist>>
  BY DEF CreateCache, Working
<1>2. Sound(c) /\ c \in Calls /\ c.v \in Existing
  BY <1>1, Busy DEF VInv
<1>3. v \in Verifiers /\ c.tok.header = "ok" /\ ~c.late /\ c.next \in {"get", "refetch"}
  BY <1>1, <1>2, CallFields DEF Sound, SoundIn
<1>4. Sound(Ended(c, "not_ready"))
  BY <1>2, <1>3, Ends, NotReadyFits DEF Verdict
<1>5. Sound(At(c, c.next))
  BY <1>2, <1>3, GoesOn
<1>6. shut' = shut /\ age' = age
  BY <1>1 DEF hist
<1>7. CASE StillClosed(v)
  <2>1. /\ call' = [call EXCEPT ![p] = Ended(c, "not_ready")]
        /\ UNCHANGED <<ver, keys, refreshers>>
    BY <1>7 DEF CreateCache, Return, VInv, CallInv
  <2>2. EnvInv'
    BY <1>1, <2>1, EnvStays DEF VInv
  <2> QED BY <1>1, <1>4, <2>1, <2>2, OwnStep
<1>8. CASE ~StillClosed(v) /\ ~StillMissing(v)
  <2>1. /\ call' = [call EXCEPT ![p] = At(c, c.next)]
        /\ UNCHANGED <<ver, keys, refreshers>>
    BY <1>8 DEF CreateCache, Goto, VInv, CallInv
  <2>2. EnvInv'
    BY <1>1, <2>1, EnvStays DEF VInv
  <2> QED BY <1>1, <1>5, <2>1, <2>2, OwnStep
<1>9. CASE ~StillClosed(v) /\ StillMissing(v)
  <2>1. /\ call' = [call EXCEPT ![p] = At(c, c.next)]
        /\ ver' = [ver EXCEPT ![v].cache = TRUE]
        /\ keys' = [keys EXCEPT ![v] = Unfetched]
        /\ refreshers' = [refreshers EXCEPT ![v] = @ + 1]
    BY <1>9 DEF CreateCache, Goto, StartCache, VInv, CallInv
  <2>4. EnvInv'
    BY <1>1, <2>1 DEF EnvInv, VInv, env
  <2>5. ~ver[v].cache /\ ~ver[v].closed
    BY <1>9 DEF StillMissing, StillClosed
  <2>6. /\ Existing' = Existing
        /\ ver' \in [Verifiers -> {Unbuilt} \cup Fields]
        /\ ver'[v].cache /\ ver'[v].closed = ver[v].closed
        /\ ver'[v].since = ver[v].since
        /\ \A w \in Verifiers : w # v => ver'[w] = ver[w]
    <3> DEFINE r == [ver[v] EXCEPT !.cache = TRUE]
    <3>1. VerInv /\ v \in Existing /\ ver[v] \in Fields
      BY <1>2, <1>3, BuiltFields DEF VInv, Existing
    <3>2. ver' = [ver EXCEPT ![v] = r]
      BY <2>1
    <3>3. r \in Fields /\ r.cache /\ r.closed = ver[v].closed
          /\ r.since = ver[v].since
      BY <3>1 DEF Fields
    <3> HIDE DEF r, v
    <3> QED BY <3>1, <3>2, <3>3, SetFields
  <2>7. /\ refreshers' \in [Verifiers -> Nat] /\ refreshers'[v] = 1
        /\ \A w \in Verifiers : w # v => refreshers'[w] = refreshers[w]
    <3>1. refreshers \in [Verifiers -> Nat] /\ refreshers[v] = 0
      BY <1>2, <2>5 DEF VInv, VerInv, Existing
    <3> QED BY <1>3, <2>1, <3>1
  <2>8. \A w \in Verifiers : Built(w)' <=> Built(w)
    BY <2>6 DEF Existing
  <2>9. VerInv'
    BY <1>2, <1>6, <2>5, <2>6, <2>7, <2>8 DEF VInv, VerInv, Existing
  <2>10. CallInv'
    BY <1>5, <1>6, <2>1, <2>6, CallStep DEF VInv
  <2> QED BY <2>4, <2>9, <2>10 DEF VInv
<1> QED BY <1>7, <1>8, <1>9

\* What a call that looked its key up in ks does next is sound.
LEMMA UseKeysSound ==
  ASSUME VInv, NEW p \in Proc, NEW ks, UseKeys(p, ks),
         call[p].pc \in {"get", "refetch"}
  PROVE  \E c : call' = [call EXCEPT ![p] = c] /\ Sound(c)
<1> DEFINE c == call[p]
<1>1. Sound(c) /\ c \in Calls /\ c.v \in Existing
  BY Busy DEF VInv
<1>2. c.tok.header = "ok" /\ ~c.late /\ c.tok \in Token
  BY <1>1, CallFields DEF Sound, SoundIn
<1>3. CASE c.tok.kid \in ks
  <2>1. call' = [call EXCEPT ![p] = Ended(c, KeyVerdict(c.tok))]
    BY <1>3 DEF UseKeys, Return, Tok, VInv, CallInv
  <2>2. Sound(Ended(c, KeyVerdict(c.tok)))
    BY <1>1, <1>2, KeyVerdictRight, Ends
  <2> QED BY <2>1, <2>2
<1>4. CASE c.tok.kid \notin ks /\ c.pc = "get"
  <2>1. call' = [call EXCEPT ![p] = At(c, "miss")]
    BY <1>4 DEF UseKeys, Goto, Tok, Working, VInv, CallInv
  <2>2. Sound(At(c, "miss"))
    BY <1>1, <1>2, GoesOn
  <2> QED BY <2>1, <2>2
<1>5. CASE c.tok.kid \notin ks /\ c.pc = "refetch"
  <2>1. call' = [call EXCEPT ![p] = Ended(c, "not_ready")]
    BY <1>5 DEF UseKeys, Return, Tok, Working, UnknownKey, VInv, CallInv
  <2>2. Sound(Ended(c, "not_ready"))
    BY <1>1, <1>2, Ends, NotReadyFits DEF Verdict
  <2> QED BY <2>1, <2>2
<1> QED BY <1>3, <1>4, <1>5

LEMMA GetKeysInv ==
  ASSUME VInv, NEW p \in Proc, GetKeys(p)
  PROVE  VInv'
<1> DEFINE v == call[p].v
<1>1. call[p].pc = "get" /\ UNCHANGED <<ver, refreshers, env, hist>>
  BY DEF GetKeys, Working
<1>2. \E ks : UseKeys(p, ks)
  BY DEF GetKeys
<1>3. PICK c : call' = [call EXCEPT ![p] = c] /\ Sound(c)
  BY <1>1, <1>2, UseKeysSound
<1>4. EnvInv'
  <2>1. keys' = keys \/ keys' = [keys EXCEPT ![v] = Fetched(published)]
    BY DEF GetKeys
  <2>2. Fetched(published) \in [fetched : {TRUE}, keys : SUBSET Kid]
    BY DEF VInv, EnvInv, Fetched
  <2> HIDE DEF v
  <2> QED BY <1>1, <2>1, <2>2 DEF VInv, EnvInv, env
<1> QED BY <1>1, <1>3, <1>4, OwnStep

LEMMA RefetchInv ==
  ASSUME VInv, NEW p \in Proc, Refetch(p)
  PROVE  VInv'
<1>1. call[p].pc = "refetch" /\ UNCHANGED <<ver, refreshers, env, hist>>
      /\ UseKeys(p, published)
  BY DEF Refetch, Working
<1>2. PICK c : call' = [call EXCEPT ![p] = c] /\ Sound(c)
  BY <1>1, UseKeysSound
<1>3. EnvInv'
  BY <1>1 DEF Refetch, VInv, EnvInv, Fetched, env
<1> QED BY <1>1, <1>2, <1>3, OwnStep

LEMMA AllowInv ==
  ASSUME VInv, NEW p \in Proc, AllowForcedRefresh(p)
  PROVE  VInv'
<1> DEFINE c == call[p]
           v == call[p].v
<1>1. c.pc = "miss" /\ UNCHANGED <<keys, refreshers, env, shut>>
  BY DEF AllowForcedRefresh, Working
<1>2. Sound(c) /\ c \in Calls /\ c.v \in Existing
  BY <1>1, Busy DEF VInv
<1>3. v \in Verifiers /\ c.tok.header = "ok" /\ ~c.late
  BY <1>1, <1>2, CallFields DEF Sound, SoundIn
<1>4. EnvInv'
  BY <1>1, EnvStays DEF VInv
<1>5. ver[v] \in Fields /\ ver \in [Verifiers -> {Unbuilt} \cup Fields]
  BY <1>2, <1>3, BuiltFields DEF VInv, VerInv, Existing
<1>6. CASE MayForce(v)
  <2>1. /\ call' = [call EXCEPT ![p] = At(c, "refresh")]
        /\ ver' = [ver EXCEPT ![v] = Granted(ver[v])]
        /\ age' = [age EXCEPT ![v] = 0]
    BY <1>6 DEF AllowForcedRefresh, Goto, VInv, CallInv
  <2>2. Sound(At(c, "refresh"))
    BY <1>2, <1>3, GoesOn
  <2>3. /\ Granted(ver[v]) \in Fields /\ Granted(ver[v]).since = 0
        /\ Granted(ver[v]).cache = ver[v].cache
        /\ Granted(ver[v]).closed = ver[v].closed
    BY <1>5, IntervalNat DEF Granted, Fields
  <2>4. /\ Existing' = Existing
        /\ ver' \in [Verifiers -> {Unbuilt} \cup Fields]
        /\ ver'[v] = Granted(ver[v])
        /\ \A w \in Verifiers : w # v => ver'[w] = ver[w]
    BY <1>2, <2>1, <2>3, SetFields DEF VInv
  <2>5. \A w \in Verifiers : Built(w)' <=> Built(w)
    BY <2>4 DEF Existing
  <2>6. /\ age' \in [Verifiers -> 0..Interval] /\ age'[v] = 0
        /\ \A w \in Verifiers : w # v => age'[w] = age[w]
    BY <1>3, <2>1, IntervalNat DEF VInv, VerInv
  <2>7. VerInv'
    BY <1>1, <1>2, <2>3, <2>4, <2>5, <2>6 DEF VInv, VerInv, Existing
  <2>8. CallInv'
    BY <1>1, <2>1, <2>2, <2>4, CallStep DEF VInv
  <2> QED BY <1>4, <2>7, <2>8 DEF VInv
<1>7. CASE ~MayForce(v)
  <2>1. /\ call' = [call EXCEPT ![p] = Ended(c, "not_ready")]
        /\ ver' = [ver EXCEPT ![v] = ver[v]] /\ age' = age
    BY <1>7 DEF AllowForcedRefresh, Return, UnknownKey, Declined, VInv, CallInv
  <2>2. ver' = ver
    BY <1>5, <2>1
  <2>3. Sound(Ended(c, "not_ready"))
    BY <1>2, <1>3, Ends, NotReadyFits DEF Verdict
  <2> QED BY <1>1, <1>4, <2>1, <2>2, <2>3, OwnStep DEF hist
<1> QED BY <1>6, <1>7

\* A fetch that fails or is given up.
LEMMA GiveUpInv ==
  ASSUME VInv, NEW p \in Proc, FetchFails(p) \/ CallerLeaves(p)
  PROVE  VInv'
<1> DEFINE c == call[p]
<1>1. /\ c.pc \in {"get", "refetch"} /\ UNCHANGED <<ver, keys, refreshers, env, hist>>
      /\ call' = [call EXCEPT ![p] = Ended(c, "not_ready")]
  BY DEF FetchFails, CallerLeaves, Fetching, Working, Return, VInv, CallInv
<1>2. Sound(c) /\ c \in Calls /\ c.v \in Existing
  BY <1>1, Busy DEF VInv
<1>3. ~c.late
  BY <1>1, <1>2, CallFields DEF Sound, SoundIn
<1>4. Sound(Ended(c, "not_ready"))
  BY <1>2, <1>3, Ends, NotReadyFits DEF Verdict
<1>5. EnvInv'
  BY <1>1, EnvStays DEF VInv
<1> QED BY <1>1, <1>4, <1>5, OwnStep

LEMMA TakeInv ==
  ASSUME VInv, NEW p \in Proc, Take(p)
  PROVE  VInv'
<1>1. /\ call' = [call EXCEPT ![p] = Idle]
      /\ UNCHANGED <<ver, keys, refreshers, env, hist>>
  BY DEF Take
<1>2. CallInv'
  BY <1>1, CallStep, VerifiersStay DEF VInv, hist
<1> QED BY <1>1, <1>2, VerStays, EnvStays DEF VInv, hist

LEMMA VNextInv == VInv /\ [Next]_vvars => VInv'
<1> SUFFICES ASSUME VInv, [Next]_vvars PROVE VInv'
  OBVIOUS
<1>1. CASE UNCHANGED vvars
  BY <1>1, VerStays, CallsStay, VerifiersStay, EnvStays DEF vvars, VInv, env
<1>2. ASSUME NEW p \in Proc, Verify(p)
      PROVE  VInv'
  BY <1>2, BeginInv DEF Verify
<1>3. ASSUME NEW p \in Proc, VerifyStep(p) \/ CallerLeaves(p)
      PROVE  VInv'
  BY <1>3, ReadCacheInv, CreateCacheInv, GetKeysInv, AllowInv, RefetchInv, GiveUpInv
     DEF VerifyStep
<1> QED BY <1>1, <1>2, <1>3, WorldInv, CloseInv, TakeInv DEF Next

LEMMA VInvariance == Spec => []VInv
<1>1. Init => VInv
  BY VInitInv DEF Init
<1> QED BY <1>1, VNextInv, PTL DEF Spec

-----------------------------------------------------------------------------
(* Theorems *)

\* What the invariant promises.
LEMMA Promises ==
  ASSUME VInv
  PROVE  TypeOK /\ NoStrayRefresher /\ ClosedFailsClosed /\ TokenFaultsOnly
<1>1. TypeOK
  BY DEF VInv, VerInv, CallInv, EnvInv, TypeOK, Fields
<1>2. NoStrayRefresher
  BY DEF VInv, VerInv, NoStrayRefresher
<1>3. ASSUME NEW p \in Proc, call[p].pc = "done", call[p].late
      PROVE  call[p].result = LateVerdict(call[p].tok)
  BY <1>3, Busy DEF VInv, Sound, SoundIn
<1>4. ASSUME NEW p \in Proc, call[p].pc = "done"
      PROVE  VerdictFits(call[p].tok, call[p].result)
  BY <1>4, Busy DEF VInv, Sound, SoundIn
<1>5. ClosedFailsClosed
  BY <1>3 DEF ClosedFailsClosed, Working, Tok, LateVerdict
<1>6. TokenFaultsOnly
  BY <1>4 DEF TokenFaultsOnly, Working, Tok, VerdictFits
<1> QED BY <1>1, <1>2, <1>5, <1>6

\* Type correctness.
THEOREM VerifierTypes == Spec => []TypeOK
BY Promises, VInvariance, PTL

\* However first uses and Close interleave, a verifier never has a second
\* refresher, and none after Close.
THEOREM OneRefresher == Spec => []NoStrayRefresher
BY Promises, VInvariance, PTL

\* Verify on a closed verifier is not ready, whatever the token's key and claims; a
\* token whose header is faulty is told so.
THEOREM FailsClosed == Spec => []ClosedFailsClosed
BY Promises, VInvariance, PTL

\* Only the token is blamed on the caller, and no bad token yields claims.
THEOREM Blame == Spec => []TokenFaultsOnly
BY Promises, VInvariance, PTL

\* A step of one call: it begins, goes on, or its result is taken.
CallMoves(q) ==
  \/ \E v \in Verifiers, tok \in Token : BeginVerify(q, v, tok)
  \/ VerifyStep(q) \/ CallerLeaves(q)
  \/ call' = [call EXCEPT ![q] = Idle]

\* A call is granted a forced refetch only by the rate limit.
LEMMA GrantSpaced ==
  ASSUME VInv, UNCHANGED call \/ \E q \in Proc : CallMoves(q)
  PROVE  \A v \in Verifiers : Grants(v) => age[v] >= Interval
<1> SUFFICES ASSUME NEW p \in Proc, call[p].pc = "miss", call'[p].pc = "refresh"
             PROVE  age[call[p].v] >= Interval
  BY DEF Grants, Working
<1>1. call'[p] # call[p]
  OBVIOUS
<1>2. PICK q \in Proc : CallMoves(q)
  BY <1>1
<1>3. \E c : call' = [call EXCEPT ![q] = c]
  BY <1>2 DEF CallMoves, BeginVerify, VerifyStep, ReadCache, CreateCache, GetKeys,
     AllowForcedRefresh, Refetch, FetchFails, CallerLeaves, UseKeys, Return, Goto
<1>4. q = p
  BY <1>1, <1>3 DEF VInv, CallInv
<1>5. ASSUME NEW c, call' = [call EXCEPT ![q] = c] PROVE c.pc = "refresh"
  BY <1>4, <1>5 DEF VInv, CallInv
<1>6. ~\E v \in Verifiers, tok \in Token : BeginVerify(q, v, tok)
  BY <1>5 DEF BeginVerify, At, Ended
<1>7. call' # [call EXCEPT ![q] = Idle]
  BY <1>5 DEF Idle
<1>8. AllowForcedRefresh(p)
  BY <1>2, <1>4, <1>6, <1>7 DEF CallMoves, VerifyStep, ReadCache, CreateCache, GetKeys,
     Refetch, FetchFails, CallerLeaves, Fetching, Working
<1>9. MayForce(call[p].v)
  <2>1. ~MayForce(call[p].v) => call'[p].pc = "done"
    BY <1>8 DEF AllowForcedRefresh, Return, Ended, VInv, CallInv
  <2> QED BY <2>1
<1>10. call[p].v \in Existing
  BY Busy DEF VInv
<1> QED BY <1>9, <1>10 DEF MayForce, VInv, VerInv, Existing

\* Forced refetches of a verifier are Interval apart, whatever kids are asked for.
THEOREM Spaced == Spec => ForcedRefreshesSpaced
<1>1. ASSUME VInv, [Next]_vvars
      PROVE  [\A v \in Verifiers : Grants(v) => age[v] >= Interval]_vvars
  <2>1. UNCHANGED call \/ \E q \in Proc : CallMoves(q)
    BY <1>1 DEF Next, World, Rotate, EndpointChanges, Tick, BackgroundRefresh, Close, vvars,
       Verify, Take, CallMoves
  <2> QED BY <1>1, <2>1, GrantSpaced
<1> QED BY <1>1, VInvariance, PTL DEF Spec, ForcedRefreshesSpaced

-----------------------------------------------------------------------------
(* Middleware: the invariant *)

Answers == {"user", "anonymous", "missing_token", "missing_scope", "not_configured",
            "verifier_unavailable", "nothing"} \cup TokenErrors

Waiting  == [pc : {"load", "wait", "build"}, tok : Token, gone : BOOLEAN,
             dark : BOOLEAN, late : BOOLEAN]
Holding  == [pc : {"have"}, tok : Token, gone : BOOLEAN, dark : BOOLEAN,
             late : BOOLEAN, v : Verifiers \cup {Custom}]
Checking == [pc : {"verify"}, tok : Token, gone : BOOLEAN, dark : BOOLEAN,
             late : BOOLEAN]
Replied  == [pc : {"answered"}, tok : Token \cup {NoToken}, gone : BOOLEAN,
             dark : BOOLEAN, late : BOOLEAN, answer : Answers]

\* An answer that may stay as it is.
RightAnswer(r) ==
  /\ IF r.answer = "nothing" THEN r.gone ELSE Fits(r.tok, r.answer)
  /\ r.late => r.answer # "user"

\* A request r whose Verify call is c, at a gate that points to g: it has not
\* missed that the coordinates are missing, it holds the gate's own verifier, and
\* its call has its token and began after Close if the request did.
Sane(r, c, g, closed, discoverable) ==
  \/ r = NoRequest /\ c = Idle
  \/ /\ r \in Waiting /\ c = Idle
     /\ r.late => g \in closed
     /\ discoverable \/ r.dark
  \/ /\ r \in Holding /\ c = Idle
     /\ r.late => g \in closed
     /\ r.v = g
  \/ /\ r \in Checking /\ c \in Calls
     /\ c.tok = r.tok
     /\ r.late => c.late
  \/ /\ r \in Replied /\ c = Idle
     /\ RightAnswer(r)
     /\ r.answer = "not_configured" => r.dark /\ g \notin {Custom} \cup Supplied

Reqs ==
  /\ req = [p \in Proc |-> req[p]]
  /\ \A p \in Proc : Sane(req[p], call[p], gate, shut, coords)

\* The mutex is held by the one request that builds, while there is no verifier.
Mutex ==
  /\ mu \subseteq Proc
  /\ \A p, q \in mu : p = q
  /\ \A p \in Proc : p \in mu <=> req[p].pc = "build"
  /\ mu # {} => gate = NoVerifier

\* The verifier that was built is the one the gate points to.
Pointer ==
  /\ gate \in {NoVerifier, Custom} \cup Verifiers
  /\ Existing = {gate} \cap Verifiers
  /\ coords \in BOOLEAN

GInv == VInv /\ Pointer /\ Mutex /\ Reqs

-----------------------------------------------------------------------------
(* Scopes and answers *)

\* extractScopes grants what the first spelling that carries scopes says.
LEMMA ScopesRight ==
  ASSUME NEW tok \in Token
  PROVE  ScopesMissing(tok) <=> ~HoldsScopes(tok)
<1>1. ASSUME Carried(tok) = {}
      PROVE  ScopesMissing(tok) <=> ~HoldsScopes(tok)
  <2>1. \A s \in Spellings : tok.scopes[s] = {}
    BY <1>1 DEF Carried
  <2>2. Spellings # {}
    BY MiddlewareAssumption
  <2> QED BY <1>1, <2>1, <2>2 DEF ScopesMissing, GrantedScopes, HoldsScopes
<1>2. ASSUME Carried(tok) # {}
      PROVE  ScopesMissing(tok) <=> ~HoldsScopes(tok)
  <2> DEFINE First(s) == s \in Carried(tok)
                         /\ \A t \in Carried(tok) \ {s} : Precedes(s, t)
             f == CHOOSE s \in Carried(tok) :
                    \A t \in Carried(tok) \ {s} : Precedes(s, t)
  <2>1. Carried(tok) \in (SUBSET Spellings) \ {{}}
    BY <1>2 DEF Carried
  <2>2. \E s : First(s)
    BY <2>1, MiddlewareAssumption
  <2>3. First(f)
    BY <2>2
  <2>4. GrantedScopes(tok) = tok.scopes[f]
    BY <1>2 DEF GrantedScopes
  <2>5. f \in Spellings /\ tok.scopes[f] # {}
    BY <2>3 DEF Carried
  <2>6. \A s, t \in Spellings : s # t => ~(Precedes(s, t) /\ Precedes(t, s))
    <3> SUFFICES ASSUME NEW s \in Spellings, NEW t \in Spellings, s # t
                 PROVE  ~(Precedes(s, t) /\ Precedes(t, s))
      OBVIOUS
    <3>1. {s, t} \in (SUBSET Spellings) \ {{}}
      OBVIOUS
    <3>2. PICK x \in {s, t} : \A y \in {s, t} \ {x} : Precedes(x, y) /\ ~Precedes(y, x)
      BY <3>1, MiddlewareAssumption
    <3> QED BY <3>2
  <2>7. ASSUME Required \subseteq tok.scopes[f]
        PROVE  HoldsScopes(tok)
    <3>1. ASSUME NEW t \in Spellings \ {f}, Precedes(t, f)
          PROVE  tok.scopes[t] = {}
      <4>1. t \in Carried(tok) => Precedes(f, t)
        BY <2>3
      <4> QED BY <2>5, <2>6, <3>1, <4>1 DEF Carried
    <3> QED BY <2>5, <2>7, <3>1 DEF HoldsScopes
  <2>8. ASSUME HoldsScopes(tok)
        PROVE  Required \subseteq tok.scopes[f]
    <3>1. PICK s \in Spellings :
            /\ Required \subseteq tok.scopes[s]
            /\ \A t \in Spellings \ {s} : Precedes(t, s) => tok.scopes[t] = {}
      BY <2>8 DEF HoldsScopes
    <3>2. CASE s = f
      BY <3>1, <3>2
    <3>3. CASE s # f
      <4>1. ~Precedes(f, s)
        BY <2>5, <3>1, <3>3
      <4>2. tok.scopes[s] = {}
        BY <2>3, <3>3, <4>1 DEF Carried
      <4> QED BY <3>1, <4>2
    <3> QED BY <3>2, <3>3
  <2> HIDE DEF f
  <2> QED BY <2>4, <2>7, <2>8 DEF ScopesMissing
<1> QED BY <1>1, <1>2

\* What Verify may say of a token: JWKSVerifier by its invariant, a verifier of the
\* application's by what is assumed of it.
Says(tok, res) ==
  \/ res \in {"not_ready", "error"}
  \/ GoodToken(tok) /\ res = "claims"
  \/ GoodToken(tok) /\ res = "missing_scope" /\ ScopesMissing(tok)
  \/ ~GoodToken(tok) /\ res \in TokenErrors

LEMMA AnswerRight ==
  ASSUME NEW r, r.tok \in Token, r.gone \in BOOLEAN, NEW res, Says(r.tok, res),
         r.late => res # "claims"
  PROVE  LET a == AnswerTo(r, res)
         IN  /\ a \in Answers /\ a # "not_configured"
             /\ IF a = "nothing" THEN r.gone ELSE Fits(r.tok, a)
             /\ r.late => a # "user"
<1> DEFINE a == AnswerTo(r, res)
<1>1. r.tok # NoToken
  BY MiddlewareAssumption
<1>2. CASE res = "claims"
  <2>1. a = IF ScopesMissing(r.tok) THEN "missing_scope" ELSE "user"
    BY <1>2 DEF AnswerTo, TokenErrors
  <2>2. GoodToken(r.tok) /\ ~r.late
    BY <1>2 DEF Says, TokenErrors
  <2> QED BY <1>1, <2>1, <2>2, ScopesRight DEF Answers, Fits, Status, TokenErrors
<1>3. CASE res = "not_ready"
  <2>1. a = "verifier_unavailable"
    BY <1>3 DEF AnswerTo, TokenErrors
  <2> QED BY <1>1, <2>1 DEF Answers, Fits, Status, TokenErrors
<1>4. CASE res = "missing_scope"
  <2>1. a = "missing_scope"
    BY <1>4 DEF AnswerTo, TokenErrors
  <2>2. GoodToken(r.tok) /\ ScopesMissing(r.tok)
    BY <1>4 DEF Says, TokenErrors
  <2> QED BY <1>1, <2>1, <2>2, ScopesRight DEF Answers, Fits, Status, TokenErrors
<1>5. CASE res \in TokenErrors
  <2>1. a = res
    BY <1>5 DEF AnswerTo, TokenErrors
  <2>2. ~GoodToken(r.tok)
    BY <1>5 DEF Says, TokenErrors
  <2> QED BY <1>1, <1>5, <2>1, <2>2 DEF Answers, Fits, Status, TokenErrors
<1>6. CASE res = "error"
  <2>1. a = IF r.gone THEN "nothing" ELSE "verifier_unavailable"
    BY <1>6 DEF AnswerTo, TokenErrors
  <2> QED BY <1>1, <2>1 DEF Answers, Fits, Status, TokenErrors
<1>7. res \in {"claims", "not_ready", "missing_scope", "error"} \cup TokenErrors
  BY DEF Says
<1> QED BY <1>2, <1>3, <1>4, <1>5, <1>6, <1>7

-----------------------------------------------------------------------------
(* What Verifier's steps do to the gate's view *)

LEMMA VStays ==
  ASSUME VInv, UNCHANGED vvars
  PROVE  VInv' /\ Existing' = Existing
BY VNextInv, VerifiersStay DEF vvars

LEMMA WorldMoves ==
  ASSUME VInv, World
  PROVE  VInv' /\ Existing' = Existing /\ UNCHANGED <<call, shut>>
<1>1. UNCHANGED <<call, shut>>
  BY DEF World, Rotate, EndpointChanges, Tick, BackgroundRefresh, hist
<1>2. Existing' = Existing
  <2>1. CASE Tick
    BY <2>1, TickInv
  <2>2. CASE ~Tick
    BY <2>2, VerifiersStay DEF World, Rotate, EndpointChanges, BackgroundRefresh
  <2> QED BY <2>1, <2>2
<1> QED BY <1>1, <1>2, WorldInv

\* Verify builds nothing.
LEMMA VerifyBuilds ==
  ASSUME VInv, NEW p \in Proc, VerifyStep(p) \/ CallerLeaves(p)
  PROVE  Existing' = Existing /\ shut' = shut
<1> DEFINE v == call[p].v
<1>1. shut' = shut
  BY DEF VerifyStep, ReadCache, CreateCache, GetKeys, AllowForcedRefresh, Refetch,
     FetchFails, CallerLeaves, hist
<1>2. CASE CreateCache(p)
  <2>1. call[p].pc = "create" /\ (ver' = ver \/ StartCache(v))
    BY <1>2 DEF CreateCache, Working
  <2>2. v \in Existing /\ ver[v] \in Fields
    BY <2>1, Busy, BuiltFields DEF VInv, Existing
  <2>3. [ver[v] EXCEPT !.cache = TRUE] \in Fields
    BY <2>2 DEF Fields
  <2>4. StartCache(v) => ver' = [ver EXCEPT ![v] = [ver[v] EXCEPT !.cache = TRUE]]
    BY DEF StartCache
  <2> HIDE DEF v
  <2> QED BY <1>1, <2>1, <2>2, <2>3, <2>4, SetFields, VerifiersStay DEF VInv
<1>3. CASE AllowForcedRefresh(p)
  <2>1. /\ call[p].pc = "miss"
        /\ \/ ver' = [ver EXCEPT ![v] = Granted(ver[v])]
           \/ ver' = [ver EXCEPT ![v] = Declined(ver[v])]
    BY <1>3 DEF AllowForcedRefresh, Working
  <2>2. v \in Existing /\ ver[v] \in Fields
    BY <2>1, Busy, BuiltFields DEF VInv, Existing
  <2>3. Granted(ver[v]) \in Fields /\ Declined(ver[v]) \in Fields
    BY <2>2, IntervalNat DEF Fields, Granted, Declined
  <2> HIDE DEF v
  <2> QED BY <1>1, <2>1, <2>2, <2>3, SetFields DEF VInv
<1>4. CASE ~CreateCache(p) /\ ~AllowForcedRefresh(p)
  <2>1. ver' = ver
    BY <1>4 DEF VerifyStep, ReadCache, GetKeys, Refetch, FetchFails, CallerLeaves
  <2> QED BY <1>1, <2>1, VerifiersStay
<1> QED BY <1>2, <1>3, <1>4

\* A call keeps its token and its age to the end.
LEMMA VerifyMoves ==
  ASSUME VInv, NEW p \in Proc, VerifyStep(p) \/ CallerLeaves(p)
  PROVE  /\ VInv'
         /\ call[p].pc # "idle"
         /\ \E d \in Calls : /\ call' = [call EXCEPT ![p] = d]
                             /\ d.tok = call[p].tok /\ d.late = call[p].late
<1> DEFINE c == call[p]
<1>1. VInv'
  BY ReadCacheInv, CreateCacheInv, GetKeysInv, AllowInv, RefetchInv, GiveUpInv
     DEF VerifyStep
<1>2. c.pc # "idle"
  BY DEF VerifyStep, ReadCache, CreateCache, GetKeys, AllowForcedRefresh, Refetch,
     FetchFails, CallerLeaves, Fetching, Working
<1>3. call = [q \in Proc |-> call[q]]
  BY DEF VInv, CallInv
<1>4. \/ \E label : call' = [call EXCEPT ![p] = At(c, label)]
      \/ \E res : call' = [call EXCEPT ![p] = Ended(c, res)]
      \/ \E next : call' = [call EXCEPT ![p] =
           [pc |-> "create", v |-> c.v, tok |-> c.tok, late |-> c.late, next |-> next]]
  <2>1. ReadCache(p) => \/ Return(p, "not_ready") \/ Goto(p, Wants(p))
                        \/ call' = [call EXCEPT ![p] =
                             [pc |-> "create", v |-> c.v, tok |-> c.tok,
                              late |-> c.late, next |-> Wants(p)]]
    BY <1>3 DEF ReadCache, Tok
  <2>2. CreateCache(p) => Return(p, "not_ready") \/ Goto(p, c.next)
    BY DEF CreateCache
  <2>3. GetKeys(p) \/ Refetch(p) => \E ks : UseKeys(p, ks)
    BY DEF GetKeys, Refetch
  <2>4. \A ks : UseKeys(p, ks) => \/ Return(p, KeyVerdict(Tok(p))) \/ Goto(p, "miss")
                                  \/ Return(p, UnknownKey)
    BY DEF UseKeys
  <2>5. AllowForcedRefresh(p) => Goto(p, "refresh") \/ Return(p, UnknownKey)
    BY DEF AllowForcedRefresh
  <2>6. FetchFails(p) \/ CallerLeaves(p) => Return(p, "not_ready")
    BY DEF FetchFails, CallerLeaves
  <2>7. \/ \E label : Goto(p, label)
        \/ \E res : Return(p, res)
        \/ \E next : call' = [call EXCEPT ![p] =
             [pc |-> "create", v |-> c.v, tok |-> c.tok, late |-> c.late, next |-> next]]
    BY <2>1, <2>2, <2>3, <2>4, <2>5, <2>6 DEF VerifyStep
  <2>8. \A label : Goto(p, label) => call' = [call EXCEPT ![p] = At(c, label)]
    BY DEF Goto
  <2>9. \A res : Return(p, res) => call' = [call EXCEPT ![p] = Ended(c, res)]
    BY DEF Return
  <2> QED BY <2>7, <2>8, <2>9
<1>5. c \in Calls
  BY <1>2, Busy DEF VInv
<1>6. PICK d : /\ call' = [call EXCEPT ![p] = d]
               /\ d.tok = c.tok /\ d.late = c.late /\ d.v = c.v
               /\ \E label : d = At(c, label) \/ d = Ended(c, label)
                    \/ d = [pc |-> "create", v |-> c.v, tok |-> c.tok,
                            late |-> c.late, next |-> label]
  BY <1>4 DEF At, Ended
<1>7. call'[p] = d
  BY <1>3, <1>6
<1>8. d # Idle
  <2>1. \A label : /\ At(c, label) # Idle /\ Ended(c, label) # Idle
                   /\ [pc |-> "create", v |-> c.v, tok |-> c.tok, late |-> c.late,
                       next |-> label] # Idle
    BY DEF At, Ended, Idle
  <2> QED BY <1>6, <2>1
<1>9. d \in Calls
  BY <1>1, <1>7, <1>8 DEF VInv, CallInv
<1> QED BY <1>1, <1>2, <1>6, <1>9

-----------------------------------------------------------------------------
(* How one request moves *)

Now(r, c) == Sane(r, c, gate, shut, coords)

\* What is known of a request, by its phase.
LEMMA Phases ==
  ASSUME GInv, NEW p \in Proc
  PROVE  LET r == req[p] IN
         /\ r.pc = "none" => r = NoRequest /\ call[p] = Idle
         /\ r.pc \in {"load", "wait", "build"} =>
              /\ r \in Waiting /\ call[p] = Idle /\ (r.late => gate \in shut)
              /\ coords \/ r.dark
         /\ r.pc = "have" => /\ r \in Holding /\ call[p] = Idle /\ r.v = gate
                             /\ r.late => gate \in shut
         /\ r.pc = "verify" => /\ r \in Checking /\ call[p] \in Calls
                               /\ call[p].tok = r.tok /\ (r.late => call[p].late)
         /\ r.pc = "answered" =>
              /\ r \in Replied /\ call[p] = Idle /\ RightAnswer(r)
              /\ r.answer = "not_configured" => r.dark /\ gate \notin {Custom} \cup Supplied
         /\ r.pc \in {"none", "load", "wait", "build", "have", "verify", "answered"}
<1> DEFINE r == req[p]
<1>1. Now(r, call[p])
  BY DEF GInv, Reqs, Now
<1>2. CASE r = NoRequest /\ call[p] = Idle
  BY <1>2 DEF NoRequest
<1>3. CASE /\ r \in Waiting /\ call[p] = Idle /\ (r.late => gate \in shut)
           /\ coords \/ r.dark
  BY <1>3 DEF Waiting
<1>4. CASE /\ r \in Holding /\ call[p] = Idle /\ r.v = gate
           /\ r.late => gate \in shut
  BY <1>4 DEF Holding
<1>5. CASE /\ r \in Checking /\ call[p] \in Calls
           /\ call[p].tok = r.tok /\ (r.late => call[p].late)
  BY <1>5 DEF Checking
<1>6. CASE /\ r \in Replied /\ call[p] = Idle /\ RightAnswer(r)
           /\ r.answer = "not_configured" => r.dark /\ gate \notin {Custom} \cup Supplied
  BY <1>6 DEF Replied
<1> QED BY <1>1, <1>2, <1>3, <1>4, <1>5, <1>6 DEF Now, Sane

\* A step of p's request and of its call, with the gate as it is.
LEMMA ReqMoves ==
  ASSUME GInv, NEW p \in Proc, NEW r, NEW c, req' = [req EXCEPT ![p] = r],
         call' = [call EXCEPT ![p] = c], UNCHANGED <<gate, shut, coords>>, Now(r, c)
  PROVE  Reqs'
<1>1. \A x, y : Now(x, y) <=> Sane(x, y, gate', shut', coords')
  BY DEF Now
<1>2. /\ req = [q \in Proc |-> req[q]] /\ call = [q \in Proc |-> call[q]]
      /\ \A q \in Proc : Now(req[q], call[q])
  BY DEF GInv, Reqs, Now, VInv, CallInv
<1>3. /\ req' = [q \in Proc |-> req'[q]]
      /\ \A q \in Proc : /\ req'[q] = IF q = p THEN r ELSE req[q]
                         /\ call'[q] = IF q = p THEN c ELSE call[q]
  BY <1>2
<1>4. \A q \in Proc : Now(req'[q], call'[q])
  BY <1>2, <1>3
<1> QED BY <1>1, <1>3, <1>4 DEF Reqs

LEMMA MutexStays ==
  ASSUME GInv, NEW p \in Proc, NEW r, req' = [req EXCEPT ![p] = r],
         r.pc = "build" <=> req[p].pc = "build", UNCHANGED <<gate, mu>>
  PROVE  Mutex'
<1>1. req = [q \in Proc |-> req[q]]
  BY DEF GInv, Reqs
<1>2. \A q \in Proc : req'[q] = IF q = p THEN r ELSE req[q]
  BY <1>1
<1> QED BY <1>2 DEF GInv, Mutex

LEMMA PointerStays ==
  ASSUME Pointer, UNCHANGED <<gate, coords>>, Existing' = Existing
  PROVE  Pointer'
BY DEF Pointer

\* A request goes on without the verifier, the pointer and the mutex.
LEMMA Quiet ==
  ASSUME GInv, NEW p \in Proc, NEW r, req' = [req EXCEPT ![p] = r],
         UNCHANGED <<vvars, gate, mu, coords>>, Now(r, call[p]),
         r.pc = "build" <=> req[p].pc = "build"
  PROVE  GInv'
<1>1. call' = [call EXCEPT ![p] = call[p]] /\ shut' = shut
  BY DEF GInv, VInv, CallInv, vvars
<1>2. Reqs'
  BY <1>1, ReqMoves
<1>3. VInv' /\ Existing' = Existing
  BY VStays DEF GInv
<1> QED BY <1>2, <1>3, MutexStays, PointerStays DEF GInv

\* Something happens around requests that go on with their calls.
LEMMA Around ==
  ASSUME GInv, VInv', Existing' = Existing, UNCHANGED mvars,
         call' = call, shut \subseteq shut'
  PROVE  GInv'
<1>1. ASSUME NEW r, NEW c, Sane(r, c, gate, shut, coords)
      PROVE  Sane(r, c, gate, shut', coords)
  BY <1>1 DEF Sane
<1>2. Reqs'
  BY <1>1 DEF GInv, Reqs, mvars
<1>3. Mutex' /\ Pointer'
  BY PointerStays DEF GInv, Mutex, mvars
<1> QED BY <1>2, <1>3 DEF GInv

-----------------------------------------------------------------------------
(* Steps of a request *)

LEMMA ArriveInv ==
  ASSUME GInv, NEW p \in Proc, Arrive(p)
  PROVE  GInv'
<1>1. /\ req[p] = NoRequest /\ UNCHANGED <<vvars, gate, mu, coords>>
      /\ call[p] = Idle /\ coords \in BOOLEAN /\ (gate \in shut) \in BOOLEAN
  BY Phases DEF Arrive, NoRequest, GInv, Pointer
<1>2. PICK tok \in Presented :
        LET r == [tok |-> tok, gone |-> FALSE, dark |-> ~coords, late |-> gate \in shut]
        IN  req' = [req EXCEPT ![p] =
              IF tok # NoToken THEN Step(r, "load")
              ELSE Reply(r, IF RequireAuth THEN "missing_token" ELSE "anonymous")]
  BY DEF Arrive
<1>3. CASE tok # NoToken
  <2> DEFINE r == [pc |-> "load", tok |-> tok, gone |-> FALSE, dark |-> ~coords,
                   late |-> gate \in shut]
  <2>1. req' = [req EXCEPT ![p] = r]
    BY <1>2, <1>3 DEF Step
  <2>2. r \in Waiting
    BY <1>1, <1>3 DEF Waiting, Presented
  <2>3. Now(r, call[p])
    BY <1>1, <2>2 DEF Now, Sane
  <2>4. r.pc # "build" /\ req[p].pc # "build"
    BY <1>1 DEF NoRequest
  <2> HIDE DEF r
  <2> QED BY <1>1, <2>1, <2>3, <2>4, Quiet
<1>4. CASE tok = NoToken
  <2> DEFINE a == IF RequireAuth THEN "missing_token" ELSE "anonymous"
             r == [pc |-> "answered", tok |-> tok, gone |-> FALSE, dark |-> ~coords,
                   late |-> gate \in shut, answer |-> a]
  <2>1. req' = [req EXCEPT ![p] = r]
    BY <1>2, <1>4 DEF Reply
  <2>2. r \in Replied /\ r.answer \notin {"nothing", "user", "not_configured"}
    BY <1>1, <1>4 DEF Replied, Answers
  <2>3. Fits(tok, a)
    BY <1>4 DEF Fits
  <2>4. Now(r, call[p])
    BY <1>1, <2>2, <2>3 DEF Now, Sane, RightAnswer
  <2>5. r.pc # "build" /\ req[p].pc # "build"
    BY <1>1 DEF NoRequest
  <2> HIDE DEF r
  <2> QED BY <1>1, <2>1, <2>4, <2>5, Quiet
<1> QED BY <1>3, <1>4

\* A request that waits gets the gate's verifier.
LEMMA GetsVerifier ==
  ASSUME GInv, NEW p \in Proc, req[p].pc \in {"load", "wait"}, gate # NoVerifier,
         NEW r, r = Having(req[p], gate)
  PROVE  Now(r, call[p]) /\ r.pc = "have"
<1>1. /\ req[p] \in Waiting /\ call[p] = Idle /\ (req[p].late => gate \in shut)
      /\ gate \in Verifiers \cup {Custom}
  BY Phases DEF GInv, Pointer
<1>2. /\ r \in Holding /\ r.v = gate /\ r.late = req[p].late /\ r.pc = "have"
  BY <1>1 DEF Having, Waiting, Holding
<1> QED BY <1>1, <1>2 DEF Now, Sane

LEMMA Waits ==
  ASSUME GInv, NEW p \in Proc, req[p].pc \in {"load", "wait"},
         NEW label \in {"wait", "build"}, NEW r, r = Step(req[p], label)
  PROVE  Now(r, call[p]) /\ r.pc = label
<1>1. /\ req[p] \in Waiting /\ call[p] = Idle /\ (req[p].late => gate \in shut)
      /\ coords \/ req[p].dark
  BY Phases
<1>2. /\ r \in Waiting /\ r.late = req[p].late /\ r.dark = req[p].dark /\ r.pc = label
  BY <1>1 DEF Step, Waiting
<1> QED BY <1>1, <1>2 DEF Now, Sane

LEMMA LoadInv ==
  ASSUME GInv, NEW p \in Proc, LoadVerifier(p)
  PROVE  GInv'
<1>1. req[p].pc = "load" /\ UNCHANGED <<vvars, gate, mu, coords>>
  BY DEF LoadVerifier, InPhase
<1>2. CASE gate # NoVerifier
  <2>1. req' = [req EXCEPT ![p] = Having(req[p], gate)]
    BY <1>2 DEF LoadVerifier
  <2> QED BY <1>1, <1>2, <2>1, GetsVerifier, Quiet
<1>3. CASE gate = NoVerifier
  <2>1. req' = [req EXCEPT ![p] = Step(req[p], "wait")]
    BY <1>3 DEF LoadVerifier
  <2> QED BY <1>1, <2>1, Waits, Quiet
<1> QED BY <1>2, <1>3

LEMMA LockInv ==
  ASSUME GInv, NEW p \in Proc, Lock(p)
  PROVE  GInv'
<1>1. req[p].pc = "wait" /\ mu = {} /\ UNCHANGED <<vvars, gate, coords>>
  BY DEF Lock, InPhase
<1>2. CASE gate # NoVerifier
  <2>1. req' = [req EXCEPT ![p] = Having(req[p], gate)] /\ mu' = mu
    BY <1>2 DEF Lock, AlreadyBuilt
  <2> QED BY <1>1, <1>2, <2>1, GetsVerifier, Quiet
<1>3. CASE gate = NoVerifier
  <2> DEFINE r == Step(req[p], "build")
  <2>1. req' = [req EXCEPT ![p] = r] /\ mu' = {p}
    BY <1>3 DEF Lock, AlreadyBuilt
  <2>2. Now(r, call[p]) /\ r.pc = "build"
    BY <1>1, Waits
  <2> HIDE DEF r
  <2>3. call' = [call EXCEPT ![p] = call[p]] /\ shut' = shut
    BY <1>1 DEF GInv, VInv, CallInv, vvars
  <2>4. Reqs'
    BY <1>1, <2>1, <2>2, <2>3, ReqMoves
  <2>5. VInv' /\ Existing' = Existing
    BY <1>1, VStays DEF GInv
  <2>6. Mutex'
    <3>1. req = [q \in Proc |-> req[q]]
      BY DEF GInv, Reqs
    <3>2. \A q \in Proc : req'[q] = IF q = p THEN r ELSE req[q]
      BY <2>1, <3>1
    <3> QED BY <1>1, <1>3, <2>1, <2>2, <3>2 DEF GInv, Mutex
  <2> QED BY <1>1, <2>4, <2>5, <2>6, PointerStays DEF GInv
<1> QED BY <1>2, <1>3

\* The verifier that is built and warmed is like any other.
LEMMA WarmedInv ==
  ASSUME VInv, NEW v \in Verifiers, ~Built(v), Warmed(v)
  PROVE  VInv' /\ Existing' = Existing \cup {v} /\ UNCHANGED <<call, shut>>
<1> DEFINE r == [NewVerifier EXCEPT !.cache = TRUE]
<1>1. /\ ver' = [ver EXCEPT ![v] = r]
      /\ keys' = [keys EXCEPT ![v] = IF endpoint = "answers" THEN Fetched(published) ELSE Unfetched]
      /\ refreshers' = [refreshers EXCEPT ![v] = 1]
      /\ UNCHANGED <<call, published, endpoint, age, shut>>
  BY DEF Warmed, env, hist
<1>2. r \in Fields /\ r.cache /\ ~r.closed /\ r.since = Interval /\ r # Unbuilt
  <2>1. Interval \in 0..Interval
    BY IntervalNat
  <2>2. /\ NewVerifier \in Fields /\ ~NewVerifier.closed
        /\ NewVerifier.since = Interval
    BY <2>1 DEF NewVerifier, Fields
  <2>3. r \in Fields /\ r.cache /\ ~r.closed /\ r.since = Interval
    BY <2>2 DEF Fields
  <2>4. Unbuilt \notin Fields
    BY DEF Unbuilt, Fields
  <2> QED BY <2>3, <2>4
<1>3. v \notin shut /\ age[v] = Interval
  BY DEF VInv, VerInv
<1> HIDE DEF r
<1>4. /\ ver' \in [Verifiers -> {Unbuilt} \cup Fields]
      /\ ver'[v] = r /\ \A w \in Verifiers : w # v => ver'[w] = ver[w]
  BY <1>1, <1>2 DEF VInv, VerInv
<1>5. \A w \in Verifiers : Built(w)' <=> Built(w) \/ w = v
  BY <1>2, <1>4 DEF Built
<1>6. Existing' = Existing \cup {v}
  BY <1>5 DEF Existing
<1>7. /\ refreshers' \in [Verifiers -> Nat] /\ refreshers'[v] = 1
      /\ \A w \in Verifiers : w # v => refreshers'[w] = refreshers[w]
  BY <1>1 DEF VInv, VerInv
<1>8. VerInv'
  BY <1>1, <1>2, <1>3, <1>4, <1>5, <1>7 DEF VInv, VerInv
<1>9. EnvInv'
  <2>1. (IF endpoint = "answers" THEN Fetched(published) ELSE Unfetched)
          \in {Unfetched} \cup [fetched : {TRUE}, keys : SUBSET Kid]
    BY DEF VInv, EnvInv, Fetched
  <2> QED BY <1>1, <2>1 DEF VInv, EnvInv
<1>10. CallInv'
  BY <1>1, <1>6, CallsStay DEF VInv
<1> QED BY <1>1, <1>6, <1>8, <1>9, <1>10 DEF VInv

LEMMA BuildInv ==
  ASSUME GInv, NEW p \in Proc, Build(p)
  PROVE  GInv'
<1> DEFINE v == CHOOSE v \in Verifiers \ Supplied : ~Built(v)
           r == Having(req[p], v)
<1>1. /\ req[p].pc = "build" /\ v \in Verifiers \ Supplied /\ ~Built(v) /\ Warmed(v)
      /\ gate' = v /\ mu' = {} /\ coords' = coords
      /\ req' = [req EXCEPT ![p] = r]
  BY DEF Build, InPhase
<1>2. mu = {p} /\ gate = NoVerifier
  BY <1>1 DEF GInv, Mutex
<1>3. gate \notin Verifiers \cup {Custom} /\ Custom \notin Verifiers
  BY <1>2, MiddlewareAssumption
<1>4. VInv' /\ Existing' = Existing \cup {v} /\ UNCHANGED <<call, shut>>
  BY <1>1, WarmedInv DEF GInv
<1>5. Existing = {} /\ shut \subseteq Verifiers
  BY <1>3 DEF GInv, Pointer, VInv, VerInv
<1>6. /\ req[p] \in Waiting /\ call[p] = Idle /\ ~req[p].late
  BY <1>1, <1>3, <1>5, Phases
<1>7. r \in Holding /\ r.v = v /\ ~r.late
  BY <1>1, <1>6 DEF Having, Waiting, Holding
<1> HIDE DEF v, r
<1>8. Pointer'
  BY <1>1, <1>4, <1>5 DEF GInv, Pointer
<1>9. req = [q \in Proc |-> req[q]]
  BY DEF GInv, Reqs
<1>10. \A q \in Proc : req'[q] = IF q = p THEN r ELSE req[q]
  BY <1>1, <1>9
<1>11. Mutex'
  <2>1. r.pc = "have"
    BY <1>7 DEF Holding
  <2> QED BY <1>1, <1>2, <1>10, <2>1 DEF GInv, Mutex
<1>12. ASSUME NEW q \in Proc
       PROVE  Sane(req[q], call[q], v, shut, coords) \/ q = p
  <2>1. Sane(req[q], call[q], gate, shut, coords)
    BY DEF GInv, Reqs
  <2>2. req[q] \in Holding => req[q].v # gate
    BY <1>3 DEF Holding
  <2>3. req[q].late /\ req[q] \in Waiting => gate \notin shut
    BY <1>3, <1>5
  <2>4. v \notin {Custom} \cup Supplied
    BY <1>1, <1>3
  <2> QED BY <2>1, <2>2, <2>3, <2>4 DEF Sane
<1>13. Sane(r, call[p], v, shut, coords)
  BY <1>6, <1>7 DEF Sane
<1>14. Reqs'
  <2>1. \A q \in Proc : Sane(req'[q], call'[q], gate', shut', coords')
    BY <1>1, <1>4, <1>10, <1>12, <1>13
  <2> QED BY <1>1, <1>9, <2>1 DEF Reqs
<1> QED BY <1>4, <1>8, <1>11, <1>14 DEF GInv

LEMMA BuildFailsInv ==
  ASSUME GInv, NEW p \in Proc, BuildFails(p)
  PROVE  GInv'
<1> DEFINE r == Reply(req[p], "not_configured")
<1>1. /\ req[p].pc = "build" /\ ~coords /\ mu' = {}
      /\ req' = [req EXCEPT ![p] = r] /\ UNCHANGED <<vvars, gate, coords>>
  BY DEF BuildFails, InPhase, Released, Discoverable
<1>2. mu = {p} /\ gate = NoVerifier
  BY <1>1 DEF GInv, Mutex
<1>3. /\ req[p] \in Waiting /\ call[p] = Idle /\ req[p].dark
  BY <1>1, Phases
<1>4. /\ r \in Replied /\ r.answer = "not_configured" /\ r.dark /\ r.tok \in Token
  BY <1>3 DEF Reply, Waiting, Replied, Answers
<1>5. RightAnswer(r) /\ r.pc = "answered"
  <2>1. r.tok # NoToken
    BY <1>4, MiddlewareAssumption
  <2> HIDE DEF r
  <2> QED BY <1>4, <2>1 DEF RightAnswer, Fits, Status, TokenErrors, Replied
<1>6. gate \notin {Custom} \cup Supplied
  BY <1>2, MiddlewareAssumption
<1> HIDE DEF r
<1>7. Now(r, call[p])
  BY <1>3, <1>4, <1>5, <1>6 DEF Now, Sane
<1>8. call' = [call EXCEPT ![p] = call[p]] /\ shut' = shut
  BY <1>1 DEF GInv, VInv, CallInv, vvars
<1>9. Reqs'
  BY <1>1, <1>7, <1>8, ReqMoves
<1>10. VInv' /\ Existing' = Existing
  BY <1>1, VStays DEF GInv
<1>11. Mutex'
  <2>1. req = [q \in Proc |-> req[q]]
    BY DEF GInv, Reqs
  <2>2. \A q \in Proc : req'[q] = IF q = p THEN r ELSE req[q]
    BY <1>1, <2>1
  <2> QED BY <1>1, <1>2, <1>5, <2>2 DEF GInv, Mutex
<1> QED BY <1>1, <1>9, <1>10, <1>11, PointerStays DEF GInv

LEMMA StartVerifyInv ==
  ASSUME GInv, NEW p \in Proc, StartVerify(p)
  PROVE  GInv'
<1> DEFINE v   == req[p].v
           tok == req[p].tok
           r   == Step(req[p], "verify")
           d   == call'[p]
<1>1. /\ req[p].pc = "have" /\ v \in Verifiers /\ BeginVerify(p, v, tok)
      /\ req' = [req EXCEPT ![p] = r] /\ UNCHANGED <<gate, mu, coords>>
  BY DEF StartVerify, InPhase
<1>2. /\ req[p] \in Holding /\ call[p] = Idle /\ v = gate
      /\ req[p].late => gate \in shut
  BY <1>1, Phases
<1>3. tok \in Token
  BY <1>2 DEF Holding
<1>4. VInv'
  BY <1>1, <1>3, BeginInv DEF GInv
<1>5. Existing' = Existing /\ shut' = shut
  BY <1>1, VerifiersStay DEF BeginVerify, hist
<1>6. \E c : /\ call' = [call EXCEPT ![p] = c]
             /\ c.tok = tok /\ c.late = (v \in shut) /\ c.pc # "idle"
  <2> DEFINE b == [v |-> v, tok |-> tok, late |-> v \in shut]
  <2>1. \/ call' = [call EXCEPT ![p] = At(b, "keyset")]
        \/ call' = [call EXCEPT ![p] = Ended(b, HeaderVerdict(tok))]
    BY <1>1 DEF BeginVerify
  <2>2. ASSUME NEW c, c = At(b, "keyset") \/ c = Ended(b, HeaderVerdict(tok))
        PROVE  c.tok = tok /\ c.late = (v \in shut) /\ c.pc # "idle"
    BY <2>2 DEF At, Ended
  <2> QED BY <2>1, <2>2
<1>7. /\ call' = [call EXCEPT ![p] = d]
      /\ d.tok = tok /\ d.late = (v \in shut) /\ d.pc # "idle"
  BY <1>6 DEF GInv, VInv, CallInv
<1>8. d \in Calls
  BY <1>4, <1>7 DEF VInv, CallInv, Idle
<1>9. r \in Checking /\ r.tok = tok /\ r.late = req[p].late /\ r.pc = "verify"
  BY <1>2 DEF Step, Holding, Checking
<1> HIDE DEF v, tok, r, d
<1>10. Now(r, d)
  BY <1>2, <1>7, <1>8, <1>9 DEF Now, Sane
<1>11. Reqs'
  BY <1>1, <1>5, <1>7, <1>10, ReqMoves
<1> QED BY <1>1, <1>4, <1>5, <1>9, <1>11, MutexStays, PointerStays DEF GInv

LEMMA RespondInv ==
  ASSUME GInv, NEW p \in Proc, Respond(p)
  PROVE  GInv'
<1> DEFINE res == call[p].result
           a   == AnswerTo(req[p], res)
           r   == Reply(req[p], a)
<1>1. /\ req[p].pc = "verify" /\ call[p].pc = "done"
      /\ req' = [req EXCEPT ![p] = r] /\ call' = [call EXCEPT ![p] = Idle]
      /\ UNCHANGED <<ver, keys, refreshers, env, hist, gate, mu, coords>>
  BY DEF Respond, InPhase, Working
<1>2. /\ req[p] \in Checking /\ call[p] \in Calls
      /\ call[p].tok = req[p].tok /\ (req[p].late => call[p].late)
  BY <1>1, Phases
<1>3. Sound(call[p])
  BY <1>1, Busy DEF GInv, VInv
<1>4. /\ VerdictFits(req[p].tok, res) /\ res \in Verdict
      /\ req[p].late => res # "claims"
  <2>1. VerdictFits(req[p].tok, res) /\ res \in Verdict
    BY <1>1, <1>2, <1>3 DEF Sound, SoundIn, Calls
  <2>2. call[p].tok \in Token /\ (call[p].late => res = LateVerdict(call[p].tok))
    BY <1>1, <1>2, <1>3, CallFields DEF Sound, SoundIn
  <2>3. LateVerdict(call[p].tok) # "claims"
    BY <2>2, HeaderRight DEF LateVerdict
  <2> QED BY <1>2, <2>1, <2>2, <2>3
<1> HIDE DEF res
<1>5. Says(req[p].tok, res)
  BY <1>4 DEF Says, VerdictFits, Verdict
<1>6. req[p].tok \in Token /\ req[p].gone \in BOOLEAN
  BY <1>2 DEF Checking
<1>7. /\ a \in Answers /\ a # "not_configured"
      /\ IF a = "nothing" THEN req[p].gone ELSE Fits(req[p].tok, a)
      /\ req[p].late => a # "user"
  BY <1>4, <1>5, <1>6, AnswerRight
<1> HIDE DEF a
<1>8. /\ r \in Replied /\ RightAnswer(r) /\ r.answer # "not_configured"
      /\ r.pc = "answered"
  BY <1>2, <1>7 DEF Reply, Checking, Replied, RightAnswer
<1> HIDE DEF r
<1>9. Now(r, Idle)
  BY <1>8 DEF Now, Sane
<1>10. VInv' /\ Existing' = Existing /\ shut' = shut
  <2>1. Take(p)
    BY <1>1 DEF Take, Working
  <2> QED BY <1>1, <2>1, TakeInv, VerifiersStay DEF GInv, hist
<1>11. Reqs'
  BY <1>1, <1>9, <1>10, ReqMoves
<1> QED BY <1>1, <1>8, <1>10, <1>11, MutexStays, PointerStays DEF GInv

LEMMA CustomInv ==
  ASSUME GInv, NEW p \in Proc, CustomVerify(p)
  PROVE  GInv'
<1>1. /\ req[p].pc = "have" /\ req[p].v = Custom /\ UNCHANGED <<vvars, gate, mu, coords>>
  BY DEF CustomVerify, InPhase
<1>2. PICK verdict \in CustomVerdicts(req[p].tok) :
        req' = [req EXCEPT ![p] = Reply(req[p], AnswerTo(req[p], Recovered(verdict)))]
  BY DEF CustomVerify
<1> DEFINE res == Recovered(verdict)
           a   == AnswerTo(req[p], res)
           r   == Reply(req[p], a)
<1>3. req[p] \in Holding /\ call[p] = Idle /\ (req[p].late => Custom \in shut)
  BY <1>1, Phases
<1>4. ~req[p].late
  BY <1>3, MiddlewareAssumption DEF GInv, VInv, VerInv
<1>5. Says(req[p].tok, res)
  <2>1. verdict \in {"not_ready", "error", "panic"} \/ Says(req[p].tok, verdict)
    BY <1>2 DEF CustomVerdicts, Says
  <2>2. CASE verdict \in {"not_ready", "error", "panic"}
    <3>1. res \in {"not_ready", "error"}
      BY <2>2 DEF Recovered
    <3> HIDE DEF res
    <3> QED BY <3>1 DEF Says
  <2>3. CASE verdict \notin {"not_ready", "error", "panic"}
    <3>1. res = verdict
      BY <2>3 DEF Recovered
    <3> HIDE DEF res
    <3> QED BY <2>1, <2>3, <3>1 DEF Says
  <2> QED BY <2>2, <2>3
<1>6. req[p].tok \in Token /\ req[p].gone \in BOOLEAN
  BY <1>3 DEF Holding
<1> HIDE DEF res
<1>7. /\ a \in Answers /\ a # "not_configured"
      /\ IF a = "nothing" THEN req[p].gone ELSE Fits(req[p].tok, a)
  BY <1>4, <1>5, <1>6, AnswerRight
<1> HIDE DEF a
<1>8. /\ r \in Replied /\ RightAnswer(r) /\ r.answer # "not_configured"
      /\ r.pc = "answered"
  BY <1>3, <1>4, <1>7 DEF Reply, Holding, Replied, RightAnswer
<1>9. req' = [req EXCEPT ![p] = r]
  BY <1>2 DEF a, res
<1> HIDE DEF r
<1>10. Now(r, call[p])
  BY <1>3, <1>8 DEF Now, Sane
<1> QED BY <1>1, <1>8, <1>9, <1>10, Quiet

LEMMA NextRequestInv ==
  ASSUME GInv, NEW p \in Proc, NextRequest(p)
  PROVE  GInv'
<1>1. /\ req[p].pc = "answered" /\ req' = [req EXCEPT ![p] = NoRequest]
      /\ UNCHANGED <<vvars, gate, mu, coords>>
  BY DEF NextRequest, InPhase
<1>2. Now(NoRequest, call[p])
  BY <1>1, Phases DEF Now, Sane
<1> QED BY <1>1, <1>2, Quiet DEF NoRequest

-----------------------------------------------------------------------------
(* Steps around the requests *)

\* A request that is marked, as abandoned or as one that missed the coordinates.
LEMMA Marked ==
  ASSUME GInv, NEW p \in Proc, Served(p), NEW r, NEW discoverable \in BOOLEAN,
         \/ r = [req[p] EXCEPT !.gone = TRUE] /\ discoverable = coords
         \/ r = [req[p] EXCEPT !.dark = TRUE]
  PROVE  Sane(r, call[p], gate, shut, discoverable) /\ r.pc = req[p].pc
<1> DEFINE q == req[p]
<1>1. CASE q.pc \in {"load", "wait", "build"}
  <2>1. /\ q \in Waiting /\ call[p] = Idle /\ (q.late => gate \in shut)
        /\ coords \/ q.dark
    BY <1>1, Phases
  <2> HIDE DEF q
  <2>2. /\ r \in Waiting /\ r.late = q.late /\ r.pc = q.pc
        /\ (r.dark = q.dark /\ discoverable = coords) \/ r.dark
    BY <2>1 DEF Waiting, q
  <2> QED BY <2>1, <2>2 DEF Sane, q
<1>2. CASE q.pc = "have"
  <2>1. /\ q \in Holding /\ call[p] = Idle /\ q.v = gate
        /\ q.late => gate \in shut
    BY <1>2, Phases
  <2>2. r \in Holding /\ r.late = q.late /\ r.v = q.v /\ r.pc = q.pc
    BY <2>1 DEF Holding
  <2> QED BY <2>1, <2>2 DEF Sane
<1>3. CASE q.pc = "verify"
  <2>1. /\ q \in Checking /\ call[p] \in Calls
        /\ call[p].tok = q.tok /\ (q.late => call[p].late)
    BY <1>3, Phases
  <2>2. r \in Checking /\ r.late = q.late /\ r.tok = q.tok /\ r.pc = q.pc
    BY <2>1 DEF Checking
  <2> QED BY <2>1, <2>2 DEF Sane
<1> QED BY <1>1, <1>2, <1>3, Phases DEF Served

LEMMA DisconnectInv ==
  ASSUME GInv, NEW p \in Proc, Disconnect(p)
  PROVE  GInv'
<1> DEFINE r == [req[p] EXCEPT !.gone = TRUE]
<1>1. /\ Served(p) /\ UNCHANGED <<vvars, gate, mu, coords>>
      /\ req' = [req EXCEPT ![p] = r]
  BY DEF Disconnect, GInv, Reqs
<1>2. Now(r, call[p]) /\ r.pc = req[p].pc
  BY <1>1, Marked DEF Now, GInv, Pointer
<1> HIDE DEF r
<1> QED BY <1>1, <1>2, Quiet

LEMMA CoordsFlipInv ==
  ASSUME GInv, CoordsFlip
  PROVE  GInv'
<1>1. /\ UNCHANGED <<vvars, gate, mu>> /\ coords' = ~coords
      /\ req' = [p \in Proc |->
           IF Served(p) THEN [req[p] EXCEPT !.dark = TRUE] ELSE req[p]]
  BY DEF CoordsFlip
<1>2. VInv' /\ Existing' = Existing /\ UNCHANGED <<call, shut>> /\ coords' \in BOOLEAN
  BY <1>1, VStays DEF GInv, vvars
<1>3. ASSUME NEW p \in Proc
      PROVE  Sane(req'[p], call[p], gate, shut, coords') /\ req'[p].pc = req[p].pc
  <2>1. CASE Served(p)
    <3>1. req'[p] = [req[p] EXCEPT !.dark = TRUE]
      BY <1>1, <2>1
    <3> QED BY <1>2, <2>1, <3>1, Marked
  <2>2. CASE ~Served(p)
    <3>1. req'[p] = req[p]
      BY <1>1, <2>2
    <3>2. req[p].pc \in {"none", "answered"}
      BY <2>2 DEF Served
    <3> QED BY <3>1, <3>2, Phases DEF Sane
  <2> QED BY <2>1, <2>2
<1>4. Reqs'
  <2>1. req' = [p \in Proc |-> req'[p]]
    BY <1>1
  <2> QED BY <1>1, <1>2, <1>3, <2>1 DEF Reqs
<1>5. Mutex'
  BY <1>1, <1>3 DEF GInv, Mutex
<1>6. Pointer'
  BY <1>1, <1>2 DEF GInv, Pointer
<1> QED BY <1>2, <1>4, <1>5, <1>6 DEF GInv

\* Verify's steps, and a caller that is given up on.
LEMMA VerifyInv ==
  ASSUME GInv, NEW p \in Proc, VerifyStep(p) \/ CallerLeaves(p), UNCHANGED mvars
  PROVE  GInv'
<1>1. Existing' = Existing /\ shut' = shut
  BY VerifyBuilds DEF GInv
<1>2. VInv' /\ call[p].pc # "idle"
  BY VerifyMoves DEF GInv
<1>3. PICK d \in Calls : /\ call' = [call EXCEPT ![p] = d]
                         /\ d.tok = call[p].tok /\ d.late = call[p].late
  BY VerifyMoves DEF GInv
<1>4. /\ req[p] \in Checking
      /\ call[p].tok = req[p].tok /\ (req[p].late => call[p].late)
  BY <1>2, Phases DEF Idle
<1>5. Now(req[p], d)
  BY <1>3, <1>4 DEF Now, Sane
<1>6. req' = [req EXCEPT ![p] = req[p]]
  BY DEF GInv, Reqs, mvars
<1>7. Reqs'
  BY <1>1, <1>3, <1>5, <1>6, ReqMoves DEF mvars
<1> QED BY <1>1, <1>2, <1>6, <1>7, MutexStays, PointerStays DEF GInv, mvars

LEMMA OwnerClosesInv ==
  ASSUME GInv, OwnerCloses
  PROVE  GInv'
<1>1. gate \in Verifiers /\ Close(gate) /\ UNCHANGED mvars
  BY MiddlewareAssumption DEF OwnerCloses
<1>2. VInv' /\ call' = call /\ shut \subseteq shut'
  BY <1>1, CloseInv DEF GInv, Close
<1>3. Existing' = Existing
  <2>1. ver' = [ver EXCEPT ![gate] = Shut(ver[gate])] /\ gate \in Existing
    BY <1>1 DEF Close, Existing
  <2>2. Shut(ver[gate]) \in Fields
    <3>1. ver[gate] \in Fields
      BY <1>1, <2>1, BuiltFields DEF GInv, VInv, Existing
    <3> QED BY <3>1 DEF Shut, Fields
  <2> QED BY <2>1, <2>2, SetFields DEF GInv, VInv
<1> QED BY <1>1, <1>2, <1>3, Around

-----------------------------------------------------------------------------
(* The invariant *)

LEMMA GateInitInv == GateInit => GInv
<1> SUFFICES ASSUME GateInit PROVE GInv
  OBVIOUS
<1>1. /\ gate \in {NoVerifier, Custom} \cup Verifiers /\ coords \in BOOLEAN
      /\ mu = {} /\ req = [p \in Proc |-> NoRequest]
      /\ call = [p \in Proc |-> Idle]
  BY MiddlewareAssumption DEF GateInit, VInit
<1>2. VInv /\ Existing = {gate} \cap Verifiers
  BY VInitInv DEF GateInit
<1>3. Reqs
  BY <1>1 DEF Reqs, Sane
<1>4. Mutex
  BY <1>1 DEF Mutex, NoRequest
<1> QED BY <1>1, <1>2, <1>3, <1>4 DEF GInv, Pointer

LEMMA GateNextInv == GInv /\ [GateNext]_vars => GInv'
<1> SUFFICES ASSUME GInv, [GateNext]_vars PROVE GInv'
  OBVIOUS
<1>1. CASE UNCHANGED vars
  BY <1>1, VStays, Around DEF vars, vvars, GInv
<1>2. CASE World /\ UNCHANGED mvars
  BY <1>2, WorldMoves, Around DEF GInv
<1>3. ASSUME NEW p \in Proc, VerifyStep(p) \/ FetchAbandoned(p), UNCHANGED mvars
      PROVE  GInv'
  BY <1>3, VerifyInv DEF FetchAbandoned
<1>4. ASSUME NEW p \in Proc, ServeStep(p)
      PROVE  GInv'
  BY <1>4, LoadInv, LockInv, BuildInv, BuildFailsInv, StartVerifyInv, CustomInv,
     RespondInv DEF ServeStep
<1>5. ASSUME NEW p \in Proc, Arrive(p) \/ Disconnect(p) \/ NextRequest(p)
      PROVE  GInv'
  BY <1>5, ArriveInv, DisconnectInv, NextRequestInv
<1> QED BY <1>1, <1>2, <1>3, <1>4, <1>5, CoordsFlipInv, OwnerClosesInv
        DEF GateNext, FetchAbandoned

LEMMA GInvariance == GateSpec => []GInv
BY GateInitInv, GateNextInv, PTL DEF GateSpec

-----------------------------------------------------------------------------
(* Theorems *)

\* However many requests meet at cold start, they share one verifier and one
\* refresher, and none is left once a supplied verifier is closed.
THEOREM OneForAll == GateSpec => []OneVerifier
<1>1. GInv => OneVerifier
  <2> SUFFICES ASSUME GInv, NEW v \in Verifiers
               PROVE  /\ Built(v) => gate = v
                      /\ refreshers[v] = (IF Built(v) /\ ver[v].cache THEN 1 ELSE 0)
                      /\ v \in shut => refreshers[v] = 0
    BY DEF OneVerifier
  <2>1. Built(v) => gate = v
    BY DEF GInv, Pointer, Existing
  <2>2. /\ refreshers[v] = (IF Built(v) /\ ver[v].cache THEN 1 ELSE 0)
        /\ v \in shut => refreshers[v] = 0
    BY DEF GInv, VInv, VerInv
  <2> QED BY <2>1, <2>2
<1> QED BY <1>1, GInvariance, PTL

\* Behind the gate, too, a verifier keeps what it promises to an application that
\* calls it by itself, though requests build it and their callers leave.
THEOREM UnderTheGate ==
  GateSpec => [](NoStrayRefresher /\ ClosedFailsClosed /\ TokenFaultsOnly)
BY Promises, GInvariance, PTL DEF GInv

\* However many requests bring tokens with unknown kids, forced refetches stay
\* Interval apart.
THEOREM SpacedUnderTheGate == GateSpec => ForcedRefreshesSpaced
<1>1. ASSUME GInv, [GateNext]_vars
      PROVE  [\A v \in Verifiers : Grants(v) => age[v] >= Interval]_vvars
  <2>1. CASE UNCHANGED call \/ \E q \in Proc : CallMoves(q)
    BY <1>1, <2>1, GrantSpaced DEF GInv
  <2>2. CASE UNCHANGED vvars
    BY <2>2
  <2>3. ASSUME NEW p \in Proc, ServeStep(p) \/ FetchAbandoned(p)
        PROVE  UNCHANGED call \/ \E q \in Proc : CallMoves(q)
    <3>1. CASE StartVerify(p)
      <4>1. req[p].tok \in Token
        BY <1>1, <3>1 DEF StartVerify, InPhase, GInv, Reqs, Sane, NoRequest, Waiting,
           Holding, Checking, Replied
      <4> QED BY <3>1, <4>1 DEF StartVerify, CallMoves
    <3>2. CASE Respond(p) \/ FetchAbandoned(p)
      BY <3>2 DEF Respond, FetchAbandoned, CallMoves
    <3> QED BY <2>3, <3>1, <3>2
            DEF ServeStep, LoadVerifier, Lock, Build, Warmed, BuildFails, CustomVerify, vvars
  <2>4. CASE World \/ OwnerCloses
    BY <2>1, <2>4 DEF World, Rotate, EndpointChanges, Tick, BackgroundRefresh, OwnerCloses, Close
  <2>5. CASE \E p \in Proc : VerifyStep(p)
    BY <2>1, <2>5 DEF CallMoves
  <2> QED BY <1>1, <2>1, <2>2, <2>3, <2>4, <2>5
          DEF GateNext, CoordsFlip, Arrive, Disconnect, NextRequest, vars
<1> QED BY <1>1, GInvariance, PTL DEF GateSpec, ForcedRefreshesSpaced

\* No request is told that the middleware is not configured because of an outage
\* that was over before it came, or beside a supplied verifier.
THEOREM RefusalsAreCurrent == GateSpec => []NotConfiguredIsCurrent
<1>1. GInv => NotConfiguredIsCurrent
  BY Phases DEF NotConfiguredIsCurrent, InPhase
<1> QED BY <1>1, GInvariance, PTL

\* Only good tokens with the scopes bring a user in, and each refusal names its
\* own cause.
THEOREM FittingAnswers == GateSpec => []AnswersFit
<1>1. GInv => AnswersFit
  BY Phases DEF AnswersFit, InPhase, RightAnswer
<1> QED BY <1>1, GInvariance, PTL

-----------------------------------------------------------------------------
(* Coordinates *)

Answer == {Silent, Failed} \cup Metadata \cup EnvBlock

\* What was found is what the last source asked had to say.
CInv ==
  /\ cfg \in Config
  /\ answers \in Seq(Answer) /\ Len(answers) <= 3
  /\ IF answers = <<>> THEN found = Nothing
     ELSE found = CoordsOf(answers[Len(answers)])
  /\ KeysBelongToIssuer
  /\ FirstAnswerWins

\* Coordinates come only from a block that names an issuer.
LEMMA CoordsFromIssuer ==
  ASSUME NEW a
  PROVE  CoordsOf(a) # Nothing <=> NamesIssuer(a)
BY DEF CoordsOf, Nothing, HasIssuer, NamesIssuer

\* There are three sources.
LEMMA Count ==
  ASSUME NEW n \in Nat
  PROVE  /\ n < 3 => n \in 0..2 /\ n + 1 \in {1, 2, 3} /\ n + 1 <= 3
         /\ n <= 3 /\ ~(n < 3) => n = 3
OBVIOUS

LEMMA CInit == ConfigInit => CInv
BY DEF ConfigInit, CInv, KeysBelongToIssuer, FirstAnswerWins, Resolved

LEMMA AskInv == CInv /\ Ask => CInv'
<1> SUFFICES ASSUME CInv, Ask PROVE CInv'
  OBVIOUS
<1> DEFINE n == Len(answers)
<1>1. /\ n < 3 /\ found = Nothing /\ MustDiscover
      /\ result = Pending /\ UNCHANGED <<cfg, result>>
  BY Zenon DEF Ask, Searching
<1>2. n \in 0..2 /\ n + 1 \in {1, 2, 3}
  <2>1. n \in Nat
    BY DEF CInv
  <2> HIDE DEF n
  <2> QED BY <1>1, <2>1, Count
<1>3. PICK a \in Answer : answers' = Append(answers, a) /\ found' = CoordsOf(a)
  <2>1. PICK a \in Sources[n + 1] : answers' = Append(answers, a)
                                    /\ found' = CoordsOf(a)
    BY Zenon DEF Ask
  <2>2. Sources[n + 1] \subseteq Answer
    BY <1>2 DEF Sources, Answer
  <2> QED BY <2>1, <2>2
<1>4. /\ answers' \in Seq(Answer) /\ Len(answers') = n + 1
      /\ answers'[n + 1] = a
      /\ \A k \in 1..n : answers'[k] = answers[k]
  BY <1>2, <1>3 DEF CInv
<1>5. \A k \in 1..n : ~NamesIssuer(answers[k])
  <2>1. n > 0 => ~NamesIssuer(answers[n])
    BY <1>1, <1>2, CoordsFromIssuer DEF CInv
  <2>2. \A k \in 1..n - 1 : ~NamesIssuer(answers[k])
    BY DEF CInv, FirstAnswerWins
  <2> QED BY <1>2, <2>1, <2>2
<1>6. FirstAnswerWins'
  BY <1>1, <1>2, <1>4, <1>5 DEF FirstAnswerWins, NamesIssuer, MustDiscover
<1>7. KeysBelongToIssuer'
  BY <1>1 DEF KeysBelongToIssuer, Resolved
<1> QED BY <1>1, <1>2, <1>3, <1>4, <1>6, <1>7 DEF CInv

LEMMA ResolveInv == CInv /\ Resolve => CInv'
<1> SUFFICES ASSUME CInv, Resolve PROVE CInv'
  OBVIOUS
<1> DEFINE n == Len(answers)
<1>1. UNCHANGED <<cfg, answers, found>>
  BY DEF Resolve
<1>2. n \in Nat
  BY DEF CInv
<1>3. found # Nothing =>
        /\ n > 0 /\ found = CoordsOf(answers[n]) /\ NamesIssuer(answers[n])
  BY <1>2, CoordsFromIssuer DEF CInv
<1>4. FirstAnswerWins'
  <2>1. MustDiscover => n = 3 \/ NamesIssuer(answers[n])
    <3>1. MustDiscover /\ found = Nothing => ~(n < 3)
      BY Zenon DEF Resolve, Searching
    <3>2. n <= 3
      BY DEF CInv
    <3> HIDE DEF n
    <3> QED BY <1>2, <1>3, <3>1, <3>2, Count
  <2> QED BY <1>1, <2>1 DEF FirstAnswerWins, CInv, NamesIssuer, MustDiscover
<1>5. KeysBelongToIssuer'
  <2> SUFFICES ASSUME Resolved', cfg.jwks = Empty
               PROVE  \/ result'.jwks = DefaultJWKS(result'.issuer)
                      \/ \E k \in 1..n : /\ answers[k].state = "block"
                                         /\ answers[k].issuer = result'.issuer
                                         /\ answers[k].jwks = result'.jwks
    BY <1>1 DEF KeysBelongToIssuer
  <2>1. result'.issuer = TheIssuer /\ result'.jwks = TheJWKS /\ TheJWKS # Empty
    BY DEF Resolve, Resolved
  <2>2. CASE Describes
    <3>1. /\ TheJWKS = found.jwks /\ TheIssuer = found.issuer
          /\ n > 0 /\ found = CoordsOf(answers[n]) /\ NamesIssuer(answers[n])
      BY <1>3, <2>2 DEF TheJWKS, Describes
    <3>2. /\ found.issuer = answers[n].issuer
          /\ found.jwks = IF answers[n].jwks = Empty
                          THEN DefaultJWKS(answers[n].issuer) ELSE answers[n].jwks
      BY <3>1 DEF CoordsOf, HasIssuer, NamesIssuer
    <3> QED BY <1>2, <2>1, <3>1, <3>2 DEF NamesIssuer
  <2>3. CASE ~Describes
    BY <2>1, <2>3 DEF TheJWKS
  <2> QED BY <2>2, <2>3
<1> QED BY <1>1, <1>4, <1>5 DEF CInv

LEMMA CNext == CInv /\ [BuildStep]_cvars => CInv'
<1>1. CInv /\ UNCHANGED cvars => CInv'
  BY DEF CInv, cvars, KeysBelongToIssuer, FirstAnswerWins, Resolved
<1> QED BY <1>1, AskInv, ResolveInv DEF BuildStep

LEMMA CInvariance == BuildSpec => []CInv
BY CInit, CNext, PTL DEF BuildSpec

-----------------------------------------------------------------------------
\* An issuer is checked with the configured keys, with its own jwks.json, or with
\* keys published together with it, and never with another issuer's.
THEOREM OwnKeys == BuildSpec => []KeysBelongToIssuer
<1>1. CInv => KeysBelongToIssuer
  BY DEF CInv
<1> QED BY <1>1, CInvariance, PTL

\* Sources are asked in order, only as far as needed, and as far as needed.
THEOREM OrderedSearch == BuildSpec => []FirstAnswerWins
<1>1. CInv => FirstAnswerWins
  BY DEF CInv
<1> QED BY <1>1, CInvariance, PTL

-----------------------------------------------------------------------------
(* Redirects *)

\* What a hop carries depends on where it goes and on its place in the chain
\* only: no later redirect, and no response that fails to name its request,
\* changes the verdict on a hop that was sent.
Attached(k) == IF AddressesOriginalOrigin(k) /\ caller # Nobody THEN caller
               ELSE Nobody

RInv ==
  /\ chain \in Seq(URL)
  /\ sent \in Seq(Caller \cup {Nobody})
  /\ caller \in Caller \cup {Nobody}
  /\ Len(sent) <= Len(chain) /\ Len(chain) <= Len(sent) + 1
  /\ broken \subseteq 1..Len(chain)
  /\ \A k \in 1..Len(sent) : sent[k] = Attached(k)

LEMMA RInit == RequestInit => RInv
BY DEF RequestInit, RInv

\* A hop's verdict is settled once the hop is in the chain.
LEMMA Settled ==
  ASSUME RInv, chain' \in Seq(URL), Len(chain) <= Len(chain'),
         \A k \in 1..Len(chain) : chain'[k] = chain[k],
         broken' \cap (1..Len(chain)) = broken, caller' = caller,
         NEW k \in 1..Len(chain)
  PROVE  Attached(k)' = Attached(k)
<1>1. /\ Len(chain) \in Nat /\ k \in Nat /\ 1 <= k /\ k <= Len(chain)
      /\ 1 \in 1..Len(chain)
  BY DEF RInv
<1>2. chain'[k] = chain[k] /\ chain'[1] = chain[1]
  BY <1>1
<1>3. \A j \in 2..k : j \in 1..Len(chain)
  BY <1>1
<1>4. Walkable(k)' <=> Walkable(k)
  BY <1>3 DEF Walkable
<1> QED BY <1>2, <1>4 DEF Attached, AddressesOriginalOrigin, Original

LEMMA RNext == RInv /\ [RequestStep]_tvars => RInv'
<1> SUFFICES ASSUME RInv, [RequestStep]_tvars
             PROVE  RInv'
  OBVIOUS
<1>1. CASE Do
  <2>1. PICK u \in URL : chain' = <<u>>
    BY <1>1 DEF Do
  <2>2. sent = <<>> /\ broken = {} /\ chain = <<>>
    BY <1>1 DEF Do, RInv
  <2> QED BY <1>1, <2>1, <2>2 DEF Do, RInv
<1>2. CASE RoundTrip
  <2> DEFINE n == Len(chain)
  <2>1. n \in Nat \ {0} /\ n = Len(sent) + 1
    BY <1>2 DEF RoundTrip, RInv
  <2>2. sent' = Append(sent, Attached(n))
    BY <1>2 DEF RoundTrip, Attached, ClearedHeader
  <2>3. Attached(n) \in Caller \cup {Nobody}
    BY DEF Attached, RInv
  <2>4. Len(sent') = n /\ sent' \in Seq(Caller \cup {Nobody})
        /\ \A k \in 1..n : sent'[k] = IF k = n THEN Attached(n) ELSE sent[k]
    BY <2>1, <2>2, <2>3 DEF RInv
  <2>5. UNCHANGED <<chain, broken, caller>>
    BY <1>2 DEF RoundTrip
  <2>6. \A k \in 1..n : Attached(k)' = Attached(k)
    BY <2>5 DEF Attached, AddressesOriginalOrigin, Walkable, Original
  <2>7. \A k \in 1..n : sent'[k] = Attached(k)
    BY <2>1, <2>4 DEF RInv
  <2> QED BY <2>1, <2>4, <2>5, <2>6, <2>7 DEF RInv
<1>3. CASE Redirect
  <2> DEFINE n == Len(chain)
  <2>1. /\ n \in Nat \ {0} /\ Len(sent) = n
        /\ UNCHANGED <<caller, sent>>
    BY <1>3 DEF Redirect, RInv
  <2>2. PICK u \in URL, cut \in BOOLEAN :
          /\ chain' = Append(chain, u)
          /\ broken' = IF cut THEN broken \cup {n + 1} ELSE broken
    BY <1>3 DEF Redirect
  <2>3. /\ chain' \in Seq(URL) /\ Len(chain') = n + 1
        /\ \A k \in 1..n : chain'[k] = chain[k]
    BY <2>1, <2>2 DEF RInv
  <2>4. broken' \subseteq 1..n + 1 /\ broken' \cap (1..n) = broken
    <3>1. broken \subseteq 1..n /\ n + 1 \notin 1..n
      BY <2>1 DEF RInv
    <3>2. \A j \in broken' : j \in broken \/ j = n + 1
      BY <2>2
    <3>3. broken \subseteq broken'
      BY <2>2
    <3>4. 1..n \subseteq 1..n + 1 /\ n + 1 \in 1..n + 1
      BY <2>1
    <3> QED BY <3>1, <3>2, <3>3, <3>4
  <2>5. \A k \in 1..n : Attached(k)' = Attached(k)
    BY <2>1, <2>3, <2>4, Settled
  <2> QED BY <2>1, <2>3, <2>4, <2>5 DEF RInv
<1>4. CASE UNCHANGED tvars
  BY <1>4 DEF tvars, RInv, Attached, AddressesOriginalOrigin, Walkable, Original
<1> QED BY <1>1, <1>2, <1>3, <1>4 DEF RequestStep

LEMMA RInvariance == RequestSpec => []RInv
BY RInit, RNext, PTL DEF RequestSpec

-----------------------------------------------------------------------------
\* A hop that carries a token goes to the server the application addressed, or
\* to the TLS port of a host it addressed on port 80, and the token is the
\* context's, through chains of any length.
THEOREM NoTokenAbroad == RequestSpec => []TokenStaysHome
<1>1. RInv => TokenStaysHome
  <2> SUFFICES ASSUME RInv, NEW k \in 1..Len(sent), sent[k] # Nobody
               PROVE  /\ sent[k] = caller
                      /\ \/ Arrives(chain[k]) = Arrives(chain[1])
                         \/ /\ Arrives(chain[1]) = <<chain[k].host, 80, "http">>
                            /\ Arrives(chain[k]) = <<chain[1].host, 443, "https">>
    BY DEF TokenStaysHome
  <2>1. sent[k] = Attached(k)
    BY DEF RInv
  <2>2. sent[k] = caller /\ SameIdentityOrigin(chain[1], chain[k])
    BY <2>1 DEF Attached, AddressesOriginalOrigin, Original
  <2> QED BY <2>2 DEF SameIdentityOrigin, Arrives
<1> QED BY <1>1, RInvariance, PTL

\* Every hop of a walkable chain that arrives where the first one did carries the
\* context's caller.
THEOREM IdentityKept == RequestSpec => []StaysIdentified
<1>1. RInv => StaysIdentified
  <2> SUFFICES ASSUME RInv, NEW k \in 1..Len(sent),
                      Arrives(chain[k]) = Arrives(chain[1]),
                      k <= maxRedirectChainWalk, broken \cap (1..k) = {}
               PROVE  sent[k] = caller
    BY DEF StaysIdentified
  <2>1. sent[k] = Attached(k)
    BY DEF RInv
  <2>2. SameIdentityOrigin(chain[1], chain[k])
    BY DEF SameIdentityOrigin, Arrives
  <2>3. Walkable(k)
    <3>1. \A j \in 2..k : j \in 1..k
      BY DEF RInv
    <3> QED BY <3>1 DEF Walkable
  <2> QED BY <2>1, <2>2, <2>3 DEF Attached, AddressesOriginalOrigin, Original
<1> QED BY <1>1, RInvariance, PTL
=============================================================================
