----------------------------- MODULE Coordinates -----------------------------
(***************************************************************************)
(* identity/verifier.go: BuildVerifier's search for the issuer, the JWKS   *)
(* endpoint and the audience.  Explicit configuration wins; what is left   *)
(* open comes from the first source that names an issuer: the local        *)
(* sidecar, a remote sidecar, the environment.                             *)
(*                                                                         *)
(* A JWKS address is a record of what the code tells apart: whose keys it  *)
(* serves, whether it is <issuer>/jwks.json, its scheme and whether its    *)
(* host is loopback.  The sidecars and the environment answer anything.    *)
(***************************************************************************)
EXTENDS Naturals, Sequences

CONSTANTS
  Issuer,     \* issuers; IssuerScheme and IssuerLoopback describe their URLs
  IssuerScheme(_), IssuerLoopback(_),
  Audience,   \* audiences
  Schemes,    \* schemes of a published or configured address, "bad" if it
              \* does not parse
  Metadata,   \* identity blocks that sidecars publish
  Empty       \* a string left empty

ASSUME CoordinatesAssumption ==
  /\ Empty \notin Issuer \cup Audience
  /\ "https" \in Schemes /\ "http" \in Schemes

Address == [of : Issuer, derived : BOOLEAN, scheme : Schemes, loopback : BOOLEAN]

VARIABLES
  cfg,     \* OAuthConfig: issuer, jwks, audience, insecure
  answers, \* what the sources asked so far answered, in order
  found,   \* discovered: the coordinates of the first that had any, or Nothing
  result   \* BuildVerifier's: Pending, Refused or the verifier's coordinates

cvars == <<cfg, answers, found, result>>

-----------------------------------------------------------------------------
(* What a source publishes *)

Nothing == [none |-> TRUE]
Pending == [pending |-> TRUE]
Refused == [refused |-> TRUE]

\* defaultJWKSURI
DefaultJWKS(i) == [of |-> i, derived |-> TRUE, scheme |-> IssuerScheme(i),
                   loopback |-> IssuerLoopback(i)]

\* A source is not there (no port, endpoint or variable), fails (no answer, an
\* error status, a body that does not decode), or has an identity block.
Silent == [state |-> "absent"]
Failed == [state |-> "failed"]
Published == [state : {"block"}, issuer : Issuer \cup {Empty},
              jwks : {u \in Address : ~u.derived} \cup {Empty},
              audience : Audience \cup {Empty}]
EnvBlock  == [state : {"block"}, issuer : Issuer, jwks : {Empty},
              audience : Audience \cup {Empty}]

ASSUME MetadataAssumption == Metadata \subseteq Published

\* coordsFromMetadata: a block without an issuer is no answer.
AnyBlock(a)  == a.state = "block"                 \* faulty variant
HasIssuer(a) == a.state = "block" /\ a.issuer # Empty

CoordsOf(a) ==
  IF ~HasIssuer(a) THEN Nothing
  ELSE [issuer |-> a.issuer, audience |-> a.audience,
        jwks |-> IF a.jwks = Empty THEN DefaultJWKS(a.issuer) ELSE a.jwks]

-----------------------------------------------------------------------------
\* The sources in the order they are asked: the local sidecar, the remote one,
\* the environment.
Sources ==
  <<{Silent, Failed} \cup Metadata, {Silent, Failed} \cup Metadata,
    {Silent} \cup EnvBlock>>

Config == [issuer : Issuer \cup {Empty},
           jwks : {u \in Address : ~u.derived} \cup {Empty},
           audience : Audience \cup {Empty}, insecure : BOOLEAN]

ConfigInit ==
  /\ cfg \in Config
  /\ answers = <<>>
  /\ found = Nothing
  /\ result = Pending

\* Discovery runs only when the issuer or the address is open.
MustDiscover == cfg.issuer = Empty \/ cfg.jwks = Empty

Searching == MustDiscover /\ found = Nothing /\ Len(answers) < 3

\* discoverFromMetadata, discoverFromRemote, discoverFromEnv
Ask ==
  /\ result = Pending
  /\ Searching
  /\ \E a \in Sources[Len(answers) + 1] :
       answers' = Append(answers, a) /\ found' = CoordsOf(a)
  /\ UNCHANGED <<cfg, result>>

-----------------------------------------------------------------------------
(* Resolution *)

TheIssuer ==
  IF cfg.issuer # Empty THEN cfg.issuer
  ELSE IF found # Nothing THEN found.issuer ELSE Empty

\* The published address counts only for the issuer that is verified.
AnyDiscovery == found # Nothing                   \* faulty variant
Describes    == found # Nothing /\ found.issuer = TheIssuer

TheJWKS ==
  IF cfg.jwks # Empty THEN cfg.jwks
  ELSE IF Describes THEN found.jwks
  ELSE IF TheIssuer # Empty THEN DefaultJWKS(TheIssuer) ELSE Empty

TheAudience ==
  IF cfg.audience # Empty THEN cfg.audience
  ELSE IF found # Nothing THEN found.audience ELSE Empty

\* checkJWKSTransport
TransportAllowed(uri) ==
  \/ uri.scheme = "https"
  \/ uri.scheme = "http" /\ (cfg.insecure \/ uri.loopback)

Resolve ==
  /\ result = Pending
  /\ ~Searching
  /\ result' =
       IF TheIssuer = Empty \/ TheJWKS = Empty THEN Refused
       ELSE IF ~TransportAllowed(TheJWKS) THEN Refused
       ELSE [issuer |-> TheIssuer, jwks |-> TheJWKS, audience |-> TheAudience]
  /\ UNCHANGED <<cfg, answers, found>>

BuildStep == Ask \/ Resolve

BuildSpec == ConfigInit /\ [][BuildStep]_cvars

-----------------------------------------------------------------------------
(* Properties *)

Resolved == result \notin {Pending, Refused}

\* A pinned issuer is never checked against another issuer's keys: unless the
\* address is configured, it is the issuer's own jwks.json or one published by
\* a source together with that very issuer.
KeysBelongToIssuer ==
  Resolved /\ cfg.jwks = Empty =>
    \/ result.jwks = DefaultJWKS(result.issuer)
    \/ \E k \in 1..Len(answers) :
         /\ answers[k].state = "block"
         /\ answers[k].issuer = result.issuer
         /\ answers[k].jwks = result.jwks

\* "First answer winning": a source is asked only when every one before it had
\* no issuer to give, none is asked when issuer and address are explicit, and
\* the search is not given up while a source is left.
NamesIssuer(a) == a.state = "block" /\ a.issuer # Empty

FirstAnswerWins ==
  /\ \A k \in 1..Len(answers) - 1 : ~NamesIssuer(answers[k])
  /\ cfg.issuer # Empty /\ cfg.jwks # Empty => answers = <<>>
  /\ result # Pending /\ (cfg.issuer = Empty \/ cfg.jwks = Empty) =>
       Len(answers) = 3 \/ NamesIssuer(answers[Len(answers)])

=============================================================================
