------------------------------ MODULE Redirects ------------------------------
(***************************************************************************)
(* identity/http.go: Transport, the RoundTripper that attaches the calling *)
(* user's token.  net/http calls it once for the request an application    *)
(* sends and once for every redirect that is followed.                     *)
(*                                                                         *)
(* External: http.Client, as RoundTrip relies on it.  It follows redirects *)
(* above the transport, gives every hop the context and the headers of the *)
(* first request (its own sensitive headers aside, UserTokenHeader not     *)
(* being one of them), and points from each hop to the response that       *)
(* caused it, from which the request before can be read.                   *)
(***************************************************************************)
EXTENDS Naturals, Sequences, FiniteSets

CONSTANTS
  Host,      \* host names, up to case
  Port,      \* ports that are spelled out
  Implied,   \* a port left out
  Caller,    \* inbound callers whose token a context can carry
  Nobody,    \* a context without one
  Stale,     \* a value the application put in UserTokenHeader itself
  maxRedirectChainWalk,
  MaxHops    \* bound: hops of one request, as the client's policy allows

ASSUME RedirectsAssumption ==
  /\ Implied \notin Port
  /\ Cardinality({Nobody, Stale}) = 2 /\ {Nobody, Stale} \cap Caller = {}
  /\ {80, 443} \subseteq Port
  /\ maxRedirectChainWalk \in Nat \ {0}
  /\ MaxHops \in Nat \ {0}

URL == [scheme : {"http", "https"}, host : Host, port : Port \cup {Implied}]

VARIABLES
  caller,   \* whose token the request's context carries
  byHand,   \* what the application put in the header itself, Nobody if nothing
  chain,    \* the URLs of the hops so far, the first request's first
  broken,   \* the hops whose causing response does not name its request
  sent      \* hop -> what UserTokenHeader carried, Nobody when it was omitted

tvars == <<caller, byHand, chain, broken, sent>>

RequestInit ==
  /\ caller = Nobody /\ byHand = Nobody
  /\ chain = <<>> /\ broken = {} /\ sent = <<>>

\* http.Client.Do with a request the application built.
Do ==
  /\ chain = <<>>
  /\ caller' \in Caller \cup {Nobody}
  /\ byHand' \in {Stale, Nobody}
  /\ chain' \in {<<u>> : u \in URL}
  /\ UNCHANGED <<broken, sent>>

-----------------------------------------------------------------------------
(* Origins *)

OriginPort(u) ==
  IF u.port # Implied THEN u.port ELSE IF u.scheme = "https" THEN 443 ELSE 80

\* Same scheme, host and port, or an upgrade from port 80 to TLS on port 443.
SameHostEnough(original, target) ==               \* faulty variant
  original.host = target.host

SameIdentityOrigin(original, target) ==
  /\ original.host = target.host
  /\ \/ /\ original.scheme = target.scheme
        /\ OriginPort(original) = OriginPort(target)
     \/ /\ original.scheme = "http" /\ OriginPort(original) = 80
        /\ target.scheme = "https" /\ OriginPort(target) = 443

\* originalRequestURL walks from hop k back to the first request: each step
\* needs a response that names its request, and there are only so many steps.
Walkable(k) ==
  /\ k <= maxRedirectChainWalk
  /\ \A j \in 2..k : j \notin broken

HopBefore(k) == IF k = 1 THEN chain[1] ELSE chain[k - 1]   \* faulty variant
Original(k)  == chain[1]

AddressesOriginalOrigin(k) ==
  Walkable(k) /\ SameIdentityOrigin(Original(k), chain[k])

\* The header a hop starts with is cleared before the context's is attached.
ClearedHeader(k) == Nobody

RoundTrip ==
  /\ Len(sent) < Len(chain)
  /\ LET k == Len(chain)
     IN  sent' = Append(sent,
           IF AddressesOriginalOrigin(k) /\ caller # Nobody THEN caller
           ELSE ClearedHeader(k))
  /\ UNCHANGED <<caller, byHand, chain, broken>>

\* The server answers with a redirect, to anywhere, and the client follows it.
Redirect ==
  /\ chain # <<>> /\ Len(sent) = Len(chain)
  /\ Len(chain) < MaxHops
  /\ \E u \in URL, cut \in BOOLEAN :
       /\ chain' = Append(chain, u)
       /\ broken' = IF cut THEN broken \cup {Len(chain) + 1} ELSE broken
  /\ UNCHANGED <<caller, byHand, sent>>

RequestStep == Do \/ RoundTrip \/ Redirect

RequestSpec == RequestInit /\ [][RequestStep]_tvars

-----------------------------------------------------------------------------
(* Properties *)

\* Where a request arrives: the server behind a host's port, and whether the
\* way there is encrypted.
Arrives(u) == <<u.host, OriginPort(u), u.scheme>>

\* A token is seen only by the server the application addressed, or by the TLS
\* port of a host it addressed on port 80: no chain of redirects, through other
\* hosts and back, carries it anywhere else.  And it is the context's: "a request
\* never carries an identity the current context does not hold, whatever set it".
TokenStaysHome ==
  \A k \in 1..Len(sent) : sent[k] # Nobody =>
    /\ sent[k] = caller
    /\ \/ Arrives(chain[k]) = Arrives(chain[1])
       \/ /\ Arrives(chain[1]) = <<chain[k].host, 80, "http">>
          /\ Arrives(chain[k]) = <<chain[1].host, 443, "https">>

\* A redirect within the origin keeps the caller's identity, and so does a
\* return to it after a detour, as long as the chain can be walked.
StaysIdentified ==
  \A k \in 1..Len(sent) :
    /\ Arrives(chain[k]) = Arrives(chain[1])
    /\ k <= maxRedirectChainWalk
    /\ broken \cap (1..k) = {}
    => sent[k] = caller
=============================================================================
