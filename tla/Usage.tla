--------------------------------- MODULE Usage ---------------------------------
(***************************************************************************)
(* analytics.go: the anonymous usage event.  A process reports once,       *)
(* however many Runners it makes at the same time; the event is sent by a  *)
(* goroutine of its own, which nobody waits for.                           *)
(*                                                                         *)
(* A value is the sequence of its runes, a rune its width in bytes.        *)
(***************************************************************************)
EXTENDS Naturals, SequencesExt

CONSTANTS
  Process,
  Environment,      \* process -> what reportUsage reads of its environment
  dimensionMaxLen   \* bytes of a query-string value (64 in the code)

\* endpoint: usageEndpoint is not empty; optOut, ciFlags: the truth of the
\* variables of those lists that are set; ciVendor: one of the presence
\* variables is; daprHosts: whether the host of each Dapr endpoint variable that
\* parses is Catalyst's; apiToken: DAPR_API_TOKEN is set.
EnvironmentType ==
  [endpoint : BOOLEAN, optOut : SUBSET BOOLEAN, ciFlags : SUBSET BOOLEAN,
   ciVendor : BOOLEAN, daprHosts : SUBSET BOOLEAN, apiToken : BOOLEAN]

ASSUME UsageAssumption ==
  /\ Environment \in [Process -> EnvironmentType]
  /\ dimensionMaxLen \in Nat

VARIABLES
  reported,  \* process -> reportedPackages["go-ai"]
  outbox,    \* process -> the goroutines that are about to send, by their event
  events     \* process -> the events that were sent

uvars == <<reported, outbox, events>>

UsageInit ==
  /\ reported = [p \in Process |-> FALSE]
  /\ outbox = [p \in Process |-> <<>>]
  /\ events = [p \in Process |-> <<>>]

-----------------------------------------------------------------------------
(* The event *)

\* usageReportingDisabled, runningInCI, detectTarget
Disabled(e)    == TRUE \in e.optOut
RunningInCI(e) == TRUE \in e.ciFlags \/ e.ciVendor
Target(e) == IF TRUE \in e.daprHosts \/ e.apiToken THEN "catalyst" ELSE "dapr"

\* A value as bytes: whether each of them ends a rune.
Bytes(value) ==
  FlattenSeq([k \in DOMAIN value |->
                [j \in 1..value[k] |-> j = value[k]]])

\* cleanDimension cuts the bytes and backs off to the end of a rune.
CutOnly(bytes) == SubSeq(bytes, 1, dimensionMaxLen)      \* faulty variant
BackedOff(bytes) ==
  LET cut  == SubSeq(bytes, 1, dimensionMaxLen)
      ends == {k \in DOMAIN cut : cut[k]} \cup {0}
  IN  SubSeq(cut, 1, Max(ends))

CleanDimension(value) ==
  LET bytes == Bytes(value)
  IN  IF Len(bytes) <= dimensionMaxLen THEN bytes ELSE BackedOff(bytes)

\* buildUsageURL: the host's dimensions and the caller's framework, which is
\* dropped when nothing of it is left.
Event(p, framework) ==
  [target |-> Target(Environment[p]), ci |-> RunningInCI(Environment[p]),
   framework |-> CleanDimension(framework)]

-----------------------------------------------------------------------------
(* reportUsage *)

AlreadyReported(p) == reported[p]

\* The mark is read and set in one critical section, before the opt-out is
\* looked at; a goroutine is started for the event.
ReportUsage(p, framework) ==
  IF ~Environment[p].endpoint THEN UNCHANGED uvars
  ELSE /\ reported' = [reported EXCEPT ![p] = TRUE]
       /\ outbox' = IF AlreadyReported(p) \/ Disabled(Environment[p]) THEN outbox
                    ELSE [outbox EXCEPT ![p] = Append(@, Event(p, framework))]
       /\ UNCHANGED events

\* sendUsageEvent: the request is made, or fails, or times out; nothing is
\* tried again.
SendUsageEvent(p) ==
  /\ outbox[p] # <<>>
  /\ outbox' = [outbox EXCEPT ![p] = Tail(@)]
  /\ \/ events' = [events EXCEPT ![p] = Append(@, Head(outbox[p]))]
     \/ UNCHANGED events
  /\ UNCHANGED reported

-----------------------------------------------------------------------------
(* Properties *)

\* The longest row of whole runes that fits.
WholeRunes(value) ==
  LET width(k) == Len(Bytes(SubSeq(value, 1, k)))
  IN  Bytes(SubSeq(value, 1,
        Max({k \in 0..Len(value) : width(k) <= dimensionMaxLen})))

\* "One event per package per process": however many Runners a process makes
\* at once, and whether they succeed, at most one event leaves it, none when the
\* user opted out, and what it says of the framework is cut between runes.
ReportedOnce(frameworks) ==
  \A p \in Process :
    LET all == events[p] \o outbox[p]
    IN  /\ Len(all) <= 1
        /\ Disabled(Environment[p]) \/ ~Environment[p].endpoint => all = <<>>
        /\ \A k \in DOMAIN all :
             \E f \in frameworks : all[k].framework = WholeRunes(f)
=============================================================================
