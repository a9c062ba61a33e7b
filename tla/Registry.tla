------------------------------- MODULE Registry -------------------------------
(***************************************************************************)
(* The agent directory of one team (registry/registry.go) over a state     *)
(* store with etags (registry/store.go, registry/daprstore.go).            *)
(*                                                                         *)
(* Register and Deregister calls of any number of processes run at the     *)
(* same time.  Each writes or deletes the agent's record and then changes  *)
(* the team's index by read, modify and conditional write, with another    *)
(* try on an etag conflict.  A store call may fail, after it took effect   *)
(* or before; then the call returns that error, or takes it for a conflict *)
(* when its text says etag or aborted.                                     *)
(***************************************************************************)
EXTENDS Naturals, FiniteSets, SequencesExt

CONSTANTS
  Name,            \* agent names
  Op,              \* calls of Register and Deregister
  Calls,           \* op -> [kind, name]
  InitialIndex,    \* the index list the store starts with
  IndexExists,     \* FALSE: no agent of the team was ever registered
  maxETagAttempts, \* index-update retry cap (10 in the code)
  StoreFails       \* whether store calls may fail

ASSUME RegistryAssumption ==
  /\ Calls \in [Op -> [kind : {"register", "deregister"}, name : Name]]
  /\ InitialIndex \in Seq(Name)
  /\ Len(InitialIndex) = Cardinality(Range(InitialIndex))
  /\ IndexExists \/ InitialIndex = <<>>
  /\ maxETagAttempts \in Nat \ {0}
  /\ {IndexExists, StoreFails} \subseteq BOOLEAN

VARIABLES
  record,  \* agent names that have a record in the store
  index,   \* the list in the index document; <<>> when there is none
  etag,    \* the index document's version, NoETag when there is none
  op,      \* op -> how far the call is, and what it last read
  wrote,   \* history: ops whose index write took effect
  misread  \* history: how many errors were taken for conflicts

rvars == <<record, index, etag, op, wrote, misread>>
hist  == <<wrote, misread>>

NoETag == 0

\* A call: pc, the attempt it is in, and the list and etag loadIndex returned.
Call == [pc : {"start", "load", "save", "ok", "failed"},
         attempt : 1..maxETagAttempts, list : Seq(Name), etag : Nat]

RegistryTypeOK ==
  /\ record \subseteq Name
  /\ index \in Seq(Name)
  /\ etag \in Nat
  /\ op \in [Op -> Call]
  /\ wrote \subseteq Op
  /\ misread \in Nat

RegistryInit ==
  /\ record = Range(InitialIndex)
  /\ index = InitialIndex
  /\ etag = IF IndexExists THEN 1 ELSE NoETag
  /\ op = [o \in Op |-> [pc |-> "start", attempt |-> 1, list |-> <<>>,
                         etag |-> NoETag]]
  /\ wrote = {}
  /\ misread = 0

-----------------------------------------------------------------------------
Registers(o) == Calls[o].kind = "register"
NameOf(o)    == Calls[o].name

\* The first store call: Set of the record, or Delete.
Records(o) == IF Registers(o) THEN record \cup {NameOf(o)} ELSE record \ {NameOf(o)}

WriteRecord(o) ==
  /\ op[o].pc = "start"
  /\ record' = Records(o)
  /\ op' = [op EXCEPT ![o].pc = "load"]
  /\ UNCHANGED <<index, etag, hist>>

\* loadIndex.
LoadIndex(o) ==
  /\ op[o].pc = "load"
  /\ op' = [op EXCEPT ![o].pc = "save", ![o].list = index, ![o].etag = etag]
  /\ UNCHANGED <<record, index, etag, hist>>

\* mutate: add the name unless it is listed; remove its entry.
AlwaysAppended(o, list) ==                      \* faulty variant
  IF Registers(o) THEN Append(list, NameOf(o)) ELSE RemoveFirst(list, NameOf(o))

Mutated(o, list) ==
  IF ~Registers(o) THEN RemoveFirst(list, NameOf(o))
  ELSE IF Contains(list, NameOf(o)) THEN list
  ELSE Append(list, NameOf(o))

NewList(o) == Mutated(o, op[o].list)

\* The name is there, or is gone, already: nothing is written.
RetryUnchanged == "load"                        \* faulty variant
AfterNoChange  == "ok"

NothingToWrite(o) ==
  /\ op[o].pc = "save"
  /\ NewList(o) = op[o].list
  /\ op' = [op EXCEPT ![o].pc = AfterNoChange]
  /\ UNCHANGED <<record, index, etag, hist>>

MustWrite(o) == op[o].pc = "save" /\ NewList(o) # op[o].list

\* Set with the etag that was read; without one it is unconditional.
AnyETag(o)     == TRUE                          \* faulty variant
OneBehind(o)   == op[o].etag + 1 = etag         \* faulty variant
ETagMatches(o) == op[o].etag = NoETag \/ op[o].etag = etag

WriteIndex(o) ==
  /\ index' = NewList(o)
  /\ etag' = etag + 1
  /\ wrote' = wrote \cup {o}

SaveIndex(o) ==
  /\ MustWrite(o)
  /\ ETagMatches(o)
  /\ WriteIndex(o)
  /\ op' = [op EXCEPT ![o].pc = "ok"]
  /\ UNCHANGED <<record, misread>>

\* A concurrent writer won: load again, or give up after the last attempt.
AfterConflict   == "load"
LastAttempt(o)  == op[o].attempt >= maxETagAttempts

TryAgain(o) ==
  IF LastAttempt(o) THEN op' = [op EXCEPT ![o].pc = "failed"]
  ELSE op' = [op EXCEPT ![o].pc = AfterConflict, ![o].attempt = @ + 1]

ETagConflict(o) ==
  /\ MustWrite(o)
  /\ ~ETagMatches(o)
  /\ TryAgain(o)
  /\ UNCHANGED <<record, index, etag, hist>>

MayHaveWritten(o) ==
  \/ UNCHANGED <<index, etag, wrote>>
  \/ ETagMatches(o) /\ WriteIndex(o)

\* isETagConflict takes another error of that Set for a conflict.
Misread(o) ==
  /\ StoreFails
  /\ MustWrite(o)
  /\ MayHaveWritten(o)
  /\ misread' = misread + 1
  /\ TryAgain(o)
  /\ UNCHANGED record

\* Any other error of a store call ends the call.  A write may have taken
\* effect all the same.
StoreError(o) ==
  /\ StoreFails
  /\ op[o].pc \in {"start", "load", "save"}
  /\ op' = [op EXCEPT ![o].pc = "failed"]
  /\ \/ UNCHANGED <<record, index, etag, wrote>>
     \/ op[o].pc = "start" /\ record' = Records(o) /\ UNCHANGED <<index, etag, wrote>>
     \/ MustWrite(o) /\ MayHaveWritten(o) /\ UNCHANGED record
  /\ UNCHANGED misread

OpStep(o) ==
  \/ WriteRecord(o) \/ LoadIndex(o) \/ NothingToWrite(o)
  \/ SaveIndex(o) \/ ETagConflict(o)

RegistryNext == \E o \in Op : OpStep(o) \/ Misread(o) \/ StoreError(o)

RegistrySpec == RegistryInit /\ [][RegistryNext]_rvars

-----------------------------------------------------------------------------
(* Properties *)

\* List and Get, as a reader that comes now sees them.
Listed   == Range(index)
Found(n) == n \in record
Done(o)  == op[o].pc \in {"ok", "failed"}

\* Calls that want the opposite for the same agent.
Rivals(o) == {q \in Op : NameOf(q) = NameOf(o) /\ Registers(q) # Registers(o)}

\* The directory lists an agent at most once.
NoDuplicates == Len(index) = Cardinality(Listed)

\* "Index mutations are serialized": a step changes the index by the one name of
\* the call that takes it, so no concurrent call's entry is lost or brought back.
IndexMutationsSerialized ==
  [][\A n \in Name : (n \in Listed) # (n \in Range(index')) =>
       \E o \in Op : op'[o] # op[o] /\ NameOf(o) = n
                     /\ (n \in Range(index') <=> Registers(o))]_rvars

\* A call that returned without an error did what it says, and it stays so as
\* long as no call wants the opposite: the agent is listed and has a record, or
\* neither.  (Register and Deregister of one agent at the same time may leave
\* one without the other: each is two store calls.)
SuccessIsVisible ==
  \A o \in Op : op[o].pc = "ok" /\ Rivals(o) = {} =>
    /\ NameOf(o) \in Listed <=> Registers(o)
    /\ Found(NameOf(o)) <=> Registers(o)

\* Every conflict is the success of somebody else: a call is in attempt k only
\* after k-1 other calls wrote the index, or errors were taken for conflicts, so
\* without such errors it gives up only among maxETagAttempts writers or more.
ConflictsArePaidFor ==
  \A o \in Op : op[o].attempt - 1 <= Cardinality(wrote \ {o}) + misread
=============================================================================
