--------------------------- MODULE NewRunner_proofs ---------------------------
(***************************************************************************)
(* NewRunner, the registry and the usage report, for any number of calls   *)
(* in any number of processes.  Registry and Usage are proved about by     *)
(* themselves first; NewRunner takes their steps.                          *)
(***************************************************************************)
EXTENDS NewRunner, FiniteSetTheorems, SequenceTheorems, WellFoundedInduction,
        TLAPS

-----------------------------------------------------------------------------
(* Lists without repetitions *)

Distinct(s) == \A i, j \in 1..Len(s) : s[i] = s[j] => i = j

LEMMA DistinctLength ==
  ASSUME NEW s \in Seq(Name)
  PROVE  Len(s) = Cardinality(Range(s)) <=> Distinct(s)
<1> DEFINE n == Len(s)
<1>1. n \in Nat /\ DOMAIN s = 1..n
  OBVIOUS
<1>2. s \in Surjection(1..n, Range(s))
  BY <1>1 DEF Surjection, Range
<1>3. IsFiniteSet(1..n) /\ Cardinality(1..n) = n
  BY <1>1, FS_Interval
<1>4. Cardinality(Range(s)) = n <=> s \in Injection(1..n, Range(s))
  BY <1>2, <1>3, FS_Surjection
<1>5. s \in Injection(1..n, Range(s)) <=> Distinct(s)
  BY <1>1 DEF Injection, Distinct, Range, IsInjective
<1> QED BY <1>4, <1>5

LEMMA AppendNew ==
  ASSUME NEW s \in Seq(Name), NEW x \in Name, Distinct(s), ~Contains(s, x)
  PROVE  /\ Append(s, x) \in Seq(Name)
         /\ Distinct(Append(s, x))
         /\ Range(Append(s, x)) = Range(s) \cup {x}
<1> DEFINE n == Len(s)
           t == Append(s, x)
<1>1. /\ n \in Nat /\ DOMAIN s = 1..n /\ DOMAIN t = 1..n + 1
      /\ t \in Seq(Name) /\ Len(t) = n + 1
      /\ t[n + 1] = x /\ \A i \in 1..n : t[i] = s[i]
  OBVIOUS
<1>2. \A i \in 1..n : s[i] # x
  BY DEF Contains
<1>3. \A i : i \in 1..n + 1 <=> i \in 1..n \/ i = n + 1
  BY <1>1
<1> HIDE DEF n, t
<1>4. \A i, j \in 1..n + 1 : t[i] = t[j] => i = j
  <2> SUFFICES ASSUME NEW i \in 1..n + 1, NEW j \in 1..n + 1, t[i] = t[j]
               PROVE  i = j
    OBVIOUS
  <2>1. CASE i \in 1..n /\ j \in 1..n
    BY <1>1, <2>1 DEF Distinct, n
  <2>2. CASE i = n + 1 \/ j = n + 1
    BY <1>1, <1>2, <1>3, <2>2
  <2> QED BY <1>3, <2>1, <2>2
<1>5. \A y : y \in Range(t) <=> y \in Range(s) \cup {x}
  BY <1>1, <1>3 DEF Range
<1> QED BY <1>1, <1>4, <1>5 DEF Distinct, t

LEMMA RemoveOnly ==
  ASSUME NEW s \in Seq(Name), NEW x, Distinct(s)
  PROVE  /\ RemoveFirst(s, x) \in Seq(Name)
         /\ Distinct(RemoveFirst(s, x))
         /\ Range(RemoveFirst(s, x)) = Range(s) \ {x}
<1> DEFINE n == Len(s)
<1>0. n \in Nat /\ DOMAIN s = 1..n /\ \A k \in 1..n : s[k] \in Name
  OBVIOUS
<1>1. CASE ~\E i \in 1..n : s[i] = x
  <2>1. RemoveFirst(s, x) = s
    BY <1>1 DEF RemoveFirst
  <2>2. x \notin Range(s)
    BY <1>0, <1>1 DEF Range
  <2> QED BY <2>1, <2>2
<1>2. CASE \E i \in 1..n : s[i] = x
  <2>1. PICK i \in 1..n : s[i] = x
    BY <1>2
  <2>2. \A j \in 1..n : s[j] = x => j = i
    BY <2>1 DEF Distinct
  <2> DEFINE r == SubSeq(s, 1, i - 1) \o SubSeq(s, i + 1, n)
  <2>3. RemoveFirst(s, x) = r
    <3>1. RemoveFirst(s, x) = RemoveAt(s, SelectInSeq(s, LAMBDA v: v = x))
      BY <1>2 DEF RemoveFirst
    <3>2. SelectInSeq(s, LAMBDA v: v = x) = i
      <4>1. {j \in 1..Len(s) : s[j] = x} = {i}
        BY <2>1, <2>2
      <4>2. Min({i}) = i
        BY <1>0 DEF Min
      <4> QED BY <4>1, <4>2 DEF SelectInSeq
    <3> QED BY <3>1, <3>2 DEF RemoveAt
  <2> DEFINE a == SubSeq(s, 1, i - 1)
             b == SubSeq(s, i + 1, n)
  <2>4. /\ a \in Seq(Name) /\ Len(a) = i - 1
        /\ \A k \in 1..i - 1 : a[k] = s[k]
    <3>1. \A k \in 1..i - 1 : s[k] \in Name
      BY <1>0
    <3>2. /\ a \in Seq(Name)
          /\ Len(a) = IF 1 <= i - 1 THEN i - 1 - 1 + 1 ELSE 0
          /\ \A k \in 1..i - 1 - 1 + 1 : a[k] = s[1 + k - 1]
      BY <1>0, <3>1, SubSeqProperties
    <3> HIDE DEF a
    <3> QED BY <1>0, <3>2
  <2>5. /\ b \in Seq(Name) /\ Len(b) = n - i
        /\ \A k \in 1..n - i : b[k] = s[k + i]
    <3>1. \A k \in i + 1..n : s[k] \in Name
      BY <1>0
    <3>2. /\ b \in Seq(Name)
          /\ Len(b) = IF i + 1 <= n THEN n - (i + 1) + 1 ELSE 0
          /\ \A k \in 1..n - (i + 1) + 1 : b[k] = s[i + 1 + k - 1]
      BY <1>0, <3>1, SubSeqProperties
    <3> HIDE DEF b, n
    <3>3. n - (i + 1) + 1 = n - i /\ Len(b) = n - i
      <4>1. i \in Nat /\ i <= n
        BY <1>0
      <4>2. n - (i + 1) + 1 = n - i /\ (~(i + 1 <= n) => n - i = 0)
        BY <1>0, <4>1
      <4> QED BY <3>2, <4>2
    <3>4. ASSUME NEW k \in 1..n - i PROVE b[k] = s[k + i]
      <4>1. b[k] = s[i + 1 + k - 1]
        BY <3>2, <3>3
      <4>2. i + 1 + k - 1 = k + i
        BY <1>0
      <4> QED BY <4>1, <4>2
    <3> QED BY <3>2, <3>3, <3>4
  <2> HIDE DEF a, b
  <2> DEFINE t == a \o b
  <2>6. /\ t \in Seq(Name) /\ Len(t) = n - 1
        /\ \A k \in 1..n - 1 : t[k] = IF k < i THEN s[k] ELSE s[k + 1]
    <3>1. /\ t \in Seq(Name) /\ Len(t) = Len(a) + Len(b)
          /\ \A k \in 1..Len(a) + Len(b) :
               t[k] = IF k <= Len(a) THEN a[k] ELSE b[k - Len(a)]
      BY <2>4, <2>5, ConcatProperties
    <3> HIDE DEF t
    <3>2. Len(a) + Len(b) = n - 1
      BY <1>0, <2>4, <2>5
    <3>3. ASSUME NEW k \in 1..n - 1
          PROVE  t[k] = IF k < i THEN s[k] ELSE s[k + 1]
      <4>1. CASE k < i
        <5>1. k <= Len(a) /\ k \in 1..i - 1
          BY <1>0, <2>4, <4>1
        <5> QED BY <2>4, <3>1, <3>2, <4>1, <5>1
      <4>2. CASE ~(k < i)
        <5>1. k - Len(a) \in 1..n - i /\ (k - Len(a)) + i = k + 1 /\ ~(k <= Len(a))
          BY <1>0, <2>4, <4>2
        <5>2. b[k - Len(a)] = s[(k - Len(a)) + i]
          BY <2>5, <5>1
        <5>3. t[k] = b[k - Len(a)]
          BY <3>1, <3>2, <5>1
        <5> QED BY <4>2, <5>1, <5>2, <5>3
      <4> QED BY <4>1, <4>2
    <3> QED BY <3>1, <3>2, <3>3
  <2> HIDE DEF t
  <2> DEFINE at(k) == IF k < i THEN k ELSE k + 1
  <2>7. \A k \in 1..n - 1 : at(k) \in 1..n /\ at(k) # i
    BY <1>0
  <2>8. \A j, k \in 1..n - 1 : at(j) = at(k) => j = k
    BY <1>0
  <2>9. \A j \in 1..n : j # i => \E k \in 1..n - 1 : at(k) = j
    <3> SUFFICES ASSUME NEW j \in 1..n, j # i PROVE \E k \in 1..n - 1 : at(k) = j
      OBVIOUS
    <3>1. CASE j < i
      BY <1>0, <3>1
    <3>2. CASE j > i
      <4>1. j - 1 \in 1..n - 1 /\ at(j - 1) = j
        BY <1>0, <3>2
      <4> QED BY <4>1
    <3> QED BY <1>0, <3>1, <3>2
  <2>10. \A k \in 1..n - 1 : t[k] = s[at(k)]
    BY <2>6
  <2> HIDE DEF at
  <2>11. Distinct(t)
    BY <2>6, <2>7, <2>8, <2>10 DEF Distinct
  <2>12. \A y : y \in Range(t) <=> y \in Range(s) /\ y # x
    <3>1. DOMAIN t = 1..n - 1
      BY <2>6
    <3>2. \A y : y \in Range(t) <=> \E k \in 1..n - 1 : s[at(k)] = y
      BY <2>10, <3>1 DEF Range
    <3>3. \A y : y \in Range(s) <=> \E j \in 1..n : s[j] = y
      BY <1>0 DEF Range
    <3> QED BY <2>1, <2>2, <2>7, <2>9, <3>2, <3>3
  <2> QED BY <2>3, <2>6, <2>11, <2>12 DEF t, a, b
<1> QED BY <1>1, <1>2

\* What mutate makes of a list: the call's name is in it, or is not, and nothing
\* else changes.
LEMMA MutatedRight ==
  ASSUME NEW o \in Op, NEW s \in Seq(Name), Distinct(s)
  PROVE  /\ Mutated(o, s) \in Seq(Name)
         /\ Distinct(Mutated(o, s))
         /\ Range(Mutated(o, s)) = IF Registers(o) THEN Range(s) \cup {NameOf(o)}
                                   ELSE Range(s) \ {NameOf(o)}
<1>1. NameOf(o) \in Name
  BY RegistryAssumption DEF NameOf
<1>2. CASE ~Registers(o)
  BY <1>2, RemoveOnly DEF Mutated
<1>3. CASE Registers(o) /\ Contains(s, NameOf(o))
  <2>1. NameOf(o) \in Range(s)
    BY <1>3 DEF Contains, Range
  <2> QED BY <1>3, <2>1 DEF Mutated
<1>4. CASE Registers(o) /\ ~Contains(s, NameOf(o))
  BY <1>1, <1>4, AppendNew DEF Mutated
<1> QED BY <1>2, <1>3, <1>4

LEMMA LeastOf ==
  ASSUME NEW n \in Nat, NEW S \in SUBSET (1..n), S # {}
  PROVE  Min(S) \in S
<1> DEFINE R == {r \in Nat \X Nat : r[1] < r[2]}
<1>1. IsWellFoundedOn(R, Nat)
  BY NatLessThanWellFounded DEF OpToRel
<1>2. PICK x \in S : \A y \in S : <<y, x>> \notin R
  <2>1. S \subseteq Nat
    OBVIOUS
  <2> HIDE DEF R
  <2> QED BY <1>1, <2>1, WFMin
<1>3. ASSUME NEW z \in S PROVE x =< z
  <2>1. x \in Nat /\ z \in Nat
    OBVIOUS
  <2>2. ~(z < x)
    BY <1>2, <2>1
  <2> QED BY <2>1, <2>2
<1>4. \E y \in S : \A z \in S : y =< z
  BY <1>3
<1> QED BY <1>4 DEF Min

LEMMA MutatedType ==
  ASSUME NEW o \in Op, NEW s \in Seq(Name)
  PROVE  Mutated(o, s) \in Seq(Name)
<1> DEFINE x == NameOf(o)
           I == {i \in 1..Len(s) : s[i] = x}
<1>1. x \in Name
  BY RegistryAssumption DEF NameOf
<1>2. RemoveFirst(s, x) \in Seq(Name)
  <2>1. CASE I = {}
    BY <2>1 DEF RemoveFirst
  <2>2. CASE I # {}
    <3>1. RemoveFirst(s, x) = RemoveAt(s, SelectInSeq(s, LAMBDA v: v = x))
      BY <2>2 DEF RemoveFirst
    <3>2. SelectInSeq(s, LAMBDA v: v = x) = Min(I)
      BY <2>2 DEF SelectInSeq
    <3>3. Min(I) \in 1..Len(s)
      <4>1. Len(s) \in Nat /\ I \in SUBSET (1..Len(s))
        OBVIOUS
      <4> HIDE DEF I
      <4> QED BY <2>2, <4>1, LeastOf
    <3>4. PICK i : i = Min(I)
      OBVIOUS
    <3> DEFINE a == SubSeq(s, 1, i - 1)
               b == SubSeq(s, i + 1, Len(s))
    <3>5. i \in 1..Len(s) /\ i \in Nat /\ Len(s) \in Nat
      BY <3>3, <3>4
    <3>6. a \in Seq(Name)
      <4>1. \A k \in 1..i - 1 : s[k] \in Name
        BY <3>5
      <4> QED BY <3>5, <4>1, SubSeqProperties
    <3>7. b \in Seq(Name)
      <4>1. \A k \in i + 1..Len(s) : s[k] \in Name
        BY <3>5
      <4> QED BY <3>5, <4>1, SubSeqProperties
    <3>8. a \o b \in Seq(Name)
      <4> HIDE DEF a, b
      <4> QED BY <3>6, <3>7
    <3> QED BY <3>1, <3>2, <3>4, <3>8 DEF RemoveAt
  <2> QED BY <2>1, <2>2
<1>3. Append(s, x) \in Seq(Name)
  BY <1>1
<1> QED BY <1>2, <1>3 DEF Mutated

-----------------------------------------------------------------------------
(* The invariants *)

\* Calls whose last write is behind them.
Finished == {q \in wrote : Done(q)}

\* Neither the index nor a list that a call read has repetitions.
NoRepetitions == Distinct(index) /\ \A o \in Op : Distinct(op[o].list)

\* Another attempt is paid for by a call that finished or by a misread error, and
\* the write behind the next conflict is paid for already.
Paid(o) ==
  LET budget == Cardinality(Finished \ {o}) + misread
  IN  /\ op[o].attempt - 1 <= budget
      /\ op[o].pc = "save" /\ op[o].etag # etag => op[o].attempt <= budget

RegInv ==
  /\ RegistryTypeOK
  /\ IsFiniteSet(wrote)
  /\ NoRepetitions
  /\ \A o \in Op : Paid(o)

\* Once there is an index, the etag a call read is its etag only as long as the
\* list that was read is its list.
Fresh ==
  /\ etag >= 1
  /\ \A o \in Op : op[o].pc = "save" =>
       /\ 1 <= op[o].etag /\ op[o].etag <= etag
       /\ op[o].etag = etag => op[o].list = index

\* Where a call without rivals has got to, its record, the list it read and the
\* index say so.
Visible(o) ==
  Rivals(o) = {} =>
    /\ op[o].pc \in {"load", "save", "ok"} => (Found(NameOf(o)) <=> Registers(o))
    /\ op[o].pc = "save" /\ (NameOf(o) \in Range(op[o].list) <=> Registers(o)) =>
         (NameOf(o) \in Listed <=> Registers(o))
    /\ op[o].pc = "ok" => (NameOf(o) \in Listed <=> Registers(o))

\* What holds of a directory whose index exists, besides.
DirInv == Fresh /\ \A o \in Op : Visible(o)

-----------------------------------------------------------------------------
(* What a step of one call looks like *)

Kept     == UNCHANGED <<index, etag, wrote>>
Wrote(q) == WriteIndex(q) /\ ETagMatches(q) /\ op[q].pc = "save"

Shape(q) ==
  /\ \A o \in Op \ {q} : op'[o] = op[o]
  /\ op' \in [Op -> Call]
  /\ ~Done(q) /\ op'[q].pc # op[q].pc /\ op'[q].pc # "start"
  /\ record' = record \/ (op[q].pc = "start" /\ record' = Records(q))
  /\ Kept \/ Wrote(q)
  /\ misread' = misread \/ misread' = misread + 1
  /\ \/ op'[q].attempt = op[q].attempt
     \/ /\ op'[q].attempt = op[q].attempt + 1
        /\ \/ misread' = misread + 1
           \/ op[q].pc = "save" /\ op[q].etag # etag
  /\ Wrote(q) => op'[q].pc \in {"ok", "failed"} \/ misread' = misread + 1
  /\ op'[q].pc = "load" => \/ op[q].pc = "start" /\ record' = Records(q)
                           \/ op[q].pc = "save"
  /\ op'[q].pc = "save" => /\ op[q].pc = "load" /\ Kept
                           /\ op'[q].list = index /\ op'[q].etag = etag
  /\ op'[q].pc = "ok" =>
       /\ op[q].pc = "save"
       /\ Wrote(q) \/ (Kept /\ NewList(q) = op[q].list)
  /\ op'[q].list \in {op[q].list, index}

LEMMA AttemptsType == maxETagAttempts \in Nat \ {0}
BY RegistryAssumption

\* A step that only moves a call on.
LEMMA MovedOn ==
  ASSUME op \in [Op -> Call], NEW q \in Op, NEW to \in {"load", "ok", "failed"},
         op' = [op EXCEPT ![q].pc = to]
  PROVE  /\ op' \in [Op -> Call]
         /\ \A o \in Op \ {q} : op'[o] = op[o]
         /\ op'[q].pc = to /\ op'[q].attempt = op[q].attempt
         /\ op'[q].list = op[q].list /\ op'[q].etag = op[q].etag
<1> DEFINE r == [op[q] EXCEPT !.pc = to]
<1>1. op[q] \in Call /\ op' = [op EXCEPT ![q] = r]
  OBVIOUS
<1>2. /\ r \in Call /\ r.pc = to /\ r.attempt = op[q].attempt
      /\ r.list = op[q].list /\ r.etag = op[q].etag
  BY <1>1 DEF Call
<1> HIDE DEF r
<1> QED BY <1>1, <1>2

\* Another attempt, or the end after the last.
LEMMA Again ==
  ASSUME op \in [Op -> Call], NEW q \in Op, TryAgain(q)
  PROVE  /\ op' \in [Op -> Call]
         /\ \A o \in Op \ {q} : op'[o] = op[o]
         /\ op'[q].list = op[q].list
         /\ \/ op'[q].pc = "failed" /\ op'[q].attempt = op[q].attempt
            \/ op'[q].pc = "load" /\ op'[q].attempt = op[q].attempt + 1
<1> DEFINE last == [op[q] EXCEPT !.pc = "failed"]
           next == [op[q] EXCEPT !.pc = "load", !.attempt = @ + 1]
<1>1. op[q] \in Call /\ op[q].attempt \in 1..maxETagAttempts
  BY DEF Call
<1>2. CASE LastAttempt(q)
  <2>1. op' = [op EXCEPT ![q] = last]
    BY <1>2 DEF TryAgain
  <2>2. /\ last \in Call /\ last.pc = "failed"
        /\ last.attempt = op[q].attempt /\ last.list = op[q].list
    BY <1>1 DEF Call
  <2> HIDE DEF last
  <2> QED BY <2>1, <2>2
<1>3. CASE ~LastAttempt(q)
  <2>1. op' = [op EXCEPT ![q] = next]
    BY <1>3 DEF TryAgain, AfterConflict
  <2>2. op[q].attempt + 1 \in 1..maxETagAttempts
    BY <1>1, <1>3, AttemptsType DEF LastAttempt
  <2>3. /\ next \in Call /\ next.pc = "load"
        /\ next.attempt = op[q].attempt + 1 /\ next.list = op[q].list
    BY <1>1, <2>2 DEF Call
  <2> HIDE DEF next
  <2> QED BY <2>1, <2>3
<1> QED BY <1>2, <1>3

LEMMA StepShape ==
  ASSUME RegistryTypeOK, NEW q \in Op, OpStep(q) \/ Misread(q) \/ StoreError(q)
  PROVE  Shape(q)
<1>0. op \in [Op -> Call] /\ op[q] \in Call
  BY DEF RegistryTypeOK
<1>1. CASE WriteRecord(q)
  <2>1. /\ op[q].pc = "start" /\ record' = Records(q)
        /\ op' = [op EXCEPT ![q].pc = "load"]
        /\ Kept /\ misread' = misread
    BY <1>1 DEF WriteRecord, hist, Kept
  <2>2. ~Wrote(q)
    BY <2>1 DEF Wrote
  <2> QED BY <1>0, <2>1, <2>2, MovedOn DEF Shape, Done
<1>2. CASE LoadIndex(q)
  <2> DEFINE r == [op[q] EXCEPT !.pc = "save", !.list = index, !.etag = etag]
  <2>1. /\ op[q].pc = "load" /\ op' = [op EXCEPT ![q] = r]
        /\ Kept /\ UNCHANGED <<record, misread>>
    BY <1>2 DEF LoadIndex, hist, Kept
  <2>2. /\ r \in Call /\ r.pc = "save" /\ r.list = index /\ r.etag = etag
        /\ r.attempt = op[q].attempt
    BY <1>0 DEF Call, RegistryTypeOK
  <2> HIDE DEF r
  <2>3. /\ op' \in [Op -> Call] /\ op'[q] = r
        /\ \A o \in Op \ {q} : op'[o] = op[o]
    BY <1>0, <2>1, <2>2
  <2>4. ~Wrote(q)
    BY <2>1 DEF Wrote
  <2> QED BY <2>1, <2>2, <2>3, <2>4 DEF Shape, Done
<1>3. CASE NothingToWrite(q)
  <2>1. /\ op[q].pc = "save" /\ NewList(q) = op[q].list
        /\ op' = [op EXCEPT ![q].pc = "ok"]
        /\ Kept /\ UNCHANGED <<record, misread>>
    BY <1>3 DEF NothingToWrite, AfterNoChange, hist, Kept
  <2> QED BY <1>0, <2>1, MovedOn DEF Shape, Done
<1>4. CASE SaveIndex(q)
  <2>1. /\ op[q].pc = "save" /\ op' = [op EXCEPT ![q].pc = "ok"]
        /\ Wrote(q) /\ UNCHANGED <<record, misread>>
    BY <1>4 DEF SaveIndex, MustWrite, Wrote
  <2> QED BY <1>0, <2>1, MovedOn DEF Shape, Done
<1>5. CASE ETagConflict(q)
  <2>1. /\ op[q].pc = "save" /\ ~ETagMatches(q) /\ TryAgain(q)
        /\ Kept /\ UNCHANGED <<record, misread>>
    BY <1>5 DEF ETagConflict, MustWrite, hist, Kept
  <2>2. op[q].etag # etag /\ ~Wrote(q)
    BY <2>1 DEF ETagMatches, Wrote
  <2> QED BY <1>0, <2>1, <2>2, Again DEF Shape, Done
<1>6. CASE Misread(q)
  <2>1. /\ op[q].pc = "save" /\ TryAgain(q)
        /\ misread' = misread + 1 /\ record' = record
        /\ Kept \/ Wrote(q)
    BY <1>6 DEF Misread, MustWrite, MayHaveWritten, Kept, Wrote
  <2> QED BY <1>0, <2>1, Again DEF Shape, Done
<1>7. CASE StoreError(q)
  <2>1. /\ op[q].pc \in {"start", "load", "save"}
        /\ op' = [op EXCEPT ![q].pc = "failed"] /\ misread' = misread
        /\ record' = record \/ (op[q].pc = "start" /\ record' = Records(q))
        /\ Kept \/ Wrote(q)
    BY <1>7 DEF StoreError, MustWrite, MayHaveWritten, Kept, Wrote
  <2> QED BY <1>0, <2>1, MovedOn DEF Shape, Done
<1> QED BY <1>1, <1>2, <1>3, <1>4, <1>5, <1>6, <1>7 DEF OpStep

-----------------------------------------------------------------------------
(* The invariants are inductive *)

LEMMA RegInit == RegistryInit => RegInv
<1> SUFFICES ASSUME RegistryInit PROVE RegInv
  OBVIOUS
<1>1. /\ record = Range(InitialIndex) /\ index = InitialIndex /\ etag \in Nat
      /\ op = [o \in Op |-> [pc |-> "start", attempt |-> 1, list |-> <<>>,
                             etag |-> NoETag]]
      /\ wrote = {} /\ misread = 0
  BY DEF RegistryInit, NoETag
<1>2. InitialIndex \in Seq(Name) /\ Distinct(InitialIndex)
  BY RegistryAssumption, DistinctLength
<1>3. \A o \in Op : op[o] \in Call
  BY <1>1, AttemptsType DEF Call, NoETag
<1>4. RegistryTypeOK
  <2>1. Range(InitialIndex) \subseteq Name
    BY <1>2 DEF Range
  <2> QED BY <1>1, <1>2, <1>3, <2>1 DEF RegistryTypeOK
<1>5. NoRepetitions
  BY <1>1, <1>2 DEF NoRepetitions, Distinct
<1>6. \A o \in Op : Finished \ {o} = {}
  BY <1>1 DEF Finished
<1>7. IsFiniteSet({}) /\ Cardinality({}) = 0
  BY FS_EmptySet
<1>8. ASSUME NEW o \in Op
      PROVE  Paid(o)
  <2>1. op[o].attempt = 1 /\ op[o].pc = "start"
    BY <1>1
  <2>2. Cardinality(Finished \ {o}) = 0 /\ Cardinality(wrote \ {o}) = 0
    BY <1>1, <1>6, <1>7
  <2> QED BY <1>1, <2>1, <2>2 DEF Paid
<1> QED BY <1>1, <1>4, <1>5, <1>7, <1>8 DEF RegInv

LEMMA DirInit ==
  ASSUME IndexExists, RegistryInit
  PROVE  DirInv
<1>1. etag = 1 /\ \A o \in Op : op[o].pc = "start"
  BY DEF RegistryInit
<1> QED BY <1>1 DEF DirInv, Fresh, Visible

\* A write changes the list the caller read as it should.
LEMMA WriteMutates ==
  ASSUME RegistryTypeOK, NEW q \in Op, Wrote(q)
  PROVE  /\ index' = Mutated(q, op[q].list) /\ op[q].list \in Seq(Name)
         /\ index' \in Seq(Name)
         /\ etag' = etag + 1 /\ wrote' = wrote \cup {q}
<1>1. index' = Mutated(q, op[q].list) /\ etag' = etag + 1 /\ wrote' = wrote \cup {q}
  BY DEF Wrote, WriteIndex, NewList
<1>2. op[q].list \in Seq(Name)
  BY DEF RegistryTypeOK, Call
<1> QED BY <1>1, <1>2, MutatedType

\* One that takes effect is the caller's change to the index as it is.
LEMMA WriteRight ==
  ASSUME RegInv, DirInv, NEW q \in Op, Wrote(q)
  PROVE  Range(index') = IF Registers(q) THEN Range(index) \cup {NameOf(q)}
                         ELSE Range(index) \ {NameOf(q)}
<1>1. op[q].list = index
  BY DEF DirInv, Fresh, Wrote, ETagMatches, NoETag
<1>2. index' = Mutated(q, index)
  BY <1>1, WriteMutates DEF RegInv
<1>3. index \in Seq(Name) /\ Distinct(index)
  BY DEF RegInv, RegistryTypeOK, NoRepetitions
<1> QED BY <1>2, <1>3, MutatedRight

LEMMA TypesNext ==
  ASSUME RegistryTypeOK, NEW q \in Op, Shape(q)
  PROVE  RegistryTypeOK'
<1>1. index' \in Seq(Name) /\ etag' \in Nat /\ wrote' \subseteq Op
  <2>1. index \in Seq(Name) /\ etag \in Nat /\ wrote \subseteq Op
    BY DEF RegistryTypeOK
  <2>2. CASE Kept
    BY <2>1, <2>2 DEF Kept
  <2>3. CASE Wrote(q)
    BY <2>1, <2>3, WriteMutates
  <2> QED BY <2>2, <2>3 DEF Shape
<1>2. record' \subseteq Name
  <2>1. NameOf(q) \in Name
    BY RegistryAssumption DEF NameOf
  <2> QED BY <2>1 DEF Shape, Records, RegistryTypeOK
<1>3. misread' \in Nat /\ op' \in [Op -> Call]
  BY DEF Shape, RegistryTypeOK
<1> QED BY <1>1, <1>2, <1>3 DEF RegistryTypeOK

LEMMA ListsNext ==
  ASSUME RegInv, NEW q \in Op, Shape(q)
  PROVE  IsFiniteSet(wrote)' /\ NoRepetitions'
<1>1. /\ RegistryTypeOK /\ IsFiniteSet(wrote) /\ NoRepetitions
  BY DEF RegInv
<1>2. IsFiniteSet(wrote') /\ Distinct(index')
  <2>1. CASE Kept
    BY <1>1, <2>1 DEF Kept, NoRepetitions
  <2>2. CASE Wrote(q)
    <3>1. Distinct(op[q].list)
      BY <1>1 DEF NoRepetitions
    <3>2. Distinct(index')
      BY <1>1, <2>2, <3>1, WriteMutates, MutatedRight
    <3>3. IsFiniteSet(wrote')
      BY <1>1, <2>2, WriteMutates, FS_AddElement
    <3> QED BY <3>2, <3>3
  <2> QED BY <2>1, <2>2 DEF Shape
<1>3. ASSUME NEW o \in Op PROVE Distinct(op'[o].list)
  BY <1>1 DEF Shape, NoRepetitions
<1> QED BY <1>2, <1>3 DEF NoRepetitions

LEMMA FreshNext ==
  ASSUME RegInv, DirInv, NEW q \in Op, Shape(q)
  PROVE  Fresh'
<1>1. RegistryTypeOK /\ Fresh /\ etag \in Nat
  BY DEF RegInv, DirInv, RegistryTypeOK
<1>2. etag' >= 1 /\ etag' \in Nat /\ etag' >= etag /\ (etag' = etag => index' = index)
  <2>1. CASE Kept
    BY <1>1, <2>1 DEF Kept, Fresh
  <2>2. CASE Wrote(q)
    BY <1>1, <2>2, WriteMutates DEF Fresh
  <2> QED BY <2>1, <2>2 DEF Shape
<1>3. ASSUME NEW o \in Op
      PROVE  op'[o].pc = "save" =>
                  /\ 1 <= op'[o].etag /\ op'[o].etag <= etag'
                  /\ op'[o].etag = etag' => op'[o].list = index'
  <2>1. CASE o = q
    BY <1>1, <2>1 DEF Shape, Fresh, Kept
  <2>2. CASE o # q
    <3>1. op'[o] = op[o] /\ op[o] \in Call
      BY <1>1, <2>2 DEF Shape, RegistryTypeOK
    <3>2. op[o].etag \in Nat
      BY <3>1 DEF Call
    <3> QED BY <1>1, <1>2, <3>1, <3>2 DEF Fresh
  <2> QED BY <2>1, <2>2
<1> QED BY <1>2, <1>3 DEF Fresh

\* What pays for attempts never shrinks, and every write of another call adds to it.
LEMMA PaidNext ==
  ASSUME RegInv, NEW q \in Op, Shape(q), NEW o \in Op
  PROVE  Paid(o)'
<1> DEFINE F  == Finished \ {o}
           F1 == (Finished \ {o})'
<1>1. /\ IsFiniteSet(wrote) /\ IsFiniteSet(wrote') /\ misread \in Nat
      /\ misread' \in {misread, misread + 1} /\ Paid(o)
  BY ListsNext DEF RegInv, RegistryTypeOK, Shape
<1>2. wrote \subseteq wrote' /\ (Wrote(q) => q \in wrote')
  BY WriteMutates DEF RegInv, Shape, Kept
<1>3. F \subseteq F1
  <2>1. wrote \subseteq Op
    BY DEF RegInv, RegistryTypeOK
  <2>2. \A x \in Op : Done(x) => Done(x)'
    BY DEF Shape, Done
  <2> QED BY <1>2, <2>1, <2>2 DEF Finished
<1>4. IsFiniteSet(F) /\ IsFiniteSet(F1)
      /\ Cardinality(F) \in Nat /\ Cardinality(F1) \in Nat
  <2>1. F \in SUBSET wrote /\ F1 \in SUBSET wrote'
    BY DEF Finished
  <2>2. IsFiniteSet(F)
    BY <1>1, <2>1, FS_Subset
  <2>3. IsFiniteSet(F1)
    BY <1>1, <2>1, FS_Subset
  <2> QED BY <2>2, <2>3, FS_CardinalityType
<1>5. Cardinality(F) <= Cardinality(F1)
  <2>1. F \in SUBSET F1
    BY <1>3
  <2> QED BY <1>4, <2>1, FS_Subset
<1>6. o # q /\ Wrote(q) /\ misread' = misread => Cardinality(F) + 1 <= Cardinality(F1)
  <2> SUFFICES ASSUME o # q, Wrote(q), misread' = misread
               PROVE  Cardinality(F) + 1 <= Cardinality(F1)
    OBVIOUS
  <2>1. Done(q)'
    <3>1. misread + 1 # misread
      BY <1>1
    <3> QED BY <3>1 DEF Shape, Done
  <2>2. q \in F1 /\ q \notin F
    BY <1>2, <2>1 DEF Finished, Shape
  <2>3. F \cup {q} \in SUBSET F1
    BY <1>3, <2>2
  <2>4. Cardinality(F \cup {q}) = Cardinality(F) + 1
    BY <1>4, <2>2, FS_AddElement
  <2> HIDE DEF F, F1
  <2>5. Cardinality(F \cup {q}) <= Cardinality(F1)
    BY <1>4, <2>3, FS_Subset
  <2> QED BY <2>4, <2>5
<1>7. /\ op[o].attempt - 1 <= Cardinality(F) + misread
      /\ op[o].pc = "save" /\ op[o].etag # etag =>
           op[o].attempt <= Cardinality(F) + misread
  BY <1>1 DEF Paid
<1>8. /\ op[o].attempt \in Nat /\ op'[o].attempt \in Nat
  <2>1. op[o] \in Call /\ op'[o] \in Call
    BY DEF RegInv, RegistryTypeOK, Shape
  <2> QED BY <2>1, AttemptsType DEF Call
<1> SUFFICES /\ op'[o].attempt - 1 <= Cardinality(F1) + misread'
             /\ op'[o].pc = "save" /\ op'[o].etag # etag' =>
                  op'[o].attempt <= Cardinality(F1) + misread'
  BY DEF Paid
<1> HIDE DEF F, F1
<1>9. CASE o = q
  <2>1. ~(op'[o].pc = "save" /\ op'[o].etag # etag')
    BY <1>9 DEF Shape, Kept
  <2>2. \/ op'[o].attempt = op[o].attempt
        \/ /\ op'[o].attempt = op[o].attempt + 1
           /\ \/ misread' = misread + 1
              \/ op[o].pc = "save" /\ op[o].etag # etag
    BY <1>9 DEF Shape
  <2> QED BY <1>1, <1>4, <1>5, <1>7, <1>8, <2>1, <2>2
<1>10. CASE o # q
  <2>1. op'[o] = op[o]
    BY <1>10 DEF Shape
  <2>2. CASE Kept
    <3>1. etag' = etag
      BY <2>2 DEF Kept
    <3> QED BY <1>1, <1>4, <1>5, <1>7, <1>8, <2>1, <3>1
  <2>3. CASE Wrote(q)
    <3>1. Cardinality(F) + misread + 1 <= Cardinality(F1) + misread'
      BY <1>1, <1>4, <1>5, <1>6, <1>10, <2>3
    <3> QED BY <1>1, <1>4, <1>7, <1>8, <2>1, <3>1
  <2> QED BY <2>2, <2>3 DEF Shape
<1> QED BY <1>9, <1>10

\* Calls for one agent that are no rivals want the same.
LEMMA Allies ==
  ASSUME NEW o \in Op, NEW q \in Op, Rivals(o) = {}, NameOf(q) = NameOf(o)
  PROVE  Registers(q) <=> Registers(o)
BY DEF Rivals

LEMMA VisibleNext ==
  ASSUME RegInv, DirInv, NEW q \in Op, Shape(q), NEW o \in Op
  PROVE  Visible(o)'
<1> SUFFICES ASSUME Rivals(o) = {}
             PROVE  /\ op'[o].pc \in {"load", "save", "ok"} =>
                         (NameOf(o) \in record' <=> Registers(o))
                    /\ op'[o].pc = "save"
                          /\ (NameOf(o) \in Range(op'[o].list) <=> Registers(o)) =>
                         (NameOf(o) \in Range(index') <=> Registers(o))
                    /\ op'[o].pc = "ok" =>
                         (NameOf(o) \in Range(index') <=> Registers(o))
  BY DEF Visible, Rivals, Found, Listed
<1> DEFINE n == NameOf(o)
<1>1. /\ op[o].pc \in {"load", "save", "ok"} => (n \in record <=> Registers(o))
      /\ op[o].pc = "save" /\ (n \in Range(op[o].list) <=> Registers(o)) =>
           (n \in Range(index) <=> Registers(o))
      /\ op[o].pc = "ok" => (n \in Range(index) <=> Registers(o))
  BY DEF DirInv, Visible, Found, Listed
<1>2. NameOf(q) = n => (Registers(q) <=> Registers(o))
  BY Allies
<1>3. (n \in record <=> Registers(o)) => (n \in record' <=> Registers(o))
  BY <1>2 DEF Shape, Records
<1>4. (n \in Range(index) <=> Registers(o)) => (n \in Range(index') <=> Registers(o))
  <2>1. CASE Kept
    BY <2>1 DEF Kept
  <2>2. CASE Wrote(q)
    BY <1>2, <2>2, WriteRight
  <2> QED BY <2>1, <2>2 DEF Shape
<1>5. op'[o].pc \in {"load", "save", "ok"} => (n \in record' <=> Registers(o))
  <2>1. CASE o # q
    BY <1>1, <1>3, <2>1 DEF Shape
  <2>2. CASE o = q /\ op[q].pc \in {"load", "save"}
    BY <1>1, <1>3, <2>2
  <2>3. CASE o = q /\ op[q].pc \notin {"load", "save"}
    <3>1. op'[o].pc \in {"load", "save", "ok"} => record' = Records(o)
      BY <2>3 DEF Shape
    <3> QED BY <3>1 DEF Records
  <2> QED BY <2>1, <2>2, <2>3
<1>6. op'[o].pc = "save" /\ (n \in Range(op'[o].list) <=> Registers(o)) =>
        (n \in Range(index') <=> Registers(o))
  <2>1. CASE o # q
    BY <1>1, <1>4, <2>1 DEF Shape
  <2>2. CASE o = q
    BY <2>2 DEF Shape, Kept
  <2> QED BY <2>1, <2>2
<1>7. op'[o].pc = "ok" => (n \in Range(index') <=> Registers(o))
  <2>1. CASE o # q
    BY <1>1, <1>4, <2>1 DEF Shape
  <2>2. CASE o = q /\ Wrote(q)
    BY <2>2, WriteRight
  <2>3. CASE o = q /\ ~Wrote(q) /\ op'[o].pc = "ok"
    <3>1. op[o].pc = "save" /\ Kept /\ NewList(o) = op[o].list
      BY <2>3 DEF Shape
    <3>2. op[o].list \in Seq(Name) /\ Distinct(op[o].list)
      BY DEF RegInv, RegistryTypeOK, Call, NoRepetitions
    <3>3. n \in Range(op[o].list) <=> Registers(o)
      BY <3>1, <3>2, MutatedRight DEF NewList
    <3> QED BY <1>1, <1>4, <3>1, <3>3
  <2> QED BY <2>1, <2>2, <2>3
<1> QED BY <1>5, <1>6, <1>7

LEMMA RegNext == RegInv /\ [RegistryNext]_rvars => RegInv'
<1> SUFFICES ASSUME RegInv, [RegistryNext]_rvars PROVE RegInv'
  OBVIOUS
<1>1. CASE UNCHANGED rvars
  <2>1. RegistryTypeOK' /\ IsFiniteSet(wrote)' /\ NoRepetitions'
    BY <1>1 DEF rvars, RegInv, RegistryTypeOK, NoRepetitions
  <2>2. Finished' = Finished
    BY <1>1 DEF rvars, Finished, Done
  <2>3. ASSUME NEW o \in Op PROVE Paid(o)'
    BY <1>1, <2>2 DEF rvars, RegInv, Paid
  <2> QED BY <2>1, <2>3 DEF RegInv
<1>2. ASSUME NEW q \in Op, OpStep(q) \/ Misread(q) \/ StoreError(q)
      PROVE  RegInv'
  <2>1. Shape(q) /\ RegistryTypeOK
    BY <1>2, StepShape DEF RegInv
  <2>2. RegistryTypeOK' /\ IsFiniteSet(wrote)' /\ NoRepetitions'
    BY <2>1, TypesNext, ListsNext
  <2>3. \A o \in Op : Paid(o)'
    BY <2>1, PaidNext
  <2> QED BY <2>2, <2>3 DEF RegInv
<1> QED BY <1>1, <1>2 DEF RegistryNext

LEMMA DirNext == RegInv /\ DirInv /\ [RegistryNext]_rvars => DirInv'
<1> SUFFICES ASSUME RegInv, DirInv, [RegistryNext]_rvars PROVE DirInv'
  OBVIOUS
<1>1. CASE UNCHANGED rvars
  BY <1>1 DEF rvars, DirInv, Fresh, Visible, Rivals, Found, Listed
<1>2. ASSUME NEW q \in Op, OpStep(q) \/ Misread(q) \/ StoreError(q)
      PROVE  DirInv'
  <2>1. Shape(q)
    BY <1>2, StepShape DEF RegInv
  <2> QED BY <2>1, FreshNext, VisibleNext DEF DirInv
<1> QED BY <1>1, <1>2 DEF RegistryNext

LEMMA RegInvariance == RegistrySpec => []RegInv
BY RegInit, RegNext, PTL DEF RegistrySpec

LEMMA DirInvariance ==
  ASSUME IndexExists
  PROVE  RegistrySpec => []DirInv
<1>1. RegistryInit => DirInv
  BY DirInit
<1> QED BY <1>1, RegInvariance, DirNext, PTL DEF RegistrySpec

-----------------------------------------------------------------------------
(* The registry *)

\* Type correctness.
THEOREM RegistryTypes == RegistrySpec => []RegistryTypeOK
<1>1. RegInv => RegistryTypeOK
  BY DEF RegInv
<1> QED BY <1>1, RegInvariance, PTL

\* The directory lists an agent at most once.
THEOREM ListedOnce == RegistrySpec => []NoDuplicates
<1>1. RegInv => NoDuplicates
  BY DistinctLength DEF RegInv, RegistryTypeOK, NoRepetitions, NoDuplicates, Listed
<1> QED BY <1>1, RegInvariance, PTL

\* No concurrent call's entry is lost or brought back.
THEOREM Serialized ==
  ASSUME IndexExists
  PROVE  RegistrySpec => IndexMutationsSerialized
<1> DEFINE P == \A n \in Name : (n \in Listed) # (n \in Range(index')) =>
                  \E o \in Op : op'[o] # op[o] /\ NameOf(o) = n
                                /\ (n \in Range(index') <=> Registers(o))
<1>1. RegInv /\ DirInv /\ [RegistryNext]_rvars => [P]_rvars
  <2> SUFFICES ASSUME RegInv, DirInv, NEW q \in Op,
                      OpStep(q) \/ Misread(q) \/ StoreError(q)
               PROVE  P
    BY DEF RegistryNext
  <2>1. Shape(q)
    BY StepShape DEF RegInv
  <2> SUFFICES ASSUME NEW n \in Name, (n \in Listed) # (n \in Range(index'))
               PROVE  /\ op'[q] # op[q] /\ NameOf(q) = n
                      /\ n \in Range(index') <=> Registers(q)
    OBVIOUS
  <2>2. Wrote(q)
    BY <2>1 DEF Shape, Kept, Listed
  <2>3. op'[q] # op[q]
    BY <2>1 DEF Shape
  <2> QED BY <2>2, <2>3, WriteRight DEF Listed
<1> QED BY <1>1, RegInvariance, DirInvariance, PTL
        DEF RegistrySpec, IndexMutationsSerialized

\* A success is visible, as long as no call wants the opposite.
THEOREM Succeeded ==
  ASSUME IndexExists
  PROVE  RegistrySpec => []SuccessIsVisible
<1>1. DirInv => SuccessIsVisible
  BY DEF DirInv, Visible, SuccessIsVisible
<1> QED BY <1>1, DirInvariance, PTL

\* Calls fail for conflicts only as often as others write.
THEOREM ConflictsPaid == RegistrySpec => []ConflictsArePaidFor
<1>1. RegInv => ConflictsArePaidFor
  <2> SUFFICES ASSUME RegInv, NEW o \in Op
               PROVE  op[o].attempt - 1 <= Cardinality(wrote \ {o}) + misread
    BY DEF ConflictsArePaidFor
  <2>1. IsFiniteSet(wrote \ {o})
    BY FS_RemoveElement DEF RegInv
  <2>2. Finished \ {o} \in SUBSET (wrote \ {o})
    BY DEF Finished
  <2>3. /\ IsFiniteSet(Finished \ {o})
        /\ Cardinality(Finished \ {o}) <= Cardinality(wrote \ {o})
    BY <2>1, <2>2, FS_Subset
  <2>4. Cardinality(Finished \ {o}) \in Nat /\ Cardinality(wrote \ {o}) \in Nat
    BY <2>1, <2>3, FS_CardinalityType
  <2>5. op[o].attempt - 1 <= Cardinality(Finished \ {o}) + misread
    BY DEF RegInv, Paid
  <2>6. op[o].attempt \in Nat /\ misread \in Nat
    BY AttemptsType DEF RegInv, RegistryTypeOK, Call
  <2> QED BY <2>3, <2>4, <2>5, <2>6
<1> QED BY <1>1, RegInvariance, PTL

-----------------------------------------------------------------------------
(* NewRunner takes the registry's steps *)

LEMMA RegistrySteps == [NewRunnerNext]_nvars => [RegistryNext]_rvars
<1> SUFFICES ASSUME [NewRunnerNext]_nvars PROVE [RegistryNext]_rvars
  OBVIOUS
<1>1. CASE UNCHANGED nvars
  BY <1>1 DEF nvars
<1>2. ASSUME NEW r \in Runner, RunnerStep(r) PROVE [RegistryNext]_rvars
  <2>1. r \in Op
    BY DEF Runner
  <2>2. UNCHANGED rvars \/ Registering(r)
    BY <1>2 DEF RunnerStep, Begin, StartBackend, Connect, RegisterReturns
  <2> QED BY <2>1, <2>2 DEF Registering, RegistryNext
<1>3. ASSUME NEW o \in Op, Deregistering(o) PROVE [RegistryNext]_rvars
  BY <1>3 DEF Deregistering, RegistryNext
<1> QED BY <1>1, <1>2, <1>3 DEF NewRunnerNext, CallsStep, Close

\* What NewRunner and Deregister do to the store is what the registry says.
THEOREM UsesTheRegistry == NewRunnerSpec => RegistrySpec
<1>1. NewRunnerInit => RegistryInit
  BY DEF NewRunnerInit
<1> QED BY <1>1, RegistrySteps, PTL DEF NewRunnerSpec, RegistrySpec

\* The directory of Runners lists an agent at most once, and a conflict in it is
\* somebody's success, whether or not its index exists.
THEOREM RunnersListedOnce ==
  NewRunnerSpec => [](NoDuplicates /\ ConflictsArePaidFor)
BY UsesTheRegistry, ListedOnce, ConflictsPaid, PTL

\* Once it exists, no entry in it is lost or brought back, and a Runner that was
\* registered is listed in it.
THEOREM RunnersSerialized ==
  ASSUME IndexExists
  PROVE  NewRunnerSpec => IndexMutationsSerialized /\ []SuccessIsVisible
BY UsesTheRegistry, Serialized, Succeeded, PTL

-----------------------------------------------------------------------------
(* What a Runner has open *)

\* What may be open where.
MayHave(pc, open) ==
  CASE pc \in {"start", "backend"}  -> open = {}
    [] pc = "client"                -> open = {"workflow client", "worker"}
    [] pc \in {"register", "ready"} -> open = Opening
    [] pc = "failed"                -> open \subseteq {"workflow client"}
    [] pc = "closed"                -> open = {"workflow client"}

RunnersRight ==
  /\ runner \in [Runner -> RunnerState]
  /\ \A r \in Runner :
       /\ MayHave(runner[r].pc, runner[r].open)
       /\ runner[r].pc \in {"ready", "closed"} /\ runner[r].store = TheStore
            => op[r].pc = "ok"

LEMMA RunnersInit == NewRunnerInit => RunnersRight
<1> SUFFICES ASSUME NewRunnerInit PROVE RunnersRight
  OBVIOUS
<1>1. runner = [r \in Runner |-> [pc |-> "start", store |-> Unset, open |-> {}]]
  BY DEF NewRunnerInit
<1>2. [pc |-> "start", store |-> Unset, open |-> {}] \in RunnerState
  BY DEF RunnerState
<1> QED BY <1>1, <1>2 DEF RunnersRight, MayHave

\* A step of one NewRunner gives it a state that is right, and keeps the others'.
LEMMA OneMoves ==
  ASSUME RunnersRight, NEW r \in Runner, NEW x \in RunnerState,
         runner' = [runner EXCEPT ![r] = x], MayHave(x.pc, x.open),
         x.pc \in {"ready", "closed"} /\ x.store = TheStore => op[r].pc = "ok",
         UNCHANGED rvars
  PROVE  RunnersRight'
<1>1. runner' \in [Runner -> RunnerState]
  BY DEF RunnersRight
<1>2. ASSUME NEW q \in Runner
      PROVE  runner'[q] = IF q = r THEN x ELSE runner[q]
  BY DEF RunnersRight
<1>3. op' = op
  BY DEF rvars
<1> QED BY <1>1, <1>2, <1>3 DEF RunnersRight

LEMMA RunnerMoves ==
  ASSUME RunnersRight, NEW r \in Runner, RunnerStep(r) \/ Close(r), ~Registering(r)
  PROVE  RunnersRight'
<1>1. PICK x : x = runner[r]
  OBVIOUS
<1>2. /\ x \in RunnerState /\ MayHave(x.pc, x.open)
      /\ x.pc \in {"ready", "closed"} /\ x.store = TheStore => op[r].pc = "ok"
  BY <1>1 DEF RunnersRight
<1>3. UNCHANGED rvars
  BY DEF RunnerStep, Begin, StartBackend, Connect, RegisterReturns, Close
<1>4. ASSUME NEW to \in {"backend", "ready"}, Goto(r, to), MayHave(to, x.open),
             to = "ready" /\ x.store = TheStore => op[r].pc = "ok"
      PROVE  RunnersRight'
  <2>1. PICK y : y = [x EXCEPT !.pc = to]
    OBVIOUS
  <2>2. y \in RunnerState /\ y.pc = to /\ y.open = x.open /\ y.store = x.store
    BY <1>2, <2>1 DEF RunnerState
  <2>3. runner' = [runner EXCEPT ![r] = y]
    BY <1>1, <1>4, <2>1 DEF Goto
  <2> QED BY <1>3, <1>4, <2>2, <2>3, OneMoves
<1>5. ASSUME NEW to \in {"client", "failed", "closed"}, NEW open \in SUBSET Opening,
             NEW y, y = [x EXCEPT !.pc = to, !.open = open],
             runner' = [runner EXCEPT ![r] = y], MayHave(to, open),
             to = "closed" => x.pc = "ready"
      PROVE  RunnersRight'
  <2>1. y = [pc |-> to, store |-> x.store, open |-> open]
    BY <1>2, <1>5 DEF RunnerState
  <2>2. /\ y \in RunnerState /\ y.pc = to /\ y.open = open /\ y.store = x.store
    BY <1>2, <2>1 DEF RunnerState
  <2> QED BY <1>2, <1>3, <1>5, <2>2, OneMoves
<1>6. ASSUME NEW closes, Fails(r, closes), x.open \ closes \subseteq {"workflow client"}
      PROVE  RunnersRight'
  <2>1. PICK y : y = [x EXCEPT !.pc = "failed", !.open = x.open \ closes]
    OBVIOUS
  <2>2. runner' = [runner EXCEPT ![r] = y]
    BY <1>1, <1>6, <2>1 DEF Fails, Ends
  <2>3. x.open \ closes \in SUBSET Opening /\ MayHave("failed", x.open \ closes)
    BY <1>6 DEF Opening, MayHave
  <2> QED BY <1>5, <2>1, <2>2, <2>3
<1>7. CASE Begin(r)
  <2>1. x.pc = "start" /\ x.open = {} /\ MayHave("backend", x.open)
    BY <1>1, <1>2, <1>7 DEF Begin, At, MayHave
  <2>2. Goto(r, "backend") \/ Fails(r, {})
    BY <1>7 DEF Begin
  <2> QED BY <1>4, <1>6, <2>1, <2>2
<1>8. CASE StartBackend(r)
  <2>1. x.pc = "backend" /\ x.open = {}
    BY <1>1, <1>2, <1>8 DEF StartBackend, At, MayHave
  <2>2. CASE Fails(r, {})
    BY <1>6, <2>1, <2>2
  <2>3. ASSUME NEW to \in {"client", "failed"}, NEW what \in SUBSET Opening,
               Opened(r, what, to), MayHave(to, what)
        PROVE  RunnersRight'
    <3>1. PICK y : y = [x EXCEPT !.pc = to, !.open = what]
      OBVIOUS
    <3>2. runner' = [runner EXCEPT ![r] = y]
      <4>1. runner' = [runner EXCEPT ![r] = [x EXCEPT !.pc = to,
                                                      !.open = x.open \cup what]]
        BY <1>1, <2>3 DEF Opened
      <4>2. x.open \cup what = what
        BY <2>1
      <4> QED BY <3>1, <4>1, <4>2
    <3> QED BY <1>5, <2>3, <3>1, <3>2
  <2>4. /\ {"workflow client"} \in SUBSET Opening
        /\ {"workflow client", "worker"} \in SUBSET Opening
        /\ MayHave("failed", {"workflow client"})
        /\ MayHave("client", {"workflow client", "worker"})
    BY DEF MayHave, Opening
  <2> QED BY <1>8, <2>2, <2>3, <2>4 DEF StartBackend
<1>9. CASE Connect(r)
  <2>1. x.pc = "client" /\ x.open = {"workflow client", "worker"}
    BY <1>1, <1>2, <1>9 DEF Connect, At, MayHave
  <2>2. CASE Fails(r, {"worker"})
    BY <1>6, <2>1, <2>2
  <2>3. ASSUME NEW components \in {InSidecar, {}},
               runner' = [runner EXCEPT ![r] =
                 [pc |-> "register", store |-> RegStore(r, components),
                  open |-> @.open \cup {"client"}]]
        PROVE  RunnersRight'
    <3>1. RegStore(r, components) \in Store
      <4>1. Config[r] \in ConfigType
        BY NewRunnerAssumption
      <4> QED BY <4>1, NewRunnerAssumption
              DEF ConfigType, RegStore, DiscoverRegistryStore, Store
    <3>2. PICK y : y = [pc |-> "register", store |-> RegStore(r, components),
                        open |-> x.open \cup {"client"}]
      OBVIOUS
    <3>3. y \in RunnerState /\ y.pc = "register" /\ y.open = Opening
      BY <2>1, <3>1, <3>2 DEF RunnerState, Opening
    <3>4. runner' = [runner EXCEPT ![r] = y]
      BY <1>1, <2>3, <3>2
    <3> QED BY <1>3, <3>3, <3>4, OneMoves DEF MayHave
  <2> QED BY <1>9, <2>2, <2>3 DEF Connect
<1>10. CASE RegisterReturns(r)
  <2>1. x.pc = "register" /\ x.open = Opening /\ MayHave("ready", x.open)
    BY <1>1, <1>2, <1>10 DEF RegisterReturns, At, MayHave
  <2>2. x.open \ BothClosed \subseteq {"workflow client"}
    BY <2>1 DEF Opening, BothClosed
  <2>3. \/ Goto(r, "ready") /\ (x.store = TheStore => op[r].pc = "ok")
        \/ Fails(r, BothClosed)
    BY <1>1, <1>10 DEF RegisterReturns
  <2> QED BY <1>4, <1>6, <2>1, <2>2, <2>3
<1>11. CASE Close(r)
  <2>1. x.pc = "ready" /\ x.open = Opening
    BY <1>1, <1>2, <1>11 DEF Close, At, MayHave
  <2>2. PICK y : y = [x EXCEPT !.pc = "closed", !.open = x.open \ BothClosed]
    OBVIOUS
  <2>3. runner' = [runner EXCEPT ![r] = y]
    BY <1>1, <1>11, <2>2 DEF Close, Ends
  <2>4. /\ x.open \ BothClosed \in SUBSET Opening
        /\ MayHave("closed", x.open \ BothClosed)
    BY <2>1 DEF Opening, BothClosed, MayHave
  <2> QED BY <1>5, <2>1, <2>2, <2>3, <2>4
<1> QED BY <1>7, <1>8, <1>9, <1>10, <1>11 DEF RunnerStep

\* A step of the registry leaves what has ended as it is.
LEMMA OkStays ==
  ASSUME RegistryTypeOK, [RegistryNext]_rvars, NEW o \in Op, op[o].pc = "ok"
  PROVE  op'[o].pc = "ok"
<1>1. CASE UNCHANGED rvars
  BY <1>1 DEF rvars
<1>2. ASSUME NEW q \in Op, OpStep(q) \/ Misread(q) \/ StoreError(q)
      PROVE  op'[o].pc = "ok"
  BY <1>2, StepShape DEF Shape, Done
<1> QED BY <1>1, <1>2 DEF RegistryNext

LEMMA RunnersNext ==
  RegistryTypeOK /\ RunnersRight /\ [NewRunnerNext]_nvars => RunnersRight'
<1> SUFFICES ASSUME RegistryTypeOK, RunnersRight, [NewRunnerNext]_nvars
             PROVE  RunnersRight'
  OBVIOUS
<1>1. CASE runner' = runner
  <2>1. \A o \in Op : op[o].pc = "ok" => op'[o].pc = "ok"
    BY RegistrySteps, OkStays
  <2>2. Runner \subseteq Op
    BY DEF Runner
  <2> QED BY <1>1, <2>1, <2>2 DEF RunnersRight
<1>2. ASSUME NEW r \in Runner, RunnerStep(r) \/ Close(r), ~Registering(r)
      PROVE  RunnersRight'
  BY <1>2, RunnerMoves
<1> QED BY <1>1, <1>2
        DEF nvars, NewRunnerNext, CallsStep, Registering, Deregistering, Close

\* A NewRunner that fails and a Runner that was closed leave neither worker nor Dapr
\* client, at most the workflow client; a Runner in use has all three, and its
\* registration is behind it.
THEOREM WorkerAndClientClosed == NewRunnerSpec => []OnlyWorkflowClientLeft
<1>1. RunnersRight => OnlyWorkflowClientLeft
  BY DEF RunnersRight, OnlyWorkflowClientLeft, At, MayHave
<1> QED BY <1>1, RunnersInit, RunnersNext, UsesTheRegistry, RegistryTypes, PTL
        DEF NewRunnerSpec

-----------------------------------------------------------------------------
(* Flattening *)

LEMMA SetInduction ==
  ASSUME NEW S, 0 \in S, \A n \in Nat : n \in S => n + 1 \in S
  PROVE  Nat \subseteq S
<1> DEFINE T == Nat \ S
           R == {r \in Nat \X Nat : r[1] < r[2]}
<1>1. IsWellFoundedOn(R, Nat)
  BY NatLessThanWellFounded DEF OpToRel
<1>2. SUFFICES ASSUME T # {} PROVE FALSE
  OBVIOUS
<1>3. PICK x \in T : \A y \in T : <<y, x>> \notin R
  <2> HIDE DEF R
  <2> QED BY <1>1, <1>2, WFMin
<1>4. x # 0 /\ x \in Nat
  OBVIOUS
<1>5. x - 1 \in Nat /\ x = (x - 1) + 1 /\ x - 1 < x
  BY <1>4
<1>6. x - 1 \notin T
  BY <1>3, <1>4, <1>5
<1> QED BY <1>5, <1>6

\* The function by which FlattenSeq is defined, over the first n of rs.
Flattens(g, rs, n) ==
  g = [i \in 1..n |-> IF i = 1 THEN rs[i] ELSE g[i-1] \o rs[i]]

LEMMA FlattenFurther ==
  ASSUME NEW rs, NEW n \in Nat, NEW g, Flattens(g, rs, n)
  PROVE  \E h : Flattens(h, rs, n + 1)
<1> DEFINE next == IF n + 1 = 1 THEN rs[n + 1] ELSE g[n] \o rs[n + 1]
           h    == [i \in 1..n + 1 |-> IF i = n + 1 THEN next ELSE g[i]]
<1>1. ASSUME NEW i \in 1..n + 1
      PROVE  h[i] = IF i = 1 THEN rs[i] ELSE h[i-1] \o rs[i]
  <2>1. CASE i = n + 1
    <3>1. n # 0 => n \in 1..n + 1 /\ n # n + 1 /\ h[n] = g[n]
      OBVIOUS
    <3>2. i - 1 = n /\ h[i] = next
      BY <2>1
    <3> QED BY <2>1, <3>1, <3>2
  <2>2. CASE i # n + 1
    <3>1. i \in 1..n /\ h[i] = g[i]
      BY <2>2
    <3>2. g[i] = IF i = 1 THEN rs[i] ELSE g[i-1] \o rs[i]
      BY <3>1 DEF Flattens
    <3>3. i # 1 => i - 1 \in 1..n + 1 /\ i - 1 # n + 1 /\ h[i - 1] = g[i - 1]
      BY <3>1
    <3> QED BY <3>1, <3>2, <3>3
  <2> QED BY <2>1, <2>2
<1>2. h = [i \in 1..n + 1 |-> h[i]]
  OBVIOUS
<1> HIDE DEF h
<1>3. h = [i \in 1..n + 1 |-> IF i = 1 THEN rs[i] ELSE h[i-1] \o rs[i]]
  BY <1>1, <1>2, Zenon
<1> QED BY <1>3 DEF Flattens

LEMMA FlattenExists ==
  ASSUME NEW rs, NEW n \in Nat
  PROVE  \E g : Flattens(g, rs, n)
<1> DEFINE S == {k \in Nat : \E g : Flattens(g, rs, k)}
<1>1. 0 \in S
  <2> DEFINE g == [i \in 1..0 |-> rs]
  <2>1. g = [i \in 1..0 |-> IF i = 1 THEN rs[i] ELSE g[i-1] \o rs[i]]
    OBVIOUS
  <2> HIDE DEF g
  <2> QED BY <2>1 DEF Flattens
<1>2. \A k \in Nat : k \in S => k + 1 \in S
  BY FlattenFurther
<1> HIDE DEF S
<1>3. n \in S
  BY <1>1, <1>2, SetInduction
<1> QED BY <1>3 DEF S

LEMMA FlattenDef ==
  ASSUME NEW rs, Len(rs) \in Nat \ {0}
  PROVE  \E g : Flattens(g, rs, Len(rs)) /\ FlattenSeq(rs) = g[Len(rs)]
<1> DEFINE g == CHOOSE g : Flattens(g, rs, Len(rs))
<1>1. FlattenSeq(rs) = g[Len(rs)]
  BY DEF FlattenSeq, Flattens
<1>2. \E h : Flattens(h, rs, Len(rs))
  BY FlattenExists
<1>3. Flattens(g, rs, Len(rs))
  BY <1>2
<1> QED BY <1>1, <1>3

\* One more element is appended to what the others flatten to.
LEMMA FlattenAppend ==
  ASSUME NEW S, NEW rs \in Seq(Seq(S)), NEW qs \in Seq(Seq(S)),
         Len(qs) = Len(rs) + 1, \A i \in 1..Len(rs) : qs[i] = rs[i]
  PROVE  FlattenSeq(qs) = FlattenSeq(rs) \o qs[Len(qs)]
<1> DEFINE n == Len(rs)
<1>0. n \in Nat /\ Len(qs) = n + 1 /\ n + 1 \in Nat \ {0}
  OBVIOUS
<1>1. PICK g : Flattens(g, qs, n + 1) /\ FlattenSeq(qs) = g[n + 1]
  BY <1>0, FlattenDef
<1>2. \A i \in 1..n + 1 : g[i] = IF i = 1 THEN qs[i] ELSE g[i-1] \o qs[i]
  BY <1>1 DEF Flattens
<1>3. CASE n = 0
  <2>1. rs = <<>> /\ FlattenSeq(rs) = <<>>
    BY <1>3 DEF FlattenSeq
  <2>2. g[1] = qs[1] /\ qs[1] \in Seq(S)
    BY <1>0, <1>2, <1>3
  <2>3. <<>> \o qs[1] = qs[1]
    BY <2>2, ConcatEmptySeq
  <2> QED BY <1>0, <1>1, <1>3, <2>1, <2>2, <2>3
<1>4. CASE n # 0
  <2>1. PICK h : Flattens(h, rs, n) /\ FlattenSeq(rs) = h[n]
    BY <1>0, <1>4, FlattenDef
  <2>2. \A i \in 1..n : h[i] = IF i = 1 THEN rs[i] ELSE h[i-1] \o rs[i]
    BY <2>1 DEF Flattens
  <2> DEFINE T == {k \in Nat : k + 1 \in 1..n => g[k + 1] = h[k + 1]}
  <2>3. 0 \in T
    BY <1>2, <2>2
  <2>4. ASSUME NEW k \in Nat, k \in T PROVE k + 1 \in T
    <3> SUFFICES ASSUME k + 2 \in 1..n PROVE g[k + 2] = h[k + 2]
      OBVIOUS
    <3>1. k + 1 \in 1..n /\ k + 2 \in 1..n + 1 /\ k + 2 # 1 /\ (k + 2) - 1 = k + 1
      BY <1>0
    <3>2. g[k + 1] = h[k + 1]
      BY <2>4, <3>1
    <3>3. g[k + 2] = g[k + 1] \o qs[k + 2] /\ h[k + 2] = h[k + 1] \o rs[k + 2]
      BY <1>2, <2>2, <3>1
    <3> QED BY <3>2, <3>3
  <2> HIDE DEF T
  <2>5. n - 1 \in T
    <3>1. n - 1 \in Nat
      BY <1>0, <1>4
    <3> QED BY <2>3, <2>4, <3>1, SetInduction
  <2>6. g[n] = h[n]
    <3>1. (n - 1) + 1 = n /\ n \in 1..n
      BY <1>0, <1>4
    <3> QED BY <2>5, <3>1 DEF T
  <2>7. g[n + 1] = g[n] \o qs[n + 1]
    <3>1. n + 1 \in 1..n + 1 /\ n + 1 # 1 /\ (n + 1) - 1 = n
      BY <1>0, <1>4
    <3> QED BY <1>2, <3>1
  <2> QED BY <1>0, <1>1, <2>1, <2>6, <2>7
<1> QED BY <1>3, <1>4

-----------------------------------------------------------------------------
(* Values in bytes *)

Rune(w)      == [j \in 1..w |-> j = w]
Runes(f)     == [k \in DOMAIN f |-> Rune(f[k])]
Leading(f, k) == SubSeq(f, 1, k)
Width(f, k)   == Len(Bytes(Leading(f, k)))

LEMMA LeadingFacts ==
  ASSUME NEW f \in Seq(1..4), NEW k \in 0..Len(f)
  PROVE  /\ Leading(f, k) \in Seq(1..4) /\ Len(Leading(f, k)) = k
         /\ \A i \in 1..k : Leading(f, k)[i] = f[i]
<1>1. PICK n : n = Len(f)
  OBVIOUS
<1>2. n \in Nat /\ k \in Nat /\ k <= n
  BY <1>1
<1>3. \A i \in 1..k : f[i] \in 1..4
  BY <1>1, <1>2
<1>4. /\ SubSeq(f, 1, k) \in Seq(1..4)
      /\ Len(SubSeq(f, 1, k)) = IF 1 <= k THEN k - 1 + 1 ELSE 0
      /\ \A i \in 1..k - 1 + 1 : SubSeq(f, 1, k)[i] = f[1 + i - 1]
  BY <1>2, <1>3, SubSeqProperties
<1>5. k - 1 + 1 = k /\ (~(1 <= k) => k = 0) /\ \A i \in 1..k : 1 + i - 1 = i
  BY <1>2
<1> QED BY <1>4, <1>5 DEF Leading

LEMMA RuneFacts ==
  ASSUME NEW f \in Seq(1..4)
  PROVE  /\ Runes(f) \in Seq(Seq(BOOLEAN)) /\ Len(Runes(f)) = Len(f)
         /\ Bytes(f) = FlattenSeq(Runes(f))
         /\ \A k \in 1..Len(f) :
              /\ Runes(f)[k] = Rune(f[k])
              /\ Runes(f)[k] \in Seq(BOOLEAN) /\ Len(Runes(f)[k]) = f[k]
              /\ f[k] \in Nat \ {0}
<1>1. DOMAIN f = 1..Len(f) /\ Len(f) \in Nat /\ \A k \in 1..Len(f) : f[k] \in 1..4
  OBVIOUS
<1>2. \A k \in 1..Len(f) : Runes(f)[k] = Rune(f[k])
  BY <1>1 DEF Runes
<1>3. ASSUME NEW w \in Nat, NEW r, r = Rune(w)
      PROVE  r \in Seq(BOOLEAN) /\ Len(r) = w
  <2>1. \A j \in 1..w : (j = w) \in BOOLEAN
    BY Zenon
  <2>2. r \in [1..w -> BOOLEAN]
    BY <1>3, <2>1, Zenon DEF Rune
  <2> QED BY <1>3, <2>2 DEF Rune
<1>4. ASSUME NEW k \in 1..Len(f)
      PROVE  Runes(f)[k] \in Seq(BOOLEAN) /\ Len(Runes(f)[k]) = f[k] /\ f[k] \in Nat \ {0}
  <2>1. f[k] \in Nat /\ f[k] \in Nat \ {0}
    BY <1>1
  <2>2. PICK w, r : w = f[k] /\ r = Runes(f)[k]
    OBVIOUS
  <2>3. w \in Nat /\ r = Rune(w)
    BY <1>2, <2>1, <2>2
  <2>4. r \in Seq(BOOLEAN) /\ Len(r) = w
    BY <1>3, <2>3
  <2> QED BY <2>1, <2>2, <2>4
<1>5. Runes(f) \in Seq(Seq(BOOLEAN)) /\ Len(Runes(f)) = Len(f)
  <2>1. PICK rs, n : rs = Runes(f) /\ n = Len(f)
    OBVIOUS
  <2>2. rs = [k \in 1..n |-> rs[k]] /\ n \in Nat
    BY <1>1, <2>1 DEF Runes
  <2>3. \A k \in 1..n : rs[k] \in Seq(BOOLEAN)
    BY <1>4, <2>1
  <2>4. rs \in [1..n -> Seq(BOOLEAN)]
    BY <2>2, <2>3
  <2> HIDE <1>4
  <2> QED BY <2>1, <2>2, <2>4
<1>6. Bytes(f) = FlattenSeq(Runes(f))
  BY DEF Bytes, Runes, Rune
<1> QED BY <1>2, <1>4, <1>5, <1>6

LEMMA NoBytes ==
  ASSUME NEW f \in Seq(1..4)
  PROVE  Bytes(Leading(f, 0)) = <<>> /\ Bytes(Leading(f, Len(f))) = Bytes(f)
<1>1. 0 \in 0..Len(f) /\ Len(f) \in 0..Len(f)
  OBVIOUS
<1>2. Runes(Leading(f, 0)) = <<>>
  <2>1. Leading(f, 0) \in Seq(1..4) /\ Len(Leading(f, 0)) = 0
    BY <1>1, LeadingFacts
  <2>2. Runes(Leading(f, 0)) \in Seq(Seq(BOOLEAN)) /\ Len(Runes(Leading(f, 0))) = 0
    BY <2>1, RuneFacts
  <2> QED BY <2>2, EmptySeq
<1>3. Bytes(Leading(f, 0)) = <<>>
  <2>1. Bytes(Leading(f, 0)) = FlattenSeq(<<>>)
    BY <1>1, <1>2, LeadingFacts, RuneFacts
  <2>2. FlattenSeq(<<>>) = <<>>
    BY DEF FlattenSeq
  <2> QED BY <2>1, <2>2
<1>4. Leading(f, Len(f)) = f
  <2>1. /\ Leading(f, Len(f)) \in Seq(1..4) /\ Len(Leading(f, Len(f))) = Len(f)
        /\ \A i \in 1..Len(f) : Leading(f, Len(f))[i] = f[i]
    BY <1>1, LeadingFacts
  <2>2. PICK g : g = Leading(f, Len(f))
    OBVIOUS
  <2>3. g = f
    BY <2>1, <2>2, SeqEqual
  <2> QED BY <2>2, <2>3
<1> QED BY <1>3, <1>4

\* One rune more.
LEMMA OneRune ==
  ASSUME NEW f \in Seq(1..4), NEW k \in Nat, k + 1 <= Len(f)
  PROVE  Bytes(Leading(f, k + 1)) = Bytes(Leading(f, k)) \o Runes(f)[k + 1]
<1>1. PICK a, b : a = Leading(f, k) /\ b = Leading(f, k + 1)
  OBVIOUS
<1>2. k \in 0..Len(f) /\ k + 1 \in 0..Len(f)
  OBVIOUS
<1>3. /\ a \in Seq(1..4) /\ Len(a) = k /\ \A i \in 1..k : a[i] = f[i]
      /\ b \in Seq(1..4) /\ Len(b) = k + 1 /\ \A i \in 1..k + 1 : b[i] = f[i]
  BY <1>1, <1>2, LeadingFacts
<1>4. PICK rs, qs : rs = Runes(a) /\ qs = Runes(b)
  OBVIOUS
<1>5. /\ rs \in Seq(Seq(BOOLEAN)) /\ Len(rs) = k /\ Bytes(a) = FlattenSeq(rs)
      /\ qs \in Seq(Seq(BOOLEAN)) /\ Len(qs) = k + 1 /\ Bytes(b) = FlattenSeq(qs)
  BY <1>3, <1>4, RuneFacts
<1>6. \A i \in 1..k + 1 : qs[i] = Runes(f)[i]
  <2> SUFFICES ASSUME NEW i \in 1..k + 1 PROVE qs[i] = Runes(f)[i]
    OBVIOUS
  <2>1. i \in 1..Len(b) /\ i \in 1..Len(f) /\ b[i] = f[i]
    BY <1>3
  <2>2. Runes(b)[i] = Rune(b[i])
    BY <1>3, <2>1, RuneFacts
  <2>3. Runes(f)[i] = Rune(f[i])
    BY <2>1, RuneFacts
  <2> QED BY <1>4, <2>1, <2>2, <2>3
<1>7. \A i \in 1..k : rs[i] = Runes(f)[i]
  <2> SUFFICES ASSUME NEW i \in 1..k PROVE rs[i] = Runes(f)[i]
    OBVIOUS
  <2>1. i \in 1..Len(a) /\ i \in 1..Len(f) /\ a[i] = f[i]
    BY <1>3
  <2>2. Runes(a)[i] = Rune(a[i])
    BY <1>3, <2>1, RuneFacts
  <2>3. Runes(f)[i] = Rune(f[i])
    BY <2>1, RuneFacts
  <2> QED BY <1>4, <2>1, <2>2, <2>3
<1>8. FlattenSeq(qs) = FlattenSeq(rs) \o qs[k + 1]
  <2>1. \A i \in 1..Len(rs) : qs[i] = rs[i]
    <3>1. Len(rs) = k /\ \A i \in 1..k : i \in 1..k + 1
      BY <1>5
    <3> HIDE <1>5
    <3> QED BY <1>6, <1>7, <3>1
  <2> QED BY <1>5, <2>1, FlattenAppend
<1>9. k + 1 \in 1..k + 1
  OBVIOUS
<1> QED BY <1>1, <1>5, <1>6, <1>8, <1>9

\* A byte of the first k runes ends a rune just where the width of a shorter front
\* says so, and a longer front begins with a shorter one.
Grown(f, k) ==
  LET b == Bytes(Leading(f, k))
  IN  /\ b \in Seq(BOOLEAN)
      /\ \A j \in 0..k : /\ Width(f, j) \in Nat
                         /\ j < k => Width(f, j) < Width(f, k)
                         /\ \A i \in 1..Width(f, j) : Bytes(Leading(f, j))[i] = b[i]
      /\ \A i \in 1..Width(f, k) :
           b[i] = TRUE <=> \E j \in 1..k : Width(f, j) = i

LEMMA GrowsOn ==
  ASSUME NEW f \in Seq(1..4), NEW k \in Nat, k + 1 <= Len(f), Grown(f, k)
  PROVE  Grown(f, k + 1)
<1> DEFINE w(j)  == Width(f, j)
           by(j) == Bytes(Leading(f, j))
<1>1. PICK b, c, r, x, y, z :
        /\ b = by(k) /\ c = by(k + 1) /\ r = Runes(f)[k + 1] /\ x = w(k)
        /\ y = w(k + 1) /\ z = f[k + 1]
  OBVIOUS
<1>2. k + 1 \in 1..Len(f)
  OBVIOUS
<1>3. r \in Seq(BOOLEAN) /\ Len(r) = z /\ z \in Nat \ {0} /\ r = Rune(z)
  BY <1>1, <1>2, RuneFacts
<1>4. /\ b \in Seq(BOOLEAN) /\ x \in Nat /\ Len(b) = x
      /\ \A j \in 0..k : /\ w(j) \in Nat /\ (j < k => w(j) < x)
                         /\ \A i \in 1..w(j) : by(j)[i] = b[i]
      /\ \A i \in 1..x : b[i] = TRUE <=> \E j \in 1..k : w(j) = i
  BY <1>1 DEF Grown, Width
<1>5. c = b \o r
  BY <1>1, OneRune
<1>6. /\ c \in Seq(BOOLEAN) /\ Len(c) = x + z
      /\ \A i \in 1..x + z : c[i] = IF i <= x THEN b[i] ELSE r[i - x]
  <2>1. b \in Seq(BOOLEAN) /\ r \in Seq(BOOLEAN)
    BY <1>3, <1>4
  <2>2. /\ b \o r \in Seq(BOOLEAN) /\ Len(b \o r) = Len(b) + Len(r)
        /\ \A i \in 1..Len(b) + Len(r) :
             (b \o r)[i] = IF i <= Len(b) THEN b[i] ELSE r[i - Len(b)]
    BY ONLY <2>1, ConcatProperties
  <2>3. Len(b) = x /\ Len(r) = z
    BY <1>3, <1>4
  <2> QED BY ONLY <1>5, <2>2, <2>3, Zenon
<1>7. y = x + z /\ y \in Nat /\ x < y
  BY <1>1, <1>3, <1>4, <1>6 DEF Width
<1>8. ASSUME NEW j \in 0..k + 1
      PROVE  /\ w(j) \in Nat /\ (j < k + 1 => w(j) < y)
             /\ \A i \in 1..w(j) : by(j)[i] = c[i]
  <2>1. CASE j = k + 1
    <3>1. w(j) = y /\ by(j) = c
      BY <1>1, <2>1
    <3> QED BY <1>7, <2>1, <3>1
  <2>2. CASE j # k + 1
    <3>1. j \in 0..k
      BY <2>2
    <3>2. w(j) \in Nat /\ (j < k => w(j) < x) /\ \A i \in 1..w(j) : by(j)[i] = b[i]
      BY <1>4, <3>1
    <3>3. w(j) <= x
      <4>1. j = k => w(j) = x
        BY <1>1
      <4> HIDE DEF w
      <4> QED BY <1>4, <3>1, <3>2, <4>1
    <3> HIDE DEF w, by
    <3>4. ASSUME NEW i \in 1..w(j) PROVE by(j)[i] = c[i]
      <4>1. i \in 1..x + z /\ i <= x
        BY <1>3, <1>4, <3>2, <3>3
      <4>2. c[i] = b[i]
        BY <1>6, <4>1
      <4> QED BY <3>2, <4>2
    <3> QED BY <1>4, <1>7, <3>2, <3>3, <3>4
  <2> QED BY <2>1, <2>2
<1>9. ASSUME NEW i \in 1..y
      PROVE  c[i] = TRUE <=> \E j \in 1..k + 1 : w(j) = i
  <2> HIDE DEF w, by
  <2>1. \A j \in 1..k + 1 : j \in 1..k \/ j = k + 1
    OBVIOUS
  <2>2. \A j \in 1..k : w(j) \in Nat /\ w(j) <= x
    <3> SUFFICES ASSUME NEW j \in 1..k PROVE w(j) \in Nat /\ w(j) <= x
      OBVIOUS
    <3>1. j \in 0..k /\ (j < k \/ j = k)
      OBVIOUS
    <3>2. w(k) = x
      BY <1>1
    <3> QED BY <1>4, <3>1, <3>2
  <2>3. w(k + 1) = y /\ k + 1 \in 1..k + 1 /\ \A j \in 1..k : j \in 1..k + 1
    BY <1>1
  <2>4. CASE i <= x
    <3>1. i \in 1..x /\ i # y
      BY <1>4, <1>7, <2>4
    <3>2. c[i] = b[i]
      BY <1>3, <1>4, <1>6, <1>7, <2>4
    <3>3. b[i] = TRUE <=> \E j \in 1..k : w(j) = i
      BY <1>4, <3>1
    <3>4. (\E j \in 1..k + 1 : w(j) = i) <=> (\E j \in 1..k : w(j) = i)
      BY <2>1, <2>3, <3>1
    <3> QED BY <3>2, <3>3, <3>4
  <2>5. CASE ~(i <= x)
    <3>1. i - x \in 1..z /\ (i - x = z <=> i = y)
      BY <1>3, <1>4, <1>7, <2>5
    <3>2. c[i] = r[i - x]
      BY <1>6, <1>7, <2>5
    <3>3. r[i - x] = TRUE <=> i - x = z
      <4>1. PICK d : d = i - x
        OBVIOUS
      <4>2. r[d] = (d = z)
        BY <1>3, <3>1, <4>1 DEF Rune
      <4> QED BY <4>1, <4>2
    <3>4. \A j \in 1..k : w(j) # i
      BY <1>4, <2>2, <2>5
    <3>5. (\E j \in 1..k + 1 : w(j) = i) <=> i = y
      BY <2>1, <2>3, <3>4
    <3> QED BY <3>1, <3>2, <3>3, <3>5
  <2> QED BY <2>4, <2>5
<1>10. Width(f, k + 1) = y /\ Bytes(Leading(f, k + 1)) = c
  BY <1>1
<1> QED BY <1>6, <1>8, <1>9, <1>10 DEF Grown

LEMMA AllGrown ==
  ASSUME NEW f \in Seq(1..4), NEW n \in 0..Len(f)
  PROVE  Grown(f, n)
<1> DEFINE S == {k \in Nat : k <= Len(f) => Grown(f, k)}
<1>0. Len(f) \in Nat
  OBVIOUS
<1>1. 0 \in S
  <2>1. Bytes(Leading(f, 0)) = <<>> /\ Width(f, 0) = 0
    BY NoBytes DEF Width
  <2>2. 0..0 = {0} /\ 1..0 = {} /\ 0 \in Nat /\ ~(0 < 0) /\ <<>> \in Seq(BOOLEAN)
    OBVIOUS
  <2>3. Grown(f, 0)
    BY <2>1, <2>2 DEF Grown
  <2> QED BY <2>3
<1>2. \A k \in Nat : k \in S => k + 1 \in S
  <2> SUFFICES ASSUME NEW k \in Nat, k \in S, k + 1 <= Len(f) PROVE Grown(f, k + 1)
    OBVIOUS
  <2>1. Grown(f, k)
    BY <1>0
  <2> QED BY <2>1, GrowsOn
<1> HIDE DEF S
<1>3. n \in S
  BY <1>1, <1>2, SetInduction
<1>4. n <= Len(f)
  OBVIOUS
<1> QED BY <1>3, <1>4 DEF S

LEMMA MaxIs ==
  ASSUME NEW S \in SUBSET Nat, NEW m \in S, \A x \in S : x <= m
  PROVE  Max(S) = m
<1>1. \A x \in S : (\A y \in S : x >= y) => x = m
  <2> SUFFICES ASSUME NEW x \in S, \A y \in S : x >= y PROVE x = m
    OBVIOUS
  <2>1. x \in Nat /\ m \in Nat /\ x >= m /\ x <= m
    OBVIOUS
  <2> QED BY <2>1
<1>2. \A y \in S : m >= y
  OBVIOUS
<1> QED BY <1>1, <1>2 DEF Max

\* Of the fronts of a value that fit there is a longest.
LEMMA LongestLeading ==
  ASSUME NEW f \in Seq(1..4)
  PROVE  \E k \in 0..Len(f) :
           /\ WholeRunes(f) = Bytes(Leading(f, k))
           /\ Width(f, k) <= dimensionMaxLen
           /\ \A j \in 0..Len(f) : Width(f, j) <= dimensionMaxLen => j <= k
<1> DEFINE K == {k \in 0..Len(f) : Width(f, k) <= dimensionMaxLen}
           R == {r \in Nat \X Nat : r[1] < r[2]}
           T == {k \in Nat : \E j \in K : j + k = Len(f)}
<1>0. Len(f) \in Nat /\ K \subseteq Nat /\ T \subseteq Nat
  OBVIOUS
<1>1. 0 \in K
  <2>1. Width(f, 0) = 0
    BY NoBytes DEF Width
  <2> QED BY <2>1, UsageAssumption
<1>2. T # {}
  <2>1. Len(f) \in T
    BY <1>0, <1>1
  <2> QED BY <2>1
<1>3. IsWellFoundedOn(R, Nat)
  BY NatLessThanWellFounded DEF OpToRel
<1>4. PICK t \in T : \A u \in T : <<u, t>> \notin R
  <2> HIDE DEF R, T, K
  <2> QED BY <1>0, <1>2, <1>3, WFMin
<1>5. PICK k \in K : k + t = Len(f)
  BY <1>4
<1>6. \A j \in K : j <= k
  <2> SUFFICES ASSUME NEW j \in K PROVE j <= k
    OBVIOUS
  <2>1. j \in Nat /\ k \in Nat /\ t \in Nat /\ j <= Len(f)
    BY <1>0
  <2>2. Len(f) - j \in T
    BY <1>0, <2>1
  <2>3. ~(Len(f) - j < t)
    BY <1>0, <1>4, <2>1, <2>2
  <2> QED BY <1>0, <1>5, <2>1, <2>3
<1>7. Max(K) = k
  <2> HIDE DEF K
  <2> QED BY <1>0, <1>6, MaxIs
<1>8. WholeRunes(f) = Bytes(SubSeq(f, 1, Max(K)))
  BY DEF WholeRunes, Width, Leading
<1> QED BY <1>5, <1>6, <1>7, <1>8 DEF Leading

\* cleanDimension cuts between runes, and no earlier than it must.
THEOREM CutBetweenRunes ==
  ASSUME NEW f \in Seq(1..4)
  PROVE  CleanDimension(f) = WholeRunes(f)
<1>1. PICK k \in 0..Len(f) :
        /\ WholeRunes(f) = Bytes(Leading(f, k))
        /\ Width(f, k) <= dimensionMaxLen
        /\ \A j \in 0..Len(f) : Width(f, j) <= dimensionMaxLen => j <= k
  BY LongestLeading
<1>2. PICK n, b, l, x, a : n = Len(f) /\ b = Bytes(f) /\ l = Len(b)
                           /\ x = Width(f, k) /\ a = Bytes(Leading(f, k))
  OBVIOUS
<1>3. n \in Nat /\ k \in 0..n /\ n \in 0..n /\ b = Bytes(Leading(f, n)) /\ l = Width(f, n)
  BY <1>2, NoBytes DEF Width
<1>4. /\ b \in Seq(BOOLEAN)
      /\ \A j \in 0..n : /\ Width(f, j) \in Nat
                         /\ j < n => Width(f, j) < l
                         /\ \A i \in 1..Width(f, j) : Bytes(Leading(f, j))[i] = b[i]
      /\ \A i \in 1..l : b[i] = TRUE <=> \E j \in 1..n : Width(f, j) = i
  <2>1. Grown(f, n)
    BY <1>2, <1>3, AllGrown
  <2>2. b = Bytes(Leading(f, n)) /\ l = Width(f, n)
    BY <1>3
  <2> QED BY ONLY <2>1, <2>2 DEF Grown
<1>5. a \in Seq(BOOLEAN) /\ Len(a) = x /\ x \in Nat /\ \A i \in 1..x : a[i] = b[i]
  <2>1. Grown(f, k)
    BY AllGrown
  <2> QED BY <1>2, <1>3, <1>4, <2>1 DEF Grown, Width
<1>6. x <= l /\ l \in Nat /\ (k = n => x = l)
  <2>1. k < n \/ k = n
    BY <1>3
  <2>2. k = n => x = l
    BY <1>2, <1>3
  <2>3. l \in Nat /\ (k < n => x < l)
    BY <1>2, <1>3, <1>4
  <2> QED BY <1>5, <2>1, <2>2, <2>3
<1>7. CASE l <= dimensionMaxLen
  <2>1. CleanDimension(f) = b
    BY <1>2, <1>7 DEF CleanDimension
  <2>2. k = n
    BY <1>1, <1>2, <1>3, <1>7
  <2> QED BY <1>1, <1>2, <1>3, <2>1, <2>2
<1>8. CASE ~(l <= dimensionMaxLen)
  <2>1. PICK m : m = dimensionMaxLen
    OBVIOUS
  <2>2. m \in Nat /\ m < l /\ x <= m
    BY <1>1, <1>2, <1>6, <1>8, <2>1, UsageAssumption
  <2>3. PICK cut : cut = SubSeq(b, 1, m)
    OBVIOUS
  <2>4. /\ cut \in Seq(BOOLEAN) /\ Len(cut) = m /\ DOMAIN cut = 1..m
        /\ \A i \in 1..m : cut[i] = b[i]
    <3>1. \A i \in 1..m : b[i] \in BOOLEAN
      <4>1. \A i \in 1..m : i \in 1..l
        BY <1>6, <2>2
      <4>2. \A i \in 1..l : b[i] \in BOOLEAN
        BY <1>2, <1>4, ElementOfSeq
      <4> QED BY <4>1, <4>2
    <3>2. /\ SubSeq(b, 1, m) \in Seq(BOOLEAN)
          /\ Len(SubSeq(b, 1, m)) = IF 1 <= m THEN m - 1 + 1 ELSE 0
          /\ \A i \in 1..m - 1 + 1 : SubSeq(b, 1, m)[i] = b[1 + i - 1]
      BY <2>2, <3>1, SubSeqProperties
    <3>3. m - 1 + 1 = m /\ (~(1 <= m) => m = 0) /\ \A i \in 1..m : 1 + i - 1 = i
      BY <2>2
    <3>4. /\ cut \in Seq(BOOLEAN) /\ Len(cut) = m
      BY <2>3, <3>2, <3>3
    <3>5. \A i \in 1..m : cut[i] = b[i]
      BY <2>3, <3>2, <3>3
    <3> QED BY <3>4, <3>5
  <2> DEFINE ends == {i \in DOMAIN cut : cut[i]} \cup {0}
  <2>5. CleanDimension(f) = SubSeq(cut, 1, Max(ends))
    BY <1>2, <1>8, <2>1, <2>3 DEF CleanDimension, BackedOff
  <2>6. ASSUME NEW i \in 1..m
        PROVE  cut[i] <=> \E j \in 1..n : Width(f, j) = i
    <3>1. i \in 1..l
      BY <1>6, <2>2
    <3>2. cut[i] = b[i] /\ cut[i] \in BOOLEAN
      BY <2>4, ElementOfSeq
    <3>3. b[i] = TRUE <=> \E j \in 1..n : Width(f, j) = i
      BY <1>4, <3>1
    <3> QED BY <3>2, <3>3, Zenon
  <2>7. \A i : i \in ends <=> i = 0 \/ (i \in 1..m /\ \E j \in 1..n : Width(f, j) = i)
    BY <2>4, <2>6
  <2> HIDE DEF ends
  <2>8. ends \in SUBSET Nat
    BY <2>2, <2>7
  <2>9. x \in ends
    <3>1. CASE x = 0
      BY <2>7, <3>1
    <3>2. CASE x # 0
      <4>1. k # 0
        <5>1. Width(f, 0) = 0
          BY NoBytes DEF Width
        <5> QED BY <1>2, <3>2, <5>1
      <4>2. k \in 1..n /\ x \in 1..m
        BY <1>3, <1>5, <2>2, <3>2, <4>1
      <4> QED BY <1>2, <2>7, <4>2
    <3> QED BY <3>1, <3>2
  <2>10. \A i \in ends : i <= x
    <3> SUFFICES ASSUME NEW j \in 1..n, Width(f, j) <= m PROVE Width(f, j) <= x
      BY <1>5, <2>2, <2>7
    <3>1. j \in 0..n /\ j <= k
      BY <1>1, <1>2, <1>3, <2>1
    <3>2. Grown(f, k) /\ j \in 0..k
      BY <1>3, <3>1, AllGrown
    <3>3. j < k => Width(f, j) < x
      BY <1>2, <3>2 DEF Grown
    <3>4. Width(f, j) \in Nat /\ (j = k => Width(f, j) = x)
      BY <1>2, <1>4, <3>1
    <3> QED BY <1>3, <1>5, <3>1, <3>3, <3>4
  <2>11. Max(ends) = x
    BY <2>8, <2>9, <2>10, MaxIs
  <2>12. SubSeq(cut, 1, x) = a
    <3>1. \A i \in 1..x : cut[i] \in BOOLEAN /\ cut[i] = b[i]
      <4>1. \A i \in 1..x : i \in 1..m
        BY <1>5, <2>2
      <4> QED BY <2>4, <4>1, ElementOfSeq
    <3>2. /\ SubSeq(cut, 1, x) \in Seq(BOOLEAN)
          /\ Len(SubSeq(cut, 1, x)) = IF 1 <= x THEN x - 1 + 1 ELSE 0
          /\ \A i \in 1..x - 1 + 1 : SubSeq(cut, 1, x)[i] = cut[1 + i - 1]
      BY <1>5, <3>1, SubSeqProperties
    <3>3. x - 1 + 1 = x /\ (~(1 <= x) => x = 0) /\ \A i \in 1..x : 1 + i - 1 = i
      BY <1>5
    <3>4. PICK d : d = SubSeq(cut, 1, x)
      OBVIOUS
    <3>5. d \in Seq(BOOLEAN) /\ Len(d) = x /\ \A i \in 1..x : d[i] = a[i]
      BY <1>5, <3>1, <3>2, <3>3, <3>4
    <3> QED BY <1>5, <3>4, <3>5, SeqEqual
  <2> QED BY <1>1, <1>2, <2>5, <2>11, <2>12
<1> QED BY <1>7, <1>8
-----------------------------------------------------------------------------
(* The usage report *)

Reports == {Event(p, Config[r].framework) : p \in Process, r \in Runner}

\* The mark is set before anything of the process is on its way.
UsageRight ==
  /\ reported \in [Process -> BOOLEAN]
  /\ outbox \in [Process -> Seq(Reports)] /\ events \in [Process -> Seq(Reports)]
  /\ \A p \in Process :
       /\ Len(events[p]) + Len(outbox[p]) <= 1
       /\ ~reported[p] \/ Disabled(Environment[p]) \/ ~Environment[p].endpoint =>
            events[p] = <<>> /\ outbox[p] = <<>>

LEMMA UsageStarts == UsageInit => UsageRight
<1> SUFFICES ASSUME UsageInit PROVE UsageRight
  OBVIOUS
<1>1. <<>> \in Seq(Reports) /\ Len(<<>>) = 0 /\ 0 + 0 <= 1
  OBVIOUS
<1> QED BY <1>1 DEF UsageInit, UsageRight

LEMMA ReportNext ==
  ASSUME UsageRight, NEW r \in Runner, ReportUsage(ProcessOf[r], Config[r].framework)
  PROVE  UsageRight'
<1>1. PICK p, e : p = ProcessOf[r] /\ e = Event(p, Config[r].framework)
  OBVIOUS
<1>2. p \in Process
  BY <1>1, NewRunnerAssumption
<1>3. e \in Reports
  BY <1>1, <1>2 DEF Reports
<1>4. CASE UNCHANGED uvars
  BY <1>4 DEF uvars, UsageRight
<1>5. CASE ~UNCHANGED uvars
  <2>1. /\ Environment[p].endpoint /\ reported' = [reported EXCEPT ![p] = TRUE]
        /\ UNCHANGED events
        /\ outbox' = IF AlreadyReported(p) \/ Disabled(Environment[p]) THEN outbox
                     ELSE [outbox EXCEPT ![p] = Append(@, Event(p, Config[r].framework))]
    BY <1>1, <1>5 DEF ReportUsage
  <2>2. reported' \in [Process -> BOOLEAN] /\ \A q \in Process \ {p} : reported'[q] = reported[q]
    BY <2>1 DEF UsageRight
  <2>3. CASE AlreadyReported(p) \/ Disabled(Environment[p])
    <3>1. outbox' = outbox /\ events' = events
      BY <2>1, <2>3
    <3>2. ASSUME NEW q \in Process,
                 ~reported'[q] \/ Disabled(Environment[q]) \/ ~Environment[q].endpoint
          PROVE  events[q] = <<>> /\ outbox[q] = <<>>
      <4>1. CASE q # p
        BY <2>2, <3>2, <4>1 DEF UsageRight
      <4>2. CASE q = p
        <5>1. reported'[p] = TRUE
          BY <1>2, <2>1 DEF UsageRight
        <5>2. Disabled(Environment[p])
          BY <2>1, <3>2, <4>2, <5>1
        <5> QED BY <4>2, <5>2 DEF UsageRight
      <4> QED BY <4>1, <4>2
    <3> QED BY <2>2, <3>1, <3>2 DEF UsageRight
  <2>4. CASE ~AlreadyReported(p) /\ ~Disabled(Environment[p])
    <3>1. PICK o : o = Append(outbox[p], e)
      OBVIOUS
    <3>2. outbox' = [outbox EXCEPT ![p] = o] /\ events' = events
      BY <1>1, <2>1, <2>4, <3>1
    <3>3. events[p] = <<>> /\ outbox[p] = <<>>
      BY <1>2, <2>4 DEF UsageRight, AlreadyReported
    <3>4. o \in Seq(Reports) /\ Len(o) = 1 /\ Len(events[p]) = 0
      BY <1>3, <3>1, <3>3
    <3>5. /\ outbox' \in [Process -> Seq(Reports)] /\ outbox'[p] = o
          /\ \A q \in Process \ {p} : outbox'[q] = outbox[q]
      BY <1>2, <3>2, <3>4 DEF UsageRight
    <3>6. ASSUME NEW q \in Process PROVE Len(events'[q]) + Len(outbox'[q]) <= 1
      <4>1. CASE q = p
        <5>1. Len(outbox'[q]) = 1
          BY <3>4, <3>5, <4>1
        <5>2. Len(events'[q]) = 0
          BY <3>2, <3>4, <4>1
        <5> QED BY ONLY <5>1, <5>2
      <4>2. CASE q # p
        <5>1. outbox'[q] = outbox[q] /\ events'[q] = events[q]
          BY <3>2, <3>5, <4>2
        <5>2. Len(events[q]) + Len(outbox[q]) <= 1
          BY DEF UsageRight
        <5> QED BY ONLY <5>1, <5>2
      <4> QED BY <4>1, <4>2
    <3>7. ASSUME NEW q \in Process,
                 ~reported'[q] \/ Disabled(Environment[q]) \/ ~Environment[q].endpoint
          PROVE  events'[q] = <<>> /\ outbox'[q] = <<>>
      <4>1. q # p
        <5>1. reported'[p] = TRUE
          BY <1>2, <2>1 DEF UsageRight
        <5> QED BY <2>1, <2>4, <3>7, <5>1
      <4> QED BY <2>2, <3>2, <3>5, <3>7, <4>1 DEF UsageRight
    <3>8. events' \in [Process -> Seq(Reports)]
      BY <3>2 DEF UsageRight
    <3> QED BY <2>2, <3>5, <3>6, <3>7, <3>8 DEF UsageRight
  <2> QED BY <2>3, <2>4
<1> QED BY <1>4, <1>5

LEMMA SendNext ==
  ASSUME UsageRight, NEW p \in Process, SendUsageEvent(p)
  PROVE  UsageRight'
<1>1. PICK o, s, h, t : o = outbox[p] /\ s = events[p] /\ h = Head(o) /\ t = Tail(o)
  OBVIOUS
<1>2. o \in Seq(Reports) /\ s \in Seq(Reports) /\ o # <<>> /\ Len(s) + Len(o) <= 1
  BY <1>1 DEF UsageRight, SendUsageEvent
<1>3. Len(o) \in Nat \ {0} /\ Len(s) \in Nat /\ Len(o) = 1 /\ Len(s) = 0
  <2>1. Len(o) \in Nat \ {0} /\ Len(s) \in Nat
    BY <1>2, EmptySeq
  <2>2. PICK a, c : a = Len(s) /\ c = Len(o)
    OBVIOUS
  <2>3. a \in Nat /\ c \in Nat \ {0} /\ a + c <= 1
    BY <1>2, <2>1, <2>2
  <2>4. c = 1 /\ a = 0
    BY ONLY <2>3
  <2> QED BY <2>1, <2>2, <2>4
<1>4. t \in Seq(Reports) /\ Len(t) = 0 /\ h \in Reports
  BY <1>1, <1>2, <1>3, HeadTailProperties
<1>5. PICK new \in {s, Append(s, h)} :
        /\ outbox' = [outbox EXCEPT ![p] = t]
        /\ events' = [events EXCEPT ![p] = new]
        /\ reported' = reported
  <2>1. /\ outbox' = [outbox EXCEPT ![p] = t] /\ reported' = reported
        /\ events' = [events EXCEPT ![p] = Append(s, h)] \/ events' = events
    BY <1>1 DEF SendUsageEvent
  <2>2. events = [events EXCEPT ![p] = s]
    BY <1>1 DEF UsageRight
  <2> QED BY <2>1, <2>2
<1>6. new \in Seq(Reports) /\ Len(new) <= 1 /\ Len(new) \in Nat
  <2>1. Append(s, h) \in Seq(Reports) /\ Len(Append(s, h)) = 1
    BY ONLY <1>2, <1>3, <1>4, AppendProperties
  <2>2. CASE new = s
    BY ONLY <1>2, <1>3, <2>2
  <2>3. CASE new = Append(s, h)
    BY ONLY <2>1, <2>3
  <2> QED BY <1>5, <2>2, <2>3
<1>7. /\ outbox' \in [Process -> Seq(Reports)] /\ outbox'[p] = t
      /\ events' \in [Process -> Seq(Reports)] /\ events'[p] = new
      /\ \A q \in Process \ {p} : outbox'[q] = outbox[q] /\ events'[q] = events[q]
  BY <1>4, <1>5, <1>6 DEF UsageRight
<1>8. reported[p] /\ ~Disabled(Environment[p]) /\ Environment[p].endpoint
  BY <1>1, <1>2 DEF UsageRight
<1>9. ASSUME NEW q \in Process PROVE Len(events'[q]) + Len(outbox'[q]) <= 1
  <2>1. CASE q = p
    BY <1>4, <1>6, <1>7, <2>1
  <2>2. CASE q # p
    BY <1>7, <2>2 DEF UsageRight
  <2> QED BY <2>1, <2>2
<1>10. ASSUME NEW q \in Process,
              ~reported'[q] \/ Disabled(Environment[q]) \/ ~Environment[q].endpoint
       PROVE  events'[q] = <<>> /\ outbox'[q] = <<>>
  <2>1. q # p
    BY <1>5, <1>8, <1>10
  <2> QED BY <1>5, <1>7, <1>10, <2>1 DEF UsageRight
<1> QED BY <1>5, <1>7, <1>9, <1>10 DEF UsageRight

LEMMA UsageNext == UsageRight /\ [NewRunnerNext]_nvars => UsageRight'
<1> SUFFICES ASSUME UsageRight, [NewRunnerNext]_nvars PROVE UsageRight'
  OBVIOUS
<1>1. CASE UNCHANGED uvars
  BY <1>1 DEF uvars, UsageRight
<1>2. ASSUME NEW r \in Runner, Begin(r) PROVE UsageRight'
  BY <1>1, <1>2, ReportNext DEF Begin
<1>3. ASSUME NEW p \in Process, SendUsageEvent(p) PROVE UsageRight'
  BY <1>3, SendNext
<1> QED BY <1>1, <1>2, <1>3
        DEF nvars, NewRunnerNext, CallsStep, RunnerStep, StartBackend, Connect,
            Registering, RegisterReturns, Close, Deregistering

\* A process reports at most once, however many Runners it makes, not at all when
\* its user opted out, and cuts the framework between runes.
THEOREM ReportsOnce == NewRunnerSpec => []UsageReportedOnce
<1>1. ASSUME UsageRight PROVE UsageReportedOnce
  <2> SUFFICES ASSUME NEW p \in Process, NEW all, all = events[p] \o outbox[p]
               PROVE  /\ Len(all) <= 1
                      /\ Disabled(Environment[p]) \/ ~Environment[p].endpoint => all = <<>>
                      /\ \A k \in DOMAIN all :
                           \E f \in {Config[r].framework : r \in Runner} :
                             all[k].framework = WholeRunes(f)
    BY DEF UsageReportedOnce, ReportedOnce
  <2>1. PICK e, o : e = events[p] /\ o = outbox[p]
    OBVIOUS
  <2>2. e \in Seq(Reports) /\ o \in Seq(Reports) /\ Len(e) + Len(o) <= 1
    BY <1>1, <2>1 DEF UsageRight
  <2>3. all = e \o o
    BY <2>1
  <2>4. all \in Seq(Reports) /\ Len(all) = Len(e) + Len(o)
    BY ONLY <2>2, <2>3, ConcatProperties
  <2>5. ASSUME Disabled(Environment[p]) \/ ~Environment[p].endpoint PROVE all = <<>>
    <3>1. e = <<>> /\ o = <<>>
      BY <1>1, <2>1, <2>5 DEF UsageRight
    <3>2. Len(all) = 0
      BY <2>4, <3>1
    <3> QED BY <2>4, <3>2, EmptySeq
  <2>6. ASSUME NEW k \in DOMAIN all
        PROVE  \E f \in {Config[r].framework : r \in Runner} :
                 all[k].framework = WholeRunes(f)
    <3>1. all[k] \in Reports
      <4>1. DOMAIN all = 1..Len(all)
        BY ONLY <2>4, LenProperties
      <4> QED BY ONLY <2>4, <2>6, <4>1, ElementOfSeq
    <3>2. PICK q \in Process, r \in Runner : all[k] = Event(q, Config[r].framework)
      BY <3>1 DEF Reports
    <3>3. PICK f : f = Config[r].framework
      OBVIOUS
    <3>4. f \in Seq(1..4)
      BY <3>3, NewRunnerAssumption DEF ConfigType
    <3>5. all[k].framework = CleanDimension(f)
      BY <3>2, <3>3 DEF Event
    <3>6. CleanDimension(f) = WholeRunes(f)
      BY <3>4, CutBetweenRunes
    <3> QED BY <3>3, <3>5, <3>6
  <2> QED BY <2>2, <2>4, <2>5, <2>6
<1>2. NewRunnerInit => UsageRight
  BY UsageStarts DEF NewRunnerInit
<1> QED BY <1>1, <1>2, UsageNext, PTL DEF NewRunnerSpec
=============================================================================
