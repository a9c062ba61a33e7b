----------------------------- MODULE Rollout_proofs -----------------------------
(***************************************************************************)
(* Runs during a rolling deployment, for any programs, Runners, processes  *)
(* and runs: no replay mixes versions, and a run that only one version     *)
(* worked on goes as it goes in that version alone, as AgentRun says.      *)
(***************************************************************************)
EXTENDS Rollout, WellFoundedInduction, TLAPS

-----------------------------------------------------------------------------
(* The course of a version over recorded results *)

\* Induction over the naturals, for a set of them.
LEMMA SetInduction ==
  ASSUME NEW S, 0 \in S, \A n \in Nat : n \in S => n + 1 \in S
  PROVE  Nat \subseteq S
<1> DEFINE T == Nat \ S
           R == {r \in Nat \X Nat : r[1] < r[2]}
<1>1. IsWellFoundedOn(R, Nat)
  BY NatLessThanWellFounded DEF OpToRel
<1>2. SUFFICES ASSUME T # {} PROVE FALSE
  OBVIOUS
<1>3. PICK x \in T : \A y \in T : <<y, x>> \notin R
  <2> HIDE DEF R
  <2> QED BY <1>1, <1>2, WFMin
<1>4. x # 0 /\ x \in Nat
  OBVIOUS
<1>5. x - 1 \in Nat /\ x = (x - 1) + 1 /\ x - 1 < x
  BY <1>4
<1>6. x - 1 \notin T
  BY <1>3, <1>4, <1>5
<1> QED BY <1>5, <1>6

\* A function that follows v's course over the first n of rs.
Follows(at, v, rs, n) ==
  at = [k \in 0..n |-> IF k = 0 THEN Start(v) ELSE Step(v, at[k-1], rs[k].updates)]

LEMMA FollowsOn ==
  ASSUME NEW v, NEW rs, NEW n \in Nat, NEW at, Follows(at, v, rs, n)
  PROVE  \E after : Follows(after, v, rs, n + 1)
<1> DEFINE next  == Step(v, at[n], rs[n + 1].updates)
           after == [k \in 0..(n + 1) |-> IF k = n + 1 THEN next ELSE at[k]]
<1>1. \A k \in 0..(n + 1) :
        after[k] = IF k = 0 THEN Start(v) ELSE Step(v, after[k-1], rs[k].updates)
  <2> SUFFICES ASSUME NEW k \in 0..(n + 1)
               PROVE  after[k] = IF k = 0 THEN Start(v)
                                 ELSE Step(v, after[k-1], rs[k].updates)
    OBVIOUS
  <2>1. CASE k = 0
    <3>1. 0 \in 0..n /\ after[0] = at[0]
      OBVIOUS
    <3>2. at[0] = Start(v)
      BY <3>1 DEF Follows
    <3> QED BY <2>1, <3>1, <3>2
  <2>2. CASE k \in 1..n
    <3>1. k \in 0..n /\ k # 0 /\ k # n + 1 /\ k - 1 \in 0..(n + 1) /\ k - 1 # n + 1
      BY <2>2
    <3>2. after[k] = at[k] /\ after[k - 1] = at[k - 1]
      BY <3>1
    <3>3. at[k] = Step(v, at[k-1], rs[k].updates)
      BY <3>1 DEF Follows
    <3> QED BY <3>1, <3>2, <3>3
  <2>3. CASE k = n + 1
    <3>1. k # 0 /\ k - 1 = n /\ n \in 0..(n + 1) /\ n # n + 1
      BY <2>3
    <3>2. after[k] = next /\ after[k - 1] = at[n]
      BY <2>3, <3>1
    <3> QED BY <2>3, <3>1, <3>2
  <2> QED BY <2>1, <2>2, <2>3
<1>2. after = [k \in 0..(n + 1) |-> after[k]]
  OBVIOUS
<1> HIDE DEF after
<1> QED BY <1>1, <1>2 DEF Follows

\* There is such a function, so that Course has the value its definition says.
LEMMA CourseFollows ==
  ASSUME NEW v, NEW R, NEW rs \in Seq(R)
  PROVE  Follows(Course(v, rs), v, rs, Len(rs))
<1> DEFINE S == {n \in Nat : \E at : Follows(at, v, rs, n)}
<1>1. 0 \in S
  <2> DEFINE at == [k \in 0..0 |-> Start(v)]
  <2>1. Follows(at, v, rs, 0)
    BY DEF Follows
  <2> QED BY <2>1
<1>2. \A n \in Nat : n \in S => n + 1 \in S
  BY FollowsOn
<1>3. Nat \subseteq S
  <2> HIDE DEF S
  <2> QED BY <1>1, <1>2, SetInduction
<1>4. Len(rs) \in Nat
  OBVIOUS
<1>5. \E at : Follows(at, v, rs, Len(rs))
  BY <1>3, <1>4
<1>6. Course(v, rs) = CHOOSE at : Follows(at, v, rs, Len(rs))
  BY DEF Course, Follows
<1> QED BY <1>5, <1>6

\* The course begins at the entry and goes on by one result at a time.
LEMMA CourseDef ==
  ASSUME NEW v, NEW R, NEW rs \in Seq(R)
  PROVE  /\ Course(v, rs)[0] = Start(v)
         /\ \A k \in 0..Len(rs) - 1 :
              Course(v, rs)[k + 1] = Step(v, Course(v, rs)[k], rs[k + 1].updates)
<1> DEFINE at == Course(v, rs)
           n  == Len(rs)
<1>1. n \in Nat
  OBVIOUS
<1>2. at = [k \in 0..n |-> IF k = 0 THEN Start(v) ELSE Step(v, at[k-1], rs[k].updates)]
  BY CourseFollows DEF Follows
<1> HIDE DEF at, n
<1>3. at[0] = Start(v)
  BY <1>1, <1>2
<1>4. ASSUME NEW k \in 0..n - 1
      PROVE  at[k + 1] = Step(v, at[k], rs[k + 1].updates)
  <2>1. k + 1 \in 0..n /\ k + 1 # 0 /\ (k + 1) - 1 = k
    BY <1>1
  <2> QED BY <1>2, <2>1
<1> QED BY <1>3, <1>4 DEF at, n

\* A result that is added changes nothing of the course so far.
LEMMA CourseAppend ==
  ASSUME NEW v, NEW R, NEW rs \in Seq(R), NEW r \in R
  PROVE  \A k \in 0..Len(rs) : Course(v, Append(rs, r))[k] = Course(v, rs)[k]
<1> DEFINE ss == Append(rs, r)
           n  == Len(rs)
           S  == {k \in Nat : k <= n => Course(v, ss)[k] = Course(v, rs)[k]}
<1>1. /\ n \in Nat /\ ss \in Seq(R) /\ Len(ss) = n + 1
      /\ \A k \in 1..n : ss[k] = rs[k]
  OBVIOUS
<1> HIDE DEF ss, n
<1>2. /\ Course(v, rs)[0] = Start(v) /\ Course(v, ss)[0] = Start(v)
      /\ \A k \in 0..n - 1 :
           Course(v, rs)[k + 1] = Step(v, Course(v, rs)[k], rs[k + 1].updates)
      /\ \A k \in 0..(n + 1) - 1 :
           Course(v, ss)[k + 1] = Step(v, Course(v, ss)[k], ss[k + 1].updates)
  BY <1>1, CourseDef DEF n
<1>3. 0 \in S
  BY <1>2
<1>4. ASSUME NEW k \in Nat, k \in S
      PROVE  k + 1 \in S
  <2> SUFFICES ASSUME k + 1 <= n
               PROVE  Course(v, ss)[k + 1] = Course(v, rs)[k + 1]
    OBVIOUS
  <2>1. k <= n /\ k \in 0..n - 1 /\ k \in 0..(n + 1) - 1 /\ k + 1 \in 1..n
    BY <1>1
  <2>2. Course(v, ss)[k] = Course(v, rs)[k] /\ ss[k + 1] = rs[k + 1]
    BY <1>1, <1>4, <2>1
  <2> QED BY <1>2, <2>1, <2>2
<1>5. Nat \subseteq S
  <2> HIDE DEF S
  <2> QED BY <1>3, <1>4, SetInduction
<1>6. \A k \in 0..n : k \in Nat /\ k <= n
  BY <1>1
<1> QED BY <1>5, <1>6 DEF ss, n
-----------------------------------------------------------------------------
(* The invariant *)

\* Results come from the versions' node functions.
Result == {[node |-> n, updates |-> Output[v][n]] :
             v \in Version, n \in UNION {Program[w].nodes : w \in Version}}

\* The records of the state; a position and an output are what they are.
InstanceWith(output) ==
  [status : {"running", "completed", "failed"}, results : Seq(Result),
   fails : Nat, due : BOOLEAN, output : {output},
   reason : {"none", "node", "route", "max steps", "mismatch"}]

TurnAt(pos) == [worker : Worker, cg : Version, pos : {pos}, step : Nat]

Typed ==
  /\ worker \in [Worker -> Version \cup {None}]
  /\ graphs \in [Process -> Version \cup {None}]
  /\ \A w \in Worker : Up(w) => LookupGraph(w) # None
  /\ inst = [i \in InstanceId |-> inst[i]]
  /\ turn = [i \in InstanceId |-> turn[i]]
  /\ task = [i \in InstanceId |-> task[i]]
  /\ touched \in [InstanceId -> SUBSET Version]
  /\ \A i \in InstanceId :
       /\ inst[i] # Absent => inst[i] \in InstanceWith(inst[i].output)
       /\ Replaying(i) => turn[i] \in TurnAt(turn[i].pos)

\* A run that is replayed is due, one with a node to run is not, and one that ended
\* has neither.
Scheduled(i) ==
  /\ inst[i] = Absent => ~Replaying(i) /\ task[i] = None
  /\ Replaying(i) => inst[i].due
  /\ inst[i] # Absent /\ inst[i].due => task[i] = None /\ inst[i].status = "running"
  /\ inst[i] # Absent /\ inst[i].status # "running" => task[i] = None
  /\ inst[i] # Absent /\ inst[i].status = "running" => inst[i].reason = "none"

\* A replay stands where its version stands after as many results, having come
\* through nodes of that version only.
OnCourse(i) ==
  Replaying(i) =>
    /\ turn[i].cg \in touched[i]
    /\ turn[i].step \in 0..Len(Results(i))
    /\ turn[i].pos = Fold(turn[i].cg, i, turn[i].step)
    /\ Current(i) \in Targets(Program[turn[i].cg]) \cup {RouteError}
    /\ \A j \in 0..turn[i].step - 1 : Has(turn[i].cg, Fold(turn[i].cg, i, j).current)

\* The second conjunct of OneVersionPerReplay.
Concluded(i) ==
  inst[i].status = "completed" =>
    \E v \in Version, k \in 0..Len(Results(i)) :
      /\ Fold(v, i, k).current = END /\ Fold(v, i, k).state = inst[i].output
      /\ \A j \in 0..k-1 : Has(v, Fold(v, i, j).current)

\* What one version alone does: it fails at no node, and the node to run is the one
\* it has come to.
Alone(v, i) ==
  /\ OwnRun(v, i)
  /\ inst[i].fails = 0
  /\ task[i] # None => /\ task[i] = Fold(v, i, Len(Results(i))).current
                       /\ Has(v, task[i])

RunInv(i) ==
  /\ Scheduled(i)
  /\ OnCourse(i)
  /\ inst[i] # Absent => Concluded(i)
  /\ \A v \in Version : inst[i] # Absent /\ touched[i] \subseteq {v} => Alone(v, i)

RInv == Typed /\ \A i \in InstanceId : RunInv(i)

\* What has no activity and no replay is not a record of one.
LEMMA NotRecords ==
  /\ \A o : Absent \notin InstanceWith(o)
  /\ \A p : NoTurn \notin TurnAt(p)
  /\ Absent.status = "absent"
<1>1. Absent.status = "absent"
  BY DEF Absent
<1>2. \A o : Absent \notin InstanceWith(o)
  BY DEF Absent, InstanceWith
<1>3. ASSUME NEW p
      PROVE  NoTurn \notin TurnAt(p)
  <2>1. "step" \notin DOMAIN NoTurn
    BY DEF NoTurn
  <2>2. \A t \in TurnAt(p) : "step" \in DOMAIN t
    BY DEF TurnAt
  <2> QED BY <2>1, <2>2
<1> QED BY <1>1, <1>2, <1>3

\* A run is where it was when nothing of it changed, or its replay was dropped.
LEMMA Still ==
  ASSUME NEW j, RunInv(j), inst'[j] = inst[j], turn'[j] \in {turn[j], NoTurn},
         task'[j] = task[j], touched'[j] = touched[j]
  PROVE  RunInv(j)'
<1>1. \A v, k : Fold(v, j, k)' = Fold(v, j, k) /\ Results(j)' = Results(j)
  BY DEF Fold, Results
<1>2. Scheduled(j)'
  BY DEF RunInv, Scheduled, Replaying
<1>3. OnCourse(j)'
  BY <1>1 DEF RunInv, OnCourse, Replaying, Current
<1>4. (inst[j] # Absent => Concluded(j))'
  BY <1>1 DEF RunInv, Concluded
<1>5. ASSUME NEW v \in Version, inst'[j] # Absent, touched'[j] \subseteq {v}
      PROVE  Alone(v, j)'
  <2>1. Alone(v, j)
    BY <1>5 DEF RunInv
  <2>2. OwnRun(v, j)'
    BY <2>1 DEF Alone, OwnRun, Has, Fold, Results
  <2> QED BY <1>1, <2>1, <2>2 DEF Alone, Has
<1> QED BY <1>2, <1>3, <1>4, <1>5 DEF RunInv

LEMMA RInit == Init => RInv
<1> SUFFICES ASSUME Init PROVE RInv
  OBVIOUS
<1>1. Typed
  BY DEF Init, Typed, Up, Replaying
<1>2. ASSUME NEW i \in InstanceId
      PROVE  RunInv(i)
  BY DEF Init, RunInv, Scheduled, OnCourse, Replaying
<1> QED BY <1>1, <1>2 DEF RInv

\* Runners and processes come and go: no run but loses its replay.
LEMMA RunnersInv ==
  ASSUME RInv, NEW w \in Worker, NewRunner(w) \/ Close(w)
  PROVE  RInv'
<1> USE RolloutAssumption DEF RInv
<1>1. CASE NewRunner(w)
  <2>1. PICK v \in Built[w] : /\ worker' = [worker EXCEPT ![w] = v]
                              /\ graphs' = [graphs EXCEPT ![ProcessOf[w]] = v]
    BY <1>1 DEF NewRunner, Registered
  <2>2. v \in Version /\ v # None /\ ProcessOf[w] \in Process
    OBVIOUS
  <2>3. \A u \in Worker : Up(u)' => LookupGraph(u)' # None
    BY <2>1, <2>2 DEF Typed, Up, LookupGraph
  <2>4. Typed'
    BY <1>1, <2>1, <2>2, <2>3 DEF NewRunner, Typed, Replaying
  <2>5. \A i \in InstanceId : RunInv(i)'
    BY <1>1, Still DEF NewRunner
  <2> QED BY <2>4, <2>5
<1>2. CASE Close(w)
  <2>1. \A u \in Worker : Up(u)' => LookupGraph(u)' # None
    BY <1>2 DEF Close, Typed, Up, LookupGraph
  <2>2. /\ turn' = [i \in InstanceId |-> turn'[i]]
        /\ \A i \in InstanceId : turn'[i] \in {turn[i], NoTurn}
    BY <1>2 DEF Close, Drop
  <2>3. Typed'
    BY <1>2, <2>1, <2>2 DEF Close, Typed, Replaying
  <2>4. \A i \in InstanceId : RunInv(i)'
    BY <1>2, <2>2, Still DEF Close
  <2> QED BY <2>3, <2>4
<1> QED BY <1>1, <1>2

LEMMA StopInv ==
  ASSUME RInv, NEW p \in Process, StopProcess(p)
  PROVE  RInv'
<1> USE RolloutAssumption DEF RInv
<1>1. \A u \in Worker : Up(u)' => LookupGraph(u)' # None
  BY DEF StopProcess, Typed, Up, LookupGraph
<1>2. /\ turn' = [i \in InstanceId |-> turn'[i]]
      /\ \A i \in InstanceId : turn'[i] \in {turn[i], NoTurn}
  BY DEF StopProcess, Drop
<1>3. Typed'
  BY <1>1, <1>2 DEF StopProcess, Typed, Replaying
<1>4. \A i \in InstanceId : RunInv(i)'
  BY <1>2, Still DEF StopProcess
<1> QED BY <1>3, <1>4

\* A run that is created has done nothing yet.
LEMMA CreateInv ==
  ASSUME RInv, NEW w \in Worker, NEW i \in InstanceId, Invoke(w, i)
  PROVE  RInv'
<1> USE RolloutAssumption DEF RInv
<1>1. /\ worker[w] \in Version /\ worker[w] # None /\ ProcessOf[w] \in Process
      /\ graphs' = [graphs EXCEPT ![ProcessOf[w]] = worker[w]]
      /\ worker' = worker
  BY DEF Invoke, Registered, Up, Typed
<1>2. /\ graphs' \in [Process -> Version \cup {None}]
      /\ \A u \in Worker : Up(u)' => LookupGraph(u)' # None
  BY <1>1 DEF Typed, Up, LookupGraph
<1>3. CASE UNCHANGED inst
  <2>1. Typed'
    BY <1>1, <1>2, <1>3 DEF Invoke, Typed, Replaying
  <2>2. \A j \in InstanceId : RunInv(j)'
    BY <1>3, Still DEF Invoke
  <2> QED BY <2>1, <2>2
<1>4. CASE inst[i] = Absent /\ inst' = [inst EXCEPT ![i] = Created]
  <2>1. /\ inst' = [j \in InstanceId |-> inst'[j]]
        /\ \A j \in InstanceId : inst'[j] = IF j = i THEN Created ELSE inst[j]
    BY <1>4 DEF Typed
  <2>2. Created \in InstanceWith(Created.output)
    <3>1. <<>> \in Seq(Result)
      OBVIOUS
    <3> QED BY <3>1 DEF Created, InstanceWith
  <2>3. Typed'
    BY <1>1, <1>2, <2>1, <2>2 DEF Invoke, Typed, Replaying
  <2>4. RunInv(i)'
    <3>1. /\ inst'[i] = Created /\ task'[i] = None /\ ~Replaying(i)'
      BY <1>4, <2>1 DEF Invoke, RunInv, Scheduled, Replaying
    <3>2. /\ Created.status = "running" /\ Created.fails = 0 /\ Created.due = TRUE
          /\ Created.reason = "none" /\ Created.results = <<>>
      BY DEF Created
    <3>3. \A v \in Version : Alone(v, i)'
      BY <3>1, <3>2 DEF Alone, OwnRun, Results
    <3>4. Scheduled(i)' /\ OnCourse(i)' /\ Concluded(i)'
      BY <3>1, <3>2 DEF Scheduled, OnCourse, Concluded
    <3> QED BY <3>3, <3>4 DEF RunInv
  <2>5. \A j \in InstanceId : j # i => RunInv(j)'
    BY <2>1, Still DEF Invoke
  <2> QED BY <2>3, <2>4, <2>5
<1> QED BY <1>3, <1>4 DEF Invoke

-----------------------------------------------------------------------------
(* The steps of a run *)

\* A step of one run leaves the others as they are.
LEMMA OneRunMoves ==
  ASSUME RInv, NEW i \in InstanceId, NEW r, r \in InstanceWith(r.output),
         inst' = [inst EXCEPT ![i] = r],
         NEW t, t = NoTurn \/ t \in TurnAt(t.pos), turn' = [turn EXCEPT ![i] = t],
         NEW n, task' = [task EXCEPT ![i] = n],
         NEW vs \in SUBSET Version, touched' = [touched EXCEPT ![i] = @ \cup vs],
         UNCHANGED <<worker, graphs>>, RunInv(i)'
  PROVE  RInv'
<1>1. /\ inst' = [j \in InstanceId |-> inst'[j]] /\ turn' = [j \in InstanceId |-> turn'[j]]
      /\ task' = [j \in InstanceId |-> task'[j]]
      /\ touched' \in [InstanceId -> SUBSET Version]
      /\ \A j \in InstanceId : inst'[j] = IF j = i THEN r ELSE inst[j]
      /\ \A j \in InstanceId : turn'[j] = IF j = i THEN t ELSE turn[j]
      /\ \A j \in InstanceId : j # i => task'[j] = task[j] /\ touched'[j] = touched[j]
  BY DEF RInv, Typed
<1>2. \A j \in InstanceId :
        /\ inst'[j] # Absent => inst'[j] \in InstanceWith(inst'[j].output)
        /\ turn'[j] # NoTurn => turn'[j] \in TurnAt(turn'[j].pos)
  BY <1>1 DEF RInv, Typed, Replaying
<1>3. \A w \in Worker : Up(w)' => LookupGraph(w)' # None
  BY DEF RInv, Typed, Up, LookupGraph
<1>4. Typed'
  BY <1>1, <1>2, <1>3 DEF RInv, Typed, Replaying
<1>5. \A j \in InstanceId : j # i => RunInv(j)'
  BY <1>1, Still DEF RInv
<1> QED BY <1>4, <1>5 DEF RInv

LEMMA InstanceFields ==
  ASSUME NEW o, NEW x \in InstanceWith(o)
  PROVE  /\ x.results \in Seq(Result) /\ Len(x.results) \in Nat
         /\ x.fails \in Nat /\ x.due \in BOOLEAN
         /\ x.status \in {"running", "completed", "failed"}
<1>1. x.results \in Seq(Result) /\ x.fails \in Nat /\ x.due \in BOOLEAN
      /\ x.status \in {"running", "completed", "failed"}
  BY DEF InstanceWith
<1>2. \A rs \in Seq(Result) : Len(rs) \in Nat
  OBVIOUS
<1> QED BY <1>1, <1>2

\* What is known of a run that is replayed.
LEMMA ReplayFacts ==
  ASSUME RInv, NEW i \in InstanceId, Replaying(i)
  PROVE  /\ inst[i] \in InstanceWith(inst[i].output) /\ inst[i] # Absent
         /\ turn[i] \in TurnAt(turn[i].pos)
         /\ turn[i].cg \in Version /\ turn[i].step \in 0..Len(Results(i))
         /\ Results(i) \in Seq(Result) /\ Len(Results(i)) \in Nat
         /\ task[i] = None /\ inst[i].due /\ inst[i].status = "running"
         /\ inst[i].reason = "none"
         /\ touched[i] \in SUBSET Version
<1>1. inst[i] # Absent /\ turn[i] \in TurnAt(turn[i].pos)
  BY DEF RInv, Typed, RunInv, Scheduled
<1>2. inst[i] \in InstanceWith(inst[i].output)
  BY <1>1 DEF RInv, Typed
<1>3. Results(i) \in Seq(Result) /\ Len(Results(i)) \in Nat
  BY <1>2, InstanceFields DEF Results
<1>4. turn[i].cg \in Version
  BY <1>1 DEF TurnAt
<1> QED BY <1>1, <1>2, <1>3, <1>4 DEF RInv, Typed, RunInv, Scheduled, OnCourse

\* A version's routing leads from its nodes to its nodes, to END or to an error.
LEMMA RoutesOn ==
  ASSUME NEW v \in Version, NEW pos, NEW u, Has(v, pos.current)
  PROVE  Step(v, pos, u).current \in Targets(Program[v]) \cup {RouteError}
<1> DEFINE s == ApplyUpdates(Program[v], pos.state, u)
<1>1. Step(v, pos, u).current = Next(Program[v], pos.current, s)
  BY DEF Step
<1>2. WellFormed(Program[v]) /\ pos.current \in Program[v].nodes
  BY RolloutAssumption DEF Has
<1> HIDE DEF s
<1>3. Next(Program[v], pos.current, s) \in Targets(Program[v]) \cup {RouteError}
  BY <1>2 DEF WellFormed, Next, Targets
<1> QED BY <1>1, <1>3

\* A replay that does not stand at an end stands at a node of its version.
LEMMA AtItsNode ==
  ASSUME RInv, NEW i \in InstanceId, Replaying(i), Current(i) \notin {END, RouteError}
  PROVE  Has(turn[i].cg, Current(i))
BY DEF RInv, RunInv, OnCourse, Targets, Has

\* A replay of a run that v worked on alone is v's.
LEMMA ItsOwn ==
  ASSUME RInv, NEW i \in InstanceId, Replaying(i), NEW v \in Version,
         touched[i] \subseteq {v}
  PROVE  turn[i].cg = v /\ Alone(v, i)
BY ReplayFacts DEF RInv, RunInv, OnCourse

\* A new replay stands at the entry.
LEMMA BeginInv ==
  ASSUME RInv, NEW w \in Worker, NEW i \in InstanceId, BeginReplay(w, i)
  PROVE  RInv'
<1> DEFINE v == LookupGraph(w)
           t == [worker |-> w, cg |-> v, pos |-> Start(v), step |-> 0]
<1>1. /\ v \in Version /\ inst[i] # Absent /\ inst[i].due
      /\ turn' = [turn EXCEPT ![i] = t]
      /\ touched' = [touched EXCEPT ![i] = @ \cup {v}]
      /\ UNCHANGED <<worker, graphs, inst, task>>
  BY RolloutAssumption DEF BeginReplay, RInv, Typed, Touch, LookupGraph
<1>2. t \in TurnAt(t.pos) /\ t.cg = v /\ t.step = 0 /\ t.pos = Start(v)
  BY <1>1 DEF TurnAt
<1> HIDE DEF t, v
<1>3. /\ inst[i] \in InstanceWith(inst[i].output)
      /\ inst' = [inst EXCEPT ![i] = inst[i]] /\ task' = [task EXCEPT ![i] = task[i]]
  BY <1>1 DEF RInv, Typed
<1>4. Results(i) \in Seq(Result) /\ Len(Results(i)) \in Nat
  BY <1>3, InstanceFields DEF Results
<1>5. turn'[i] = t /\ touched'[i] = touched[i] \cup {v} /\ inst'[i] = inst[i]
      /\ task'[i] = task[i]
  BY <1>1 DEF RInv, Typed
<1>6. Fold(v, i, 0) = Start(v)
  BY <1>4, CourseDef DEF Fold
<1>7. Start(v).current \in Targets(Program[v])
  BY <1>1, RolloutAssumption DEF Start, WellFormed, Targets
<1>8. Scheduled(i)'
  BY <1>1, <1>5 DEF RInv, RunInv, Scheduled
<1>9. OnCourse(i)'
  BY <1>2, <1>4, <1>5, <1>6, <1>7 DEF OnCourse, Current, Results, Fold
<1>10. (inst[i] # Absent => Concluded(i))'
  BY <1>1, <1>5 DEF RInv, RunInv, Concluded, Results, Fold, Has
<1>11. ASSUME NEW u \in Version, touched'[i] \subseteq {u}
       PROVE  Alone(u, i)'
  <2>1. Alone(u, i)
    BY <1>1, <1>5, <1>11 DEF RInv, RunInv
  <2> QED BY <1>5, <2>1 DEF Alone, OwnRun, Has, Fold, Results
<1>12. RunInv(i)'
  BY <1>8, <1>9, <1>10, <1>11 DEF RunInv
<1>13. {v} \in SUBSET Version /\ UNCHANGED <<worker, graphs>>
  BY <1>1
<1> QED BY <1>1, <1>2, <1>3, <1>12, <1>13, OneRunMoves

\* The replay after a pass of the loop.
LEMMA TurnMoves ==
  ASSUME NEW q, NEW x \in TurnAt(q), NEW pos, NEW n
  PROVE  [x EXCEPT !.pos = pos, !.step = n]
           = [worker |-> x.worker, cg |-> x.cg, pos |-> pos, step |-> n]
<1>1. PICK w, c, k : x = [worker |-> w, cg |-> c, pos |-> q, step |-> k]
  BY DEF TurnAt
<1>2. [x EXCEPT !.pos = pos, !.step = n]
        \in [worker : {w}, cg : {c}, pos : {pos}, step : {n}]
  BY ONLY <1>1
<1>3. \A y \in [worker : {w}, cg : {c}, pos : {pos}, step : {n}] :
        y = [worker |-> w, cg |-> c, pos |-> pos, step |-> n]
  BY ONLY TRUE
<1>4. x.worker = w /\ x.cg = c
  BY ONLY <1>1
<1> QED BY <1>2, <1>3, <1>4

\* A recorded result takes a replay one step along its version's course.
LEMMA IterateInv ==
  ASSUME RInv, NEW i \in InstanceId, Iterate(i)
  PROVE  RInv'
<1> DEFINE x  == turn[i]
           v  == x.cg
           n  == x.step
           p  == Step(v, x.pos, Results(i)[n + 1].updates)
           n1 == n + 1
           t  == [worker |-> x.worker, cg |-> v, pos |-> p, step |-> n1]
<1>1. /\ Replaying(i) /\ Current(i) \notin {END, RouteError} /\ n < Len(Results(i))
      /\ UNCHANGED <<worker, graphs, inst, task, touched>>
  BY DEF Iterate, AtNode
<1>2. /\ inst[i] \in InstanceWith(inst[i].output) /\ x \in TurnAt(x.pos)
      /\ v \in Version /\ n \in Nat /\ Results(i) \in Seq(Result)
      /\ Len(Results(i)) \in Nat
  BY <1>1, ReplayFacts
<1>3. turn' = [turn EXCEPT ![i] = [x EXCEPT !.pos = p, !.step = n1]]
  BY DEF Iterate, CapturedGraph, Recorded, RInv, Typed
<1>4. t = [x EXCEPT !.pos = p, !.step = n1]
  BY <1>2, TurnMoves
<1>5. /\ x.worker \in Worker /\ n1 \in Nat /\ n \in 0..Len(Results(i)) - 1
      /\ n1 \in 0..Len(Results(i))
      /\ \A j \in 0..n1 - 1 : j = n \/ j \in 0..n - 1
  BY <1>1, <1>2 DEF TurnAt
<1>6. /\ x.pos = Fold(v, i, n) /\ v \in touched[i]
      /\ \A j \in 0..n - 1 : Has(v, Fold(v, i, j).current)
  BY <1>1 DEF RInv, RunInv, OnCourse
<1>7. Has(v, x.pos.current)
  BY <1>1, AtItsNode DEF Current
<1>8. p.current \in Targets(Program[v]) \cup {RouteError}
  BY <1>2, <1>7, RoutesOn
<1>9. p = Fold(v, i, n1)
  BY <1>2, <1>5, <1>6, CourseDef DEF Fold
<1> HIDE DEF p, n1
<1>10. /\ t \in TurnAt(t.pos) /\ t.cg = v /\ t.step = n1 /\ t.pos = p
  BY <1>2, <1>5 DEF TurnAt
<1>11. turn' = [turn EXCEPT ![i] = t]
  BY <1>3, <1>4
<1> HIDE DEF t
<1>12. /\ inst' = [inst EXCEPT ![i] = inst[i]] /\ task' = [task EXCEPT ![i] = task[i]]
       /\ touched' = [touched EXCEPT ![i] = @ \cup {}] /\ turn'[i] = t
  BY <1>1, <1>11 DEF RInv, Typed
<1>13. Scheduled(i)'
  BY <1>1, ReplayFacts DEF Scheduled
<1>14. OnCourse(i)'
  <2>1. \A j \in 0..n1 - 1 : Has(v, Fold(v, i, j).current)
    BY <1>5, <1>6, <1>7
  <2> QED BY <1>1, <1>5, <1>6, <1>8, <1>9, <1>10, <1>12, <2>1
          DEF OnCourse, Current, Results, Fold, Has
<1>15. (inst[i] # Absent => Concluded(i))'
  BY <1>1 DEF RInv, RunInv, Concluded, Results, Fold, Has
<1>16. ASSUME NEW u \in Version, touched'[i] \subseteq {u}
       PROVE  Alone(u, i)'
  <2>1. Alone(u, i)
    BY <1>1, <1>16, ItsOwn
  <2> QED BY <1>1, <2>1 DEF Alone, OwnRun, Has, Fold, Results
<1>17. RunInv(i)' /\ {} \in SUBSET Version /\ UNCHANGED <<worker, graphs>>
  BY <1>1, <1>13, <1>14, <1>15, <1>16 DEF RunInv
<1> QED BY <1>2, <1>10, <1>11, <1>12, <1>17, OneRunMoves

\* The node a replay has come to becomes the one that is to run.
LEMMA ScheduleInv ==
  ASSUME RInv, NEW i \in InstanceId, ScheduleNode(i)
  PROVE  RInv'
<1> DEFINE v == turn[i].cg
           n == Len(Results(i))
<1>1. /\ Replaying(i) /\ Current(i) \notin {END, RouteError} /\ turn[i].step = n
      /\ UNCHANGED <<worker, graphs, touched>>
      /\ task' = [task EXCEPT ![i] = Current(i)] /\ turn' = [turn EXCEPT ![i] = NoTurn]
  BY DEF ScheduleNode, AtNode
<1>2. PICK x, o : x = inst[i] /\ x \in InstanceWith(o)
  BY <1>1, ReplayFacts
<1>3. /\ x.status = "running" /\ x.reason = "none" /\ n \in Nat
      /\ x.results = Results(i)
  BY <1>1, <1>2, ReplayFacts DEF Results
<1>4. PICK r : r = [x EXCEPT !.due = FALSE]
  OBVIOUS
<1>5. /\ r \in InstanceWith(o) /\ r.status = x.status /\ r.reason = x.reason
       /\ r.output = o /\ r.due = FALSE /\ r.results = x.results /\ r.fails = x.fails
  BY <1>2, <1>4 DEF InstanceWith
<1>6. inst' = [inst EXCEPT ![i] = r]
  BY <1>2, <1>4 DEF ScheduleNode, RInv, Typed
<1>7. /\ inst'[i] = r /\ turn'[i] = NoTurn /\ task'[i] = Current(i)
      /\ touched'[i] = touched[i] /\ touched' = [touched EXCEPT ![i] = @ \cup {}]
  BY <1>1, <1>6 DEF RInv, Typed
<1>8. Has(v, Current(i)) /\ Current(i) = Fold(v, i, n).current
  BY <1>1, AtItsNode DEF RInv, RunInv, OnCourse, Current
<1>9. Scheduled(i)' /\ OnCourse(i)' /\ Concluded(i)'
  BY <1>3, <1>5, <1>7 DEF Scheduled, OnCourse, Concluded, Replaying, Absent
<1>10. ASSUME NEW u \in Version, touched'[i] \subseteq {u}
      PROVE  Alone(u, i)'
  <2>1. Alone(u, i) /\ u = v
    BY <1>1, <1>7, <1>10, ItsOwn
  <2>2. /\ inst'[i].results = inst[i].results /\ inst'[i].reason = inst[i].reason
        /\ inst'[i].fails = inst[i].fails
    BY <1>2, <1>5, <1>7
  <2>3. OwnRun(u, i)'
    BY <2>1, <2>2 DEF Alone, OwnRun, Has, Fold, Results
  <2>4. inst'[i].fails = 0
    BY <2>1, <2>2 DEF Alone
  <2>5. task'[i] = Fold(u, i, Len(Results(i)))'.current /\ Has(u, task'[i])
    BY <1>7, <1>8, <2>1, <2>2 DEF Fold, Results
  <2> QED BY <2>3, <2>4, <2>5 DEF Alone, Has
<1>11. RunInv(i)' /\ {} \in SUBSET Version /\ UNCHANGED <<worker, graphs>>
  BY <1>1, <1>9, <1>10 DEF RunInv
<1> QED BY <1>1, <1>5, <1>6, <1>7, <1>11, OneRunMoves

\* A run ends where its replay says so; of a run that one version worked on alone,
\* only that version's own reasons are given.
LEMMA EndInv ==
  ASSUME RInv, NEW i \in InstanceId, Replaying(i),
         NEW s \in {"completed", "failed"},
         NEW why \in {"none", "node", "route", "max steps", "mismatch"}, NEW out,
         EndRun(i, s, why, out),
         s = "completed" => Current(i) = END /\ out = turn[i].pos.state,
         \A v \in Version : touched[i] \subseteq {v} =>
           /\ why \in {"none", "route", "max steps"}
           /\ why = "route" => Fold(v, i, Len(Results(i))).current = RouteError
  PROVE  RInv'
<1>1. /\ task[i] = None /\ UNCHANGED <<worker, graphs, task, touched>>
      /\ turn' = [turn EXCEPT ![i] = NoTurn]
  BY ReplayFacts DEF EndRun
<1>2. PICK x, o : x = inst[i] /\ x \in InstanceWith(o)
  BY ReplayFacts
<1>3. PICK r : r = [x EXCEPT !.status = s, !.reason = why, !.output = out, !.due = FALSE]
  OBVIOUS
<1>4. /\ r \in InstanceWith(out) /\ r.status = s /\ r.reason = why /\ r.output = out
      /\ r.due = FALSE /\ r.results = x.results /\ r.fails = x.fails
  BY <1>2, <1>3 DEF InstanceWith
<1>5. inst' = [inst EXCEPT ![i] = r]
  BY <1>2, <1>3 DEF EndRun, RInv, Typed
<1>6. /\ inst'[i] = r /\ turn'[i] = NoTurn /\ task'[i] = None
      /\ task' = [task EXCEPT ![i] = None]
      /\ touched'[i] = touched[i] /\ touched' = [touched EXCEPT ![i] = @ \cup {}]
  BY <1>1, <1>5 DEF RInv, Typed
<1>7. inst'[i].results = inst[i].results /\ inst'[i].fails = inst[i].fails
  BY <1>2, <1>4, <1>6
<1>8. Scheduled(i)' /\ OnCourse(i)'
  BY <1>4, <1>6 DEF Scheduled, OnCourse, Replaying
<1>9. Concluded(i)'
  <2> SUFFICES ASSUME inst'[i].status = "completed" PROVE Concluded(i)'
    BY DEF Concluded
  <2>1. Current(i) = END /\ out = turn[i].pos.state /\ inst'[i].output = out
    BY <1>4, <1>6
  <2> DEFINE v == turn[i].cg
             k == turn[i].step
  <2>2. /\ v \in Version /\ k \in 0..Len(Results(i)) /\ turn[i].pos = Fold(v, i, k)
        /\ \A j \in 0..k - 1 : Has(v, Fold(v, i, j).current)
    BY ReplayFacts DEF RInv, RunInv, OnCourse
  <2>3. turn[i].pos.current = END /\ turn[i].pos.state = out
    BY <2>1 DEF Current
  <2> HIDE DEF v, k
  <2> QED BY <1>7, <2>1, <2>2, <2>3 DEF Concluded, Fold, Results, Has
<1>10. ASSUME NEW u \in Version, touched'[i] \subseteq {u}
       PROVE  Alone(u, i)'
  <2>1. Alone(u, i)
    BY <1>6, <1>10, ItsOwn
  <2>2. /\ why \in {"none", "route", "max steps"}
        /\ why = "route" => Fold(u, i, Len(Results(i))).current = RouteError
        /\ inst'[i].reason = why
    BY <1>4, <1>6, <1>10
  <2>3. OwnRun(u, i)'
    BY <1>7, <2>1, <2>2 DEF Alone, OwnRun, Has, Fold, Results
  <2> QED BY <1>6, <1>7, <2>1, <2>3 DEF Alone
<1>11. RunInv(i)' /\ {} \in SUBSET Version /\ UNCHANGED <<worker, graphs>>
  BY <1>1, <1>8, <1>9, <1>10 DEF RunInv
<1> QED BY <1>1, <1>4, <1>5, <1>6, <1>11, OneRunMoves

\* The ends of a run, one by one.
LEMMA EndsInv ==
  ASSUME RInv, NEW i \in InstanceId,
         \/ EngineRefuses(i) \/ NodeFailed(i) \/ MaxStepsExceeded(i)
         \/ RoutingFailed(i) \/ FinishRun(i)
  PROVE  RInv'
<1>1. CASE EngineRefuses(i)
  <2>1. /\ Replaying(i) /\ turn[i].step < Len(Results(i))
        /\ Results(i)[turn[i].step + 1].node # Current(i)
        /\ EndRun(i, "failed", "mismatch", Input)
    BY <1>1 DEF EngineRefuses, AtNode, Recorded
  <2>2. ASSUME NEW v \in Version, touched[i] \subseteq {v}
        PROVE  FALSE
    <3>1. turn[i].cg = v /\ Alone(v, i)
      BY <2>1, <2>2, ItsOwn
    <3>2. /\ turn[i].step + 1 \in 1..Len(Results(i)) /\ (turn[i].step + 1) - 1 = turn[i].step
          /\ DOMAIN Results(i) = 1..Len(Results(i))
      BY <2>1, ReplayFacts
    <3>3. Results(i)[turn[i].step + 1].node = Fold(v, i, turn[i].step).current
      <4>1. PICK m : m = turn[i].step + 1
        OBVIOUS
      <4>2. m \in DOMAIN Results(i) /\ m - 1 = turn[i].step
        BY <3>2, <4>1
      <4>3. \A k \in DOMAIN Results(i) :
              Results(i)[k] = [node |-> Fold(v, i, k - 1).current,
                               updates |-> Output[v][Fold(v, i, k - 1).current]]
        BY <3>1, Zenon DEF Alone, OwnRun
      <4>4. Results(i)[m].node = Fold(v, i, m - 1).current
        BY <4>2, <4>3
      <4> QED BY <4>1, <4>2, <4>4
    <3>4. Current(i) = Fold(v, i, turn[i].step).current
      BY <2>1, <3>1 DEF RInv, RunInv, OnCourse, Current
    <3> QED BY <2>1, <3>3, <3>4
  <2> QED BY <2>1, <2>2, EndInv
<1>2. CASE NodeFailed(i)
  <2>1. /\ Replaying(i) /\ inst[i].fails = MaxAttempts
        /\ EndRun(i, "failed", "node", Input)
    BY <1>2 DEF NodeFailed, AtNode
  <2>2. ASSUME NEW v \in Version, touched[i] \subseteq {v}
        PROVE  FALSE
    <3>1. inst[i].fails = 0
      BY <2>1, <2>2, ItsOwn DEF Alone
    <3> QED BY <2>1, <3>1, RolloutAssumption
  <2> QED BY <2>1, <2>2, EndInv
<1>3. CASE MaxStepsExceeded(i)
  BY <1>3, EndInv DEF MaxStepsExceeded
<1>4. CASE RoutingFailed(i)
  <2>1. /\ Replaying(i) /\ Current(i) = RouteError
        /\ EndRun(i, "failed", "route", Input)
    BY <1>4 DEF RoutingFailed
  <2>2. ASSUME NEW v \in Version, touched[i] \subseteq {v}
        PROVE  Fold(v, i, Len(Results(i))).current = RouteError
    <3>1. turn[i].cg = v /\ Alone(v, i)
      BY <2>1, <2>2, ItsOwn
    <3>2. /\ turn[i].step \in 0..Len(Results(i)) /\ Len(Results(i)) \in Nat
          /\ DOMAIN Results(i) = 1..Len(Results(i))
      BY <2>1, ReplayFacts
    <3>3. Fold(v, i, turn[i].step).current = RouteError
      BY <2>1, <3>1 DEF RInv, RunInv, OnCourse, Current
    <3>4. ASSUME turn[i].step # Len(Results(i))
          PROVE  FALSE
      <4>1. turn[i].step + 1 \in DOMAIN Results(i) /\ (turn[i].step + 1) - 1 = turn[i].step
        BY <3>2, <3>4
      <4>2. Has(v, Fold(v, i, turn[i].step).current)
        BY <3>1, <4>1 DEF Alone, OwnRun
      <4> QED BY <3>3, <4>2, RolloutAssumption DEF Has
    <3> QED BY <3>3, <3>4
  <2> QED BY <2>1, <2>2, EndInv
<1>5. CASE FinishRun(i)
  BY <1>5, EndInv DEF FinishRun
<1> QED BY <1>1, <1>2, <1>3, <1>4, <1>5

\* Who runs a node is a version, with a graph that is one.
LEMMA TaskFacts ==
  ASSUME RInv, NEW w \in Worker, NEW i \in InstanceId, TakeTask(w, i)
  PROVE  /\ worker[w] \in Version /\ LookupGraph(w) \in Version
         /\ UNCHANGED <<worker, graphs, turn>> /\ turn[i] = NoTurn
         /\ task[i] # None /\ task' = [task EXCEPT ![i] = None]
         /\ {worker[w], LookupGraph(w)} \in SUBSET Version
         /\ touched' = [touched EXCEPT ![i] = @ \cup {worker[w], LookupGraph(w)}]
         /\ touched'[i] = touched[i] \cup {worker[w], LookupGraph(w)}
         /\ inst[i] # Absent /\ inst[i] \in InstanceWith(inst[i].output)
         /\ inst[i].status = "running" /\ inst[i].reason = "none"
<1>1. /\ worker[w] \in Version /\ LookupGraph(w) \in Version
      /\ UNCHANGED <<worker, graphs, turn>> /\ task[i] # None
      /\ task' = [task EXCEPT ![i] = None]
      /\ touched' = [touched EXCEPT ![i] = @ \cup {worker[w], LookupGraph(w)}]
  BY RolloutAssumption DEF TakeTask, Touch, RInv, Typed, Up, LookupGraph
<1>2. turn[i] = NoTurn
  BY <1>1, ReplayFacts DEF Replaying
<1>3. inst[i] # Absent /\ inst[i] \in InstanceWith(inst[i].output)
  BY <1>1 DEF RInv, Typed, RunInv, Scheduled
<1>4. inst[i].status = "running" /\ inst[i].reason = "none"
  BY <1>1, <1>3 DEF RInv, RunInv, Scheduled
<1>5. touched'[i] = touched[i] \cup {worker[w], LookupGraph(w)}
  BY <1>1 DEF RInv, Typed
<1> QED BY <1>1, <1>2, <1>3, <1>4, <1>5

\* What the node function of a version returned becomes a result.
LEMMA RunNodeInv ==
  ASSUME RInv, NEW w \in Worker, NEW i \in InstanceId, RunNode(w, i)
  PROVE  RInv'
<1> DEFINE g == LookupGraph(w)
<1>1. /\ worker[w] \in Version /\ g \in Version
      /\ UNCHANGED <<worker, graphs>> /\ turn' = turn /\ turn[i] = NoTurn
      /\ task[i] # None /\ task' = [task EXCEPT ![i] = None]
      /\ {worker[w], g} \in SUBSET Version
      /\ touched' = [touched EXCEPT ![i] = @ \cup {worker[w], g}]
      /\ touched'[i] = touched[i] \cup {worker[w], g}
      /\ inst[i] # Absent /\ inst[i].status = "running" /\ inst[i].reason = "none"
  BY TaskFacts DEF RunNode
<1>2. PICK x, o : x = inst[i] /\ x \in InstanceWith(o)
  BY TaskFacts DEF RunNode
<1>3. PICK res : res = [node |-> task[i], updates |-> Output[g][task[i]]]
  OBVIOUS
<1>4. res \in Result
  <2>1. task[i] \in UNION {Program[v].nodes : v \in Version}
    BY <1>1 DEF RunNode, CanRun, Has
  <2> HIDE DEF g
  <2> QED BY <1>1, <1>3, <2>1 DEF Result
<1>5. PICK rs \in Seq(Result), ss \in Seq(Result) :
        rs = x.results /\ ss = Append(rs, res)
  <2>1. x.results \in Seq(Result)
    BY <1>2, InstanceFields
  <2>2. Append(x.results, res) \in Seq(Result)
    BY <1>4, <2>1
  <2> QED BY <2>1, <2>2
<1>6. PICK r : r = [x EXCEPT !.fails = 0, !.due = TRUE, !.results = ss]
  OBVIOUS
<1>7. /\ r \in InstanceWith(o) /\ r.status = x.status /\ r.reason = x.reason
      /\ r.output = o /\ r.due = TRUE /\ r.results = ss /\ r.fails = 0
  BY <1>2, <1>5, <1>6 DEF InstanceWith
<1>8. inst' = [inst EXCEPT ![i] = r]
  BY <1>2, <1>3, <1>5, <1>6 DEF RunNode, RInv, Typed
<1>9. /\ inst'[i] = r /\ turn' = [turn EXCEPT ![i] = NoTurn] /\ task'[i] = None
  BY <1>1, <1>8 DEF RInv, Typed
<1>10. Scheduled(i)' /\ OnCourse(i)' /\ Concluded(i)'
  BY <1>1, <1>2, <1>7, <1>9 DEF Scheduled, OnCourse, Concluded, Replaying
<1>11. ASSUME NEW u \in Version, touched'[i] \subseteq {u}
       PROVE  Alone(u, i)'
  <2>1. Alone(u, i) /\ g = u
    BY <1>1, <1>11 DEF RInv, RunInv
  <2> DEFINE n == Len(rs)
  <2>2. /\ n \in Nat /\ Len(ss) = n + 1 /\ DOMAIN ss = 1..n + 1 /\ DOMAIN rs = 1..n
        /\ ss[n + 1] = res /\ \A k \in 1..n : ss[k] = rs[k]
    BY <1>4, <1>5
  <2>3. \A k \in 0..n : Course(u, ss)[k] = Course(u, rs)[k]
    BY <1>4, <1>5, CourseAppend
  <2>4. /\ Results(i) = rs /\ Results(i)' = ss
        /\ inst'[i].reason = "none" /\ inst'[i].fails = 0
    BY <1>1, <1>2, <1>5, <1>7, <1>9 DEF Results
  <2>5. /\ \A k \in 1..n : LET at == Course(u, rs)[k - 1].current
                           IN  Has(u, at) /\ rs[k] = [node |-> at, updates |-> Output[u][at]]
        /\ task[i] = Course(u, rs)[n].current /\ Has(u, task[i])
    BY <1>1, <2>1, <2>2, <2>4 DEF Alone, OwnRun, Fold
  <2> HIDE DEF n
  <2>6. ASSUME NEW k \in 1..n + 1
        PROVE  LET at == Course(u, ss)[k - 1].current
               IN  Has(u, at) /\ ss[k] = [node |-> at, updates |-> Output[u][at]]
    <3>1. CASE k \in 1..n
      <4>1. k - 1 \in 0..n
        BY <2>2, <3>1
      <4> QED BY <2>2, <2>3, <2>5, <3>1, <4>1
    <3>2. CASE k = n + 1
      <4>1. k - 1 = n /\ n \in 0..n
        BY <2>2, <3>2
      <4>2. Course(u, ss)[k - 1].current = task[i] /\ ss[k] = res
        BY <2>2, <2>3, <2>5, <3>2, <4>1
      <4> QED BY <1>3, <2>1, <2>5, <4>2
    <3> QED BY <2>2, <3>1, <3>2
  <2>7. OwnRun(u, i)'
    BY <2>2, <2>4, <2>6 DEF OwnRun, Fold, Has
  <2> QED BY <1>9, <2>4, <2>7 DEF Alone
<1>12. RunInv(i)'
  BY <1>10, <1>11 DEF RunInv
<1> QED BY <1>1, <1>7, <1>8, <1>9, <1>12, OneRunMoves

\* A node that is unknown costs an attempt, and a second version has seen the run.
LEMMA UnknownNodeInv ==
  ASSUME RInv, NEW w \in Worker, NEW i \in InstanceId, UnknownNode(w, i)
  PROVE  RInv'
<1> DEFINE g == LookupGraph(w)
<1>1. /\ worker[w] \in Version /\ g \in Version
      /\ UNCHANGED <<worker, graphs>> /\ turn' = turn /\ turn[i] = NoTurn
      /\ task[i] # None /\ task' = [task EXCEPT ![i] = None]
      /\ {worker[w], g} \in SUBSET Version
      /\ touched' = [touched EXCEPT ![i] = @ \cup {worker[w], g}]
      /\ touched'[i] = touched[i] \cup {worker[w], g}
      /\ inst[i] # Absent /\ inst[i].status = "running" /\ inst[i].reason = "none"
  BY TaskFacts DEF UnknownNode
<1>2. PICK x, o : x = inst[i] /\ x \in InstanceWith(o)
  BY TaskFacts DEF UnknownNode
<1>3. PICK f : f = x.fails + 1 /\ f \in Nat
  BY <1>2, InstanceFields
<1>4. PICK r : r = [x EXCEPT !.fails = f, !.due = TRUE]
  OBVIOUS
<1>5. /\ r \in InstanceWith(o) /\ r.status = x.status /\ r.reason = x.reason
      /\ r.output = o /\ r.due = TRUE /\ r.results = x.results
  BY <1>2, <1>3, <1>4 DEF InstanceWith
<1>6. inst' = [inst EXCEPT ![i] = r]
  BY <1>2, <1>3, <1>4 DEF UnknownNode, FailedAttempts, RInv, Typed
<1>7. /\ inst'[i] = r /\ turn' = [turn EXCEPT ![i] = NoTurn] /\ task'[i] = None
  BY <1>1, <1>6 DEF RInv, Typed
<1>8. Scheduled(i)' /\ OnCourse(i)' /\ Concluded(i)'
  BY <1>1, <1>2, <1>5, <1>7 DEF Scheduled, OnCourse, Concluded, Replaying
<1>9. ASSUME NEW u \in Version, touched'[i] \subseteq {u}
      PROVE  FALSE
  <2>1. Alone(u, i) /\ g = u /\ worker[w] = u
    BY <1>1, <1>9 DEF RInv, RunInv
  <2> QED BY <1>1, <2>1 DEF Alone, UnknownNode, CanRun
<1>10. RunInv(i)'
  BY <1>8, <1>9 DEF RunInv
<1> QED BY <1>1, <1>5, <1>6, <1>7, <1>10, OneRunMoves

-----------------------------------------------------------------------------
(* The theorems *)

LEMMA RNext == RInv /\ [RolloutNext]_vars => RInv'
<1> SUFFICES ASSUME RInv, [RolloutNext]_vars PROVE RInv'
  OBVIOUS
<1>1. CASE UNCHANGED vars
  <2>1. \A i \in InstanceId : RunInv(i)'
    BY <1>1, Still DEF vars, RInv
  <2>2. Typed'
    BY <1>1 DEF vars, RInv, Typed, Up, LookupGraph, Replaying
  <2> QED BY <2>1, <2>2 DEF RInv
<1>2. ASSUME NEW w \in Worker, NewRunner(w) \/ Close(w)
      PROVE  RInv'
  BY <1>2, RunnersInv
<1>3. ASSUME NEW w \in Worker, NEW i \in InstanceId, Invoke(w, i) \/ WorkerStep(w, i)
      PROVE  RInv'
  BY <1>3, CreateInv, BeginInv, RunNodeInv, UnknownNodeInv DEF WorkerStep
<1>4. ASSUME NEW i \in InstanceId, TurnStep(i)
      PROVE  RInv'
  BY <1>4, IterateInv, ScheduleInv, EndsInv DEF TurnStep
<1>5. ASSUME NEW p \in Process, StopProcess(p)
      PROVE  RInv'
  BY <1>5, StopInv
<1> QED BY <1>1, <1>2, <1>3, <1>4, <1>5 DEF RolloutNext, RunStep

LEMMA RInvariance == Spec => []RInv
BY RInit, RNext, PTL DEF Spec

\* Whatever Runners start, close or register under the name meanwhile, a replay
\* stands where one version comes to, and an answer is one version's.
THEOREM OneVersion == Spec => []OneVersionPerReplay
<1>1. ASSUME RInv
      PROVE  OneVersionPerReplay
  <2>1. ASSUME NEW i \in InstanceId, Replaying(i)
        PROVE  \E v \in Version : turn[i].pos = Fold(v, i, turn[i].step)
    BY <1>1, <2>1, ReplayFacts DEF RInv, RunInv, OnCourse
  <2>2. ASSUME NEW i \in InstanceId, inst[i].status = "completed"
        PROVE  Concluded(i)
    BY <1>1, <2>2, NotRecords DEF RInv, RunInv
  <2> QED BY <2>1, <2>2 DEF OneVersionPerReplay, Concluded
<1> QED BY <1>1, RInvariance, PTL

\* A run that only one version replayed and worked on is that version's own run.
THEOREM Undisturbed == Spec => []AloneIsUndisturbed
<1>1. RInv => AloneIsUndisturbed
  BY DEF RInv, RunInv, Alone, AloneIsUndisturbed
<1> QED BY <1>1, RInvariance, PTL
-----------------------------------------------------------------------------
(* A run that one version works on keeps the contract of AgentRun *)

\* Version v's view of run i: it stands where v comes to over the results.
AbstractRun(v, i) ==
  IF inst[i] = Absent THEN [phase |-> "idle"]
  ELSE [phase |-> inst[i].status, pos |-> Fold(v, i, Len(Results(i))),
        step |-> Len(Results(i)), limit |-> Limit]

Contract(v, i) == INSTANCE AgentRun WITH
  Graph <- Program[v], NodeOutputs <- [n \in Program[v].nodes |-> {Output[v][n]}],
  Inputs <- {Input}, MaxStepsOpts <- {Limit}, DefaultMaxSteps <- Limit,
  Run <- {i}, run <- [j \in {i} |-> AbstractRun(v, j)]

\* A node is handed out within the limit only.
Affordable == \A i \in InstanceId : task[i] # None => Len(Results(i)) < Limit

\* What a step can do to run i, as far as the contract can see.
Unseen(i) == inst'[i] = inst[i] \/ /\ inst[i] # Absent /\ inst'[i] # Absent
                                   /\ inst'[i].status = inst[i].status
                                   /\ inst'[i].results = inst[i].results

Ends(i) == /\ Replaying(i) /\ inst'[i] # Absent
           /\ inst'[i].results = inst[i].results
           /\ \/ inst'[i].status = "completed" /\ Current(i) = END
              \/ inst'[i].status = "failed"

\* A step of one run leaves the others where they are.
LEMMA OthersStay ==
  ASSUME RInv, NEW i \in InstanceId, NEW j \in InstanceId, j # i, RunStep(j)
  PROVE  inst'[i] = inst[i] /\ task'[i] = task[i]
<1>1. inst = [k \in InstanceId |-> inst[k]] /\ task = [k \in InstanceId |-> task[k]]
  BY DEF RInv, Typed
<1>2. CASE TurnStep(j)
  BY <1>1, <1>2 DEF TurnStep, Iterate, EngineRefuses, ScheduleNode, NodeFailed,
     MaxStepsExceeded, RoutingFailed, FinishRun, EndRun
<1>3. ASSUME NEW w \in Worker, WorkerStep(w, j)
      PROVE  inst'[i] = inst[i] /\ task'[i] = task[i]
  BY <1>1, <1>3 DEF WorkerStep, BeginReplay, RunNode, UnknownNode, TakeTask
<1> QED BY <1>2, <1>3 DEF RunStep

\* However a replay ends the run, the contract sees it fail, or complete at END.
LEMMA EndRunEnds ==
  ASSUME RInv, NEW i \in InstanceId, Replaying(i), NEW s \in {"completed", "failed"},
         NEW why, NEW out, EndRun(i, s, why, out), s = "completed" => Current(i) = END
  PROVE  Ends(i) /\ task'[i] = None
<1>1. PICK x, o : x = inst[i] /\ x \in InstanceWith(o)
  BY ReplayFacts
<1>2. PICK r : r = [x EXCEPT !.status = s, !.reason = why, !.output = out, !.due = FALSE]
  OBVIOUS
<1>3. r.status = s /\ r.results = x.results /\ Absent.status = "absent"
  BY <1>1, <1>2, NotRecords DEF InstanceWith
<1>4. inst' = [inst EXCEPT ![i] = r] /\ task' = task
  BY <1>1, <1>2 DEF EndRun, RInv, Typed
<1>5. inst'[i] = r
  BY <1>4 DEF RInv, Typed
<1>6. r # Absent
  BY <1>3
<1> QED BY <1>1, <1>3, <1>4, <1>5, <1>6, ReplayFacts DEF Ends

\* All that a step can do to a run, and to the node it has to run.
LEMMA Moves ==
  ASSUME RInv, NEW i \in InstanceId, [RolloutNext]_vars
  PROVE  /\ \/ Unseen(i)
            \/ inst[i] = Absent /\ inst'[i] = Created
            \/ Ends(i)
            \/ \E w \in Worker : RunNode(w, i)
         /\ \/ task'[i] = None
            \/ ScheduleNode(i) /\ Unseen(i)
            \/ task'[i] = task[i] /\ Unseen(i)
<1>1. CASE UNCHANGED <<inst, task>>
  BY <1>1 DEF Unseen
<1>2. ASSUME NEW w \in Worker, NEW j \in InstanceId, Invoke(w, j)
      PROVE  /\ task'[i] = task[i]
             /\ \/ inst'[i] = inst[i]
                \/ inst[i] = Absent /\ task[i] = None /\ inst'[i] = Created
  BY <1>2 DEF Invoke, RInv, RunInv, Typed, Scheduled
<1>3. ASSUME NEW j \in InstanceId, j # i, RunStep(j)
      PROVE  Unseen(i) /\ task'[i] = task[i]
  BY <1>3, OthersStay DEF Unseen
<1>4. CASE ScheduleNode(i)
  <2>1. PICK x, o : x = inst[i] /\ x \in InstanceWith(o) /\ x # Absent
    BY <1>4, ReplayFacts DEF ScheduleNode, AtNode
  <2>2. PICK r : r = [x EXCEPT !.due = FALSE]
    OBVIOUS
  <2>3. /\ r.status = x.status /\ r.results = x.results /\ r \in InstanceWith(o)
    BY <2>1, <2>2 DEF InstanceWith
  <2>4. inst'[i] = r
    BY <1>4, <2>1, <2>2 DEF ScheduleNode, RInv, Typed
  <2>5. Unseen(i)
    BY <2>1, <2>3, <2>4, NotRecords DEF Unseen
  <2> QED BY <1>4, <2>5
<1>5. CASE \/ EngineRefuses(i) \/ NodeFailed(i) \/ MaxStepsExceeded(i)
           \/ RoutingFailed(i) \/ FinishRun(i)
  <2>1. Ends(i) /\ task'[i] = None
    BY <1>5, EndRunEnds
       DEF EngineRefuses, NodeFailed, MaxStepsExceeded, RoutingFailed, FinishRun, AtNode
  <2> QED BY <2>1
<1>6. ASSUME NEW w \in Worker, RunNode(w, i) \/ UnknownNode(w, i)
      PROVE  task'[i] = None
  BY <1>6, TaskFacts DEF RunNode, UnknownNode, RInv, Typed
<1>7. ASSUME NEW w \in Worker, UnknownNode(w, i)
      PROVE  Unseen(i)
  <2>1. PICK x, o : x = inst[i] /\ x \in InstanceWith(o) /\ x # Absent
    BY <1>7, TaskFacts DEF UnknownNode
  <2>2. PICK f : f = x.fails + 1 /\ f \in Nat
    BY <2>1, InstanceFields
  <2>3. PICK r : r = [x EXCEPT !.fails = f, !.due = TRUE]
    OBVIOUS
  <2>4. /\ r.status = x.status /\ r.results = x.results /\ r \in InstanceWith(o)
    BY <2>1, <2>2, <2>3 DEF InstanceWith
  <2>5. inst'[i] = r
    BY <1>7, <2>1, <2>2, <2>3 DEF UnknownNode, FailedAttempts, RInv, Typed
  <2> QED BY <2>1, <2>4, <2>5, NotRecords DEF Unseen
<1>8. CASE RunStep(i)
  <2>1. CASE Iterate(i) \/ \E w \in Worker : BeginReplay(w, i)
    BY <1>1, <2>1 DEF Iterate, BeginReplay
  <2> QED BY <1>4, <1>5, <1>6, <1>7, <1>8, <2>1 DEF RunStep, TurnStep, WorkerStep
<1>9. CASE (\E w \in Worker : NewRunner(w) \/ Close(w)) \/ (\E p \in Process : StopProcess(p))
           \/ UNCHANGED vars
  BY <1>1, <1>9 DEF NewRunner, Close, StopProcess, vars
<1>10. CASE \E w \in Worker, j \in InstanceId : Invoke(w, j)
  BY <1>2, <1>10 DEF Unseen
<1>11. CASE \E j \in InstanceId : RunStep(j)
  BY <1>3, <1>8, <1>11
<1> QED BY <1>9, <1>10, <1>11 DEF RolloutNext

\* A node that was handed out stays affordable until it is run: no result comes in
\* meanwhile.
LEMMA AffordableNext == RInv /\ Affordable /\ [RolloutNext]_vars => Affordable'
<1> SUFFICES ASSUME RInv, Affordable, [RolloutNext]_vars, NEW i \in InstanceId,
                    task'[i] # None
             PROVE  Len(Results(i))' < Limit
  BY DEF Affordable
<1>1. Unseen(i) /\ (ScheduleNode(i) \/ task'[i] = task[i])
  BY Moves
<1>2. Results(i)' = Results(i)
  BY <1>1 DEF Unseen, Results
<1>3. CASE ScheduleNode(i)
  BY <1>2, <1>3 DEF ScheduleNode, AtNode
<1>4. CASE task'[i] = task[i]
  BY <1>2, <1>4 DEF Affordable
<1> QED BY <1>1, <1>3, <1>4

LEMMA AffordableAlways == Spec => []Affordable
<1>1. Init => Affordable
  BY DEF Init, Affordable
<1> QED BY <1>1, AffordableNext, RInvariance, PTL DEF Spec

\* The contract speaks of positions as a version does.
LEMMA ContractOperators ==
  ASSUME NEW v \in Version, NEW i
  PROVE  /\ Contract(v, i)!Entry(Input) = Start(v)
         /\ \A pos, u : Contract(v, i)!Advanced(pos, u) = Step(v, pos, u)
         /\ Contract(v, i)!Limits = {Limit}
         /\ Contract(v, i)!Idle = [phase |-> "idle"]
<1>1. Contract(v, i)!Entry(Input) = Start(v) /\ Contract(v, i)!Idle = [phase |-> "idle"]
  BY DEF Contract!Entry, Start, Contract!Idle
<1>2. \A pos, u : Contract(v, i)!Advanced(pos, u) = Step(v, pos, u)
  BY DEF Contract!Advanced, Step, Contract!ApplyUpdates, ApplyUpdates,
       Contract!Merge, Merge, Contract!Next, Next,
       Contract!AppendReducer, AppendReducer, Contract!AnyList, AnyList,
       Contract!Elements, Elements, Contract!Unset, Unset
<1>3. Contract(v, i)!Limits = {Limit}
  BY RolloutAssumption DEF Contract!Limits, Contract!EffectiveLimit
<1> QED BY <1>1, <1>2, <1>3

\* As a function, for AgentRun.
AbstractRuns(v, i) == [j \in {i} |-> AbstractRun(v, j)]

\* A move of the view, in the form AgentRun has it.
LEMMA AbstractMoves ==
  ASSUME NEW v, NEW i, NEW x, AbstractRun(v, i)' = x
  PROVE  AbstractRuns(v, i)' = [AbstractRuns(v, i) EXCEPT ![i] = x]
BY DEF AbstractRuns

\* A run of the contract is what its fields are.
LEMMA ContractRecord ==
  \A h, p, n, l : \A r \in [phase : {h}, pos : {p}, step : {n}, limit : {l}] :
    r = [phase |-> h, pos |-> p, step |-> n, limit |-> l]
OBVIOUS

\* What the contract does not see leaves the view as it is.
LEMMA UnseenStutters ==
  ASSUME NEW v, NEW i, Unseen(i)
  PROVE  AbstractRuns(v, i)' = AbstractRuns(v, i)
<1>1. AbstractRun(v, i)' = AbstractRun(v, i)
  BY DEF Unseen, AbstractRun, Fold, Results
<1> QED BY <1>1 DEF AbstractRuns

\* A run is created where its version starts.
LEMMA CreatedStarts ==
  ASSUME NEW v \in Version, NEW i, inst[i] = Absent, inst'[i] = Created
  PROVE  Contract(v, i)!Start(i)
<1>1. AbstractRuns(v, i)[i] = [phase |-> "idle"]
  BY DEF AbstractRuns, AbstractRun
<1>2. /\ Created # Absent /\ Created.status = "running" /\ Created.results = <<>>
      /\ <<>> \in Seq(Result) /\ Len(<<>>) = 0
  BY DEF Created, Absent
<1>3. Course(v, <<>>)[0] = Start(v)
  BY <1>2, CourseDef
<1>4. AbstractRun(v, i)' = [phase |-> "running", pos |-> Start(v), step |-> 0,
                            limit |-> Limit]
  BY <1>2, <1>3 DEF AbstractRun, Fold, Results
<1>5. AbstractRuns(v, i)' = [AbstractRuns(v, i) EXCEPT ![i] =
        [phase |-> "running", pos |-> Start(v), step |-> 0, limit |-> Limit]]
  BY <1>4, AbstractMoves
<1> QED BY <1>1, <1>5, ContractOperators DEF Contract!Start, AbstractRuns

\* The abstract run of one that is replayed or has a node to run.
LEMMA RunningIs ==
  ASSUME NEW v, NEW i, inst[i] # Absent, inst[i].status = "running"
  PROVE  AbstractRuns(v, i)[i] = [phase |-> "running", pos |-> Fold(v, i, Len(Results(i))),
                                  step |-> Len(Results(i)), limit |-> Limit]
BY DEF AbstractRuns, AbstractRun

\* A replay that has come to END has gone through all the results, as none of v's
\* nodes is END.
LEMMA EndsAtEnd ==
  ASSUME RInv, NEW i \in InstanceId, Replaying(i), NEW v \in Version,
         touched[i] \subseteq {v}, Current(i) = END
  PROVE  Fold(v, i, Len(Results(i))).current = END
<1>1. turn[i].cg = v /\ Alone(v, i)
  BY ItsOwn
<1>2. /\ turn[i].step \in 0..Len(Results(i)) /\ Len(Results(i)) \in Nat
      /\ DOMAIN Results(i) = 1..Len(Results(i))
  BY ReplayFacts
<1>3. Fold(v, i, turn[i].step).current = END
  BY <1>1 DEF RInv, RunInv, OnCourse, Current
<1>4. ASSUME turn[i].step # Len(Results(i))
      PROVE  FALSE
  <2>1. turn[i].step + 1 \in DOMAIN Results(i) /\ (turn[i].step + 1) - 1 = turn[i].step
    BY <1>2, <1>4
  <2>2. Has(v, Fold(v, i, turn[i].step).current)
    BY <1>1, <2>1 DEF Alone, OwnRun
  <2> QED BY <1>3, <2>2, RolloutAssumption DEF Has
<1> QED BY <1>3, <1>4

\* The end of a run is AgentRun's Complete or Fail.
LEMMA EndsRefine ==
  ASSUME RInv, NEW i \in InstanceId, NEW v \in Version, touched[i] \subseteq {v}, Ends(i)
  PROVE  Contract(v, i)!Complete(i) \/ Contract(v, i)!Fail(i)
<1>1. PICK s, p, n : /\ s = inst'[i].status /\ p = Fold(v, i, Len(Results(i)))
                     /\ n = Len(Results(i))
  OBVIOUS
<1>2. PICK r : r = AbstractRuns(v, i)[i]
  OBVIOUS
<1>3. r = [phase |-> "running", pos |-> p, step |-> n, limit |-> Limit]
  BY <1>1, <1>2, ReplayFacts, RunningIs DEF Ends
<1>4. AbstractRun(v, i)' = [phase |-> s, pos |-> p, step |-> n, limit |-> Limit]
  BY <1>1 DEF Ends, AbstractRun, Fold, Results
<1>5. /\ [r EXCEPT !.phase = s]
           \in [phase : {s}, pos : {p}, step : {n}, limit : {Limit}]
      /\ r.phase = "running" /\ r.pos = p
  BY ONLY <1>3
<1>6. AbstractRuns(v, i)' = [AbstractRuns(v, i) EXCEPT ![i].phase = s]
  <2>1. [r EXCEPT !.phase = s] = AbstractRun(v, i)'
    BY <1>4, <1>5, ContractRecord
  <2>2. AbstractRuns(v, i)' = [AbstractRuns(v, i) EXCEPT ![i] = [r EXCEPT !.phase = s]]
    BY <2>1, AbstractMoves
  <2> QED BY <1>2, <2>2
<1>7. s = "failed" \/ (s = "completed" /\ p.current = END)
  <2>1. Replaying(i) /\ (s = "failed" \/ (s = "completed" /\ Current(i) = END))
    BY <1>1 DEF Ends
  <2>2. Current(i) = END => p.current = END
    BY <1>1, <2>1, EndsAtEnd
  <2> QED BY <2>1, <2>2
<1>8. AbstractRuns(v, i)[i].phase = "running" /\ AbstractRuns(v, i)[i].pos = p
  BY <1>2, <1>5
<1> QED BY <1>6, <1>7, <1>8 DEF Contract!Complete, Contract!Fail, AbstractRuns

\* A node that is run is AgentRun's Advance: the result is one output of the node the
\* version has come to, merged once.
LEMMA NodeRefines ==
  ASSUME RInv, Affordable, NEW i \in InstanceId, NEW v \in Version,
         NEW w \in Worker, RunNode(w, i), touched'[i] \subseteq {v}
  PROVE  Contract(v, i)!Advance(i)
<1>1. PICK x, o : x = inst[i] /\ x \in InstanceWith(o) /\ x # Absent /\ x.status = "running"
  BY TaskFacts DEF RunNode
<1>2. LookupGraph(w) = v /\ touched[i] \subseteq {v} /\ task[i] # None
  <2>1. TakeTask(w, i)
    BY DEF RunNode
  <2>2. task[i] # None /\ touched' = [touched EXCEPT ![i] = @ \cup {worker[w], LookupGraph(w)}]
    BY <2>1 DEF TakeTask, Touch
  <2>3. touched'[i] = touched[i] \cup {worker[w], LookupGraph(w)}
    BY <2>2 DEF RInv, Typed
  <2> QED BY ONLY <2>2, <2>3, touched'[i] \subseteq {v}
<1>3. Alone(v, i)
  BY <1>1, <1>2 DEF RInv, RunInv
<1>4. PICK n, p, u, res : /\ n = Len(Results(i)) /\ p = Fold(v, i, n)
                          /\ u = Output[v][task[i]]
                          /\ res = [node |-> task[i], updates |-> u]
  OBVIOUS
<1>5. task[i] = p.current /\ p.current \in Program[v].nodes /\ res.updates = u
  BY <1>2, <1>3, <1>4 DEF Alone, Has
<1>6. res \in Result
  BY <1>4, <1>5 DEF Result
<1>7. PICK rs \in Seq(Result), ss \in Seq(Result) :
        rs = x.results /\ ss = Append(rs, res)
  <2>1. x.results \in Seq(Result)
    BY <1>1, InstanceFields
  <2>2. Append(x.results, res) \in Seq(Result)
    BY <1>6, <2>1
  <2> QED BY <2>1, <2>2
<1>8. PICK y : y = [x EXCEPT !.fails = 0, !.due = TRUE, !.results = ss]
  OBVIOUS
<1>9. y.status = "running" /\ y.results = ss /\ y \in InstanceWith(o)
  BY <1>1, <1>7, <1>8 DEF InstanceWith
<1>10. inst'[i] = y
  BY <1>1, <1>2, <1>4, <1>7, <1>8 DEF RunNode, RInv, Typed
<1>11. y # Absent
  BY <1>9, NotRecords
<1>12. /\ n \in Nat /\ n = Len(rs) /\ Len(ss) = n + 1 /\ n \in 0..Len(rs)
       /\ ss[n + 1] = res /\ n \in 0..Len(ss) - 1
  BY <1>1, <1>4, <1>6, <1>7 DEF Results
<1>13. p = Course(v, rs)[n]
  BY <1>1, <1>4, <1>7 DEF Fold, Results
<1>14. Course(v, ss)[n + 1] = Step(v, p, u)
  <2>1. Course(v, ss)[n] = p
    BY <1>6, <1>7, <1>12, <1>13, CourseAppend
  <2>2. Course(v, ss)[n + 1] = Step(v, Course(v, ss)[n], ss[n + 1].updates)
    BY <1>12, CourseDef
  <2> QED BY <1>5, <1>12, <2>1, <2>2
<1>15. PICK p1, n1 : p1 = Step(v, p, u) /\ n1 = n + 1
  OBVIOUS
<1>16. AbstractRun(v, i)' = [phase |-> "running", pos |-> p1, step |-> n1,
                             limit |-> Limit]
  BY <1>9, <1>10, <1>11, <1>12, <1>14, <1>15 DEF AbstractRun, Fold, Results
<1>17. PICK r : r = AbstractRuns(v, i)[i]
  OBVIOUS
<1>18. r = [phase |-> "running", pos |-> p, step |-> n, limit |-> Limit]
  BY <1>1, <1>4, <1>17, RunningIs
<1>19. /\ [r EXCEPT !.pos = p1, !.step = n1]
            \in [phase : {"running"}, pos : {p1}, step : {n1}, limit : {Limit}]
       /\ r.phase = "running" /\ r.pos = p /\ r.step = n /\ r.limit = Limit
  BY ONLY <1>18
<1>20. AbstractRuns(v, i)' = [AbstractRuns(v, i) EXCEPT ![i].pos = p1, ![i].step = n1]
  <2>1. [r EXCEPT !.pos = p1, !.step = n1] = AbstractRun(v, i)'
    BY <1>16, <1>19, ContractRecord
  <2>2. AbstractRuns(v, i)'
          = [AbstractRuns(v, i) EXCEPT ![i] = [r EXCEPT !.pos = p1, !.step = n1]]
    BY <2>1, AbstractMoves
  <2> QED BY <1>17, <2>2
<1>21. n < Limit
  BY <1>2, <1>4 DEF Affordable
<1>22. AbstractRuns(v, i)' = [AbstractRuns(v, i) EXCEPT
         ![i].pos = Contract(v, i)!Advanced(@, u), ![i].step = @ + 1]
  <2>1. Contract(v, i)!Advanced(p, u) = Step(v, p, u)
    BY ONLY ContractOperators, v \in Version
  <2>2. Contract(v, i)!Advanced(r.pos, u) = p1
    BY <1>15, <1>19, <2>1
  <2>3. r.step + 1 = n1
    BY <1>15, <1>19
  <2> QED BY <1>17, <1>20, <2>2, <2>3
<1>23. [m \in Program[v].nodes |-> {Output[v][m]}][p.current] = {u}
  BY <1>4, <1>5
<1>24. /\ AbstractRuns(v, i)[i].phase = "running" /\ AbstractRuns(v, i)[i].pos = p
       /\ AbstractRuns(v, i)[i].step < AbstractRuns(v, i)[i].limit
  BY <1>17, <1>19, <1>21
<1> QED BY <1>5, <1>22, <1>23, <1>24 DEF Contract!Advance, AbstractRuns

\* Every step of the deployment is one of the contract or leaves the view alone.
LEMMA StepRefines ==
  ASSUME RInv, Affordable, [RolloutNext]_vars, NEW v \in Version, NEW i \in InstanceId,
         touched[i] \subseteq {v}, touched'[i] \subseteq {v}
  PROVE  [Contract(v, i)!RunNext]_([j \in {i} |-> AbstractRun(v, j)])
<1>1. CASE Unseen(i)
  BY <1>1, UnseenStutters DEF AbstractRuns
<1>2. CASE inst[i] = Absent /\ inst'[i] = Created
  BY <1>2, CreatedStarts DEF Contract!RunNext, Contract!RunStep
<1>3. CASE Ends(i)
  BY <1>3, EndsRefine DEF Contract!RunNext, Contract!RunStep
<1>4. CASE \E w \in Worker : RunNode(w, i)
  BY <1>4, NodeRefines DEF Contract!RunNext, Contract!RunStep
<1> QED BY <1>1, <1>2, <1>3, <1>4, Moves

\* What a deployment promises a run that it leaves to one version, be there others
\* registered, replaced and stopped beside it: it is a run of that version's graph,
\* one merge per step, within the limit, completed only at END.
THEOREM LoneRunRefines ==
  ASSUME NEW v \in Version, NEW i \in InstanceId
  PROVE  Spec /\ [](touched[i] \subseteq {v}) => Contract(v, i)!RunSpec
<1>1. Init => Contract(v, i)!Init
  BY DEF Init, Contract!Init, Contract!Idle, AbstractRun
<1>2. ASSUME RInv, Affordable, [RolloutNext]_vars,
             touched[i] \subseteq {v}, (touched[i] \subseteq {v})'
      PROVE  [Contract(v, i)!RunNext]_([j \in {i} |-> AbstractRun(v, j)])
  BY <1>2, StepRefines
<1> QED BY <1>1, <1>2, RInvariance, AffordableAlways, PTL DEF Spec, Contract!RunSpec
=============================================================================
