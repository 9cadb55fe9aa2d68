---------------------------- MODULE PlanRunsProofs ----------------------------
(***************************************************************************)
(* Proofs about PlanRuns: for every number of requests, slots and runs,    *)
(* whatever fails, and however long the planner may take within the TTL;   *)
(* and for any set of visitors, any limits, and tables of any size.        *)
(***************************************************************************)
EXTENDS PlanRuns, RateLimiterProofs

USE WindowAssumption, BucketsAssumption, TimeoutAssumption, LimitAssumption

-----------------------------------------------------------------------------
(* The inductive invariant. *)

Holders == {r \in Request : At(r, "generating")}
Created == {requests[r].run : r \in Holders}

Typed ==
  /\ runs \in Seq(Run)
  /\ requests \in [Request -> [place : {"idle", "waiting", "generating"}, run : Nat]]
  /\ free \in Nat

\* The planner of a request is still within its timeout, and its run is not
\* stale: Timeout <= TTL.
RunsHeld ==
  \A r \in Holders :
    /\ requests[r].run \in DOMAIN runs
    /\ runs[requests[r].run].status = "running"
    /\ runs[requests[r].run].age <= Timeout

RunsOwned == \A r, q \in Holders : requests[r].run = requests[q].run => r = q

SlotsCounted ==
  /\ IsFiniteSet(Holders) /\ free + Cardinality(Holders) = Slots
  /\ IsFiniteSet(Created) /\ Cardinality(Created) = Cardinality(Holders)

IInv == Typed /\ RunsHeld /\ RunsOwned /\ SlotsCounted

LEMMA IdleIs == Idle.place = "idle" /\ Idle.run = 0
  BY DEF Idle

\* The requests that stay as they are.
LEMMA HoldersSame ==
  ASSUME IInv, UNCHANGED <<free, requests>>
  PROVE  Holders' = Holders /\ Created' = Created
  BY DEF Holders, Created, At

LEMMA StartedInvariant ==
  ASSUME free' = Slots, requests' = [r \in Request |-> Idle], runs' \in Seq(Run)
  PROVE  IInv'
<1>1. Holders' = {}
  BY IdleIs DEF Holders, At
<1>2. Created' = {}
  BY <1>1 DEF Created
<1>3. IsFiniteSet({}) /\ Cardinality({}) = 0
  BY FS_EmptySet
<1>4. Typed'
  BY DEF Typed, Idle
<1>5. SlotsCounted'
  BY <1>1, <1>2, <1>3 DEF SlotsCounted
<1>. QED
  BY <1>1, <1>4, <1>5 DEF IInv, RunsHeld, RunsOwned

LEMMA InitInvariant == Init => IInv
<1>. SUFFICES ASSUME Init PROVE IInv
  OBVIOUS
<1>1. Holders = {}
  BY IdleIs DEF Init, Started, Holders, At
<1>2. Created = {}
  BY <1>1 DEF Created
<1>3. IsFiniteSet({}) /\ Cardinality({}) = 0
  BY FS_EmptySet
<1>4. Typed
  BY DEF Init, Started, Typed, Idle
<1>5. SlotsCounted
  BY <1>1, <1>2, <1>3 DEF Init, Started, SlotsCounted
<1>. QED
  BY <1>1, <1>4, <1>5 DEF IInv, RunsHeld, RunsOwned

-----------------------------------------------------------------------------
(* What a step does to the requests that hold a slot, and to the runs. *)

\* A request comes or goes that holds no slot.
LEMMA OutsideInvariant ==
  ASSUME IInv, NEW r \in Request, ~At(r, "generating"),
         NEW place \in {"idle", "waiting"}, NEW n \in Nat,
         requests' = [requests EXCEPT ![r] = [place |-> place, run |-> n]],
         UNCHANGED <<free, runs>>
  PROVE  IInv'
<1>1. Typed'
  BY DEF IInv, Typed
<1>2. /\ Holders' = Holders
      /\ \A q \in Holders : requests'[q] = requests[q]
  BY DEF IInv, Typed, Holders, At
<1>3. Created' = Created
  BY <1>2 DEF Created
<1>4. RunsHeld' /\ RunsOwned'
  BY <1>2 DEF IInv, RunsHeld, RunsOwned
<1>5. SlotsCounted'
  BY <1>2, <1>3 DEF IInv, SlotsCounted
<1>. QED
  BY <1>1, <1>4, <1>5 DEF IInv

LEMMA CreateInvariant ==
  ASSUME IInv, NEW r \in Request, Create(r)
  PROVE  IInv'
<1> DEFINE n == Len(runs)
<1>1. runs \in Seq(Run) /\ n \in Nat /\ DOMAIN runs = 1..n
  BY DEF IInv, Typed
<1>2. [status |-> "running", age |-> 0] \in Run
  BY DEF Run
<1>3. /\ runs' \in Seq(Run) /\ DOMAIN runs' = 1..(n + 1)
      /\ runs'[n + 1] = [status |-> "running", age |-> 0]
      /\ \A i \in 1..n : runs'[i] = runs[i] /\ i \in 1..(n + 1)
  BY <1>1, <1>2 DEF Create
<1>4. /\ requests'[r] = [place |-> "generating", run |-> n + 1]
      /\ \A q \in Request : q # r => requests'[q] = requests[q]
  BY DEF Create, IInv, Typed
<1>5. Holders' = Holders \cup {r} /\ r \notin Holders
  BY <1>4 DEF Holders, At, Create
<1>6. /\ Created' = Created \cup {n + 1}
      /\ \A q \in Holders : requests'[q] = requests[q] /\ requests[q].run \in 1..n
  BY <1>1, <1>4, <1>5 DEF Created, Holders, IInv, RunsHeld
<1>7. n + 1 \notin Created
  BY <1>1, <1>6 DEF Created
<1>8. Typed'
  BY <1>1, <1>3 DEF IInv, Typed, Create
<1>9. RunsHeld'
  BY <1>1, <1>3, <1>4, <1>5, <1>6 DEF IInv, RunsHeld
<1>10. RunsOwned'
  BY <1>1, <1>4, <1>5, <1>6 DEF IInv, RunsOwned
<1>11. SlotsCounted'
  <2>1. /\ IsFiniteSet(Holders \cup {r}) /\ Cardinality(Holders \cup {r}) = Cardinality(Holders) + 1
        /\ IsFiniteSet(Created \cup {n + 1})
        /\ Cardinality(Created \cup {n + 1}) = Cardinality(Created) + 1
    BY <1>5, <1>7, FS_AddElement DEF IInv, SlotsCounted
  <2>2. Cardinality(Holders) \in Nat
    BY FS_CardinalityType DEF IInv, SlotsCounted
  <2>3. free \in Nat /\ free' = free - 1
    BY DEF IInv, Typed, Create
  <2>. QED
    BY <1>5, <1>6, <2>1, <2>2, <2>3 DEF IInv, SlotsCounted
<1>. QED
  BY <1>8, <1>9, <1>10, <1>11 DEF IInv

\* The slot is given back, and no run but that of the request changes.
LEMMA ReleaseInvariant ==
  ASSUME IInv, NEW r \in Request, At(r, "generating"), Leaves(r), free' = free + 1,
         runs' \in Seq(Run), DOMAIN runs' = DOMAIN runs,
         \A i \in DOMAIN runs : i # requests[r].run => runs'[i] = runs[i]
  PROVE  IInv'
<1>1. /\ requests'[r] = Idle
      /\ \A q \in Request : q # r => requests'[q] = requests[q]
  BY DEF Leaves, IInv, Typed
<1>2. Holders' = Holders \ {r} /\ r \in Holders
  BY <1>1, IdleIs DEF Holders, At
<1>3. \A q \in Holders \ {r} : requests'[q] = requests[q] /\ requests[q].run # requests[r].run
  BY <1>1, <1>2 DEF Holders, IInv, RunsOwned
<1>4. Created' = Created \ {requests[r].run} /\ requests[r].run \in Created
  BY <1>2, <1>3 DEF Created
<1>5. Typed'
  BY DEF IInv, Typed, Leaves, Idle
<1>6. RunsHeld' /\ RunsOwned'
  BY <1>2, <1>3 DEF IInv, RunsHeld, RunsOwned
<1>7. SlotsCounted'
  <2>1. /\ IsFiniteSet(Holders \ {r}) /\ Cardinality(Holders \ {r}) = Cardinality(Holders) - 1
        /\ IsFiniteSet(Created \ {requests[r].run})
        /\ Cardinality(Created \ {requests[r].run}) = Cardinality(Created) - 1
    BY <1>2, <1>4, FS_RemoveElement DEF IInv, SlotsCounted
  <2>2. Cardinality(Holders) \in Nat /\ free \in Nat
    BY FS_CardinalityType DEF IInv, SlotsCounted, Typed
  <2>. QED
    BY <1>2, <1>4, <2>1, <2>2 DEF IInv, SlotsCounted
<1>. QED
  BY <1>5, <1>6, <1>7 DEF IInv

LEMMA EndInvariant ==
  ASSUME IInv, NEW r \in Request, NEW status \in Ended, End(r, status)
  PROVE  IInv'
<1> DEFINE i == requests[r].run
<1>1. i \in DOMAIN runs /\ runs \in Seq(Run) /\ runs[i] \in Run
  BY DEF End, IInv, RunsHeld, Holders, Typed
<1>2. [runs[i] EXCEPT !.status = status] \in Run
  BY <1>1 DEF Run
<1>3. runs' = [runs EXCEPT ![i] = [runs[i] EXCEPT !.status = status]]
  BY DEF End
<1>4. /\ runs' \in Seq(Run) /\ DOMAIN runs' = DOMAIN runs
      /\ \A j \in DOMAIN runs : j # i => runs'[j] = runs[j]
  BY <1>1, <1>2, <1>3
<1>. QED
  BY <1>4, ReleaseInvariant DEF End

LEMMA NotEndedInvariant ==
  ASSUME IInv, NEW r \in Request, NotEnded(r)
  PROVE  IInv'
<1>1. runs' = runs /\ runs' \in Seq(Run)
  BY DEF NotEnded, IInv, Typed
<1>. QED
  BY <1>1, ReleaseInvariant DEF NotEnded

\* The repair touches no run of a request under way.
LEMMA RepairedRuns ==
  ASSUME IInv
  PROVE  /\ Repaired \in Seq(Run) /\ DOMAIN Repaired = DOMAIN runs
         /\ \A i \in DOMAIN runs : ~IsStale(runs[i]) => Repaired[i] = runs[i]
<1>1. runs \in Seq(Run)
  BY DEF IInv, Typed
<1>2. \A i \in DOMAIN runs : runs[i] \in Run
  BY <1>1
<1>3. \A i \in DOMAIN runs :
        (IF IsStale(runs[i]) THEN [runs[i] EXCEPT !.status = "failed"] ELSE runs[i]) \in Run
  BY <1>2 DEF Run, Ended
<1>. QED
  BY <1>1, <1>3 DEF Repaired

LEMMA RunAges ==
  ASSUME IInv
  PROVE  \A i \in DOMAIN runs : runs[i] \in Run /\ runs[i].age \in Nat
<1>1. \A i \in DOMAIN runs : runs[i] \in Run
  BY DEF IInv, Typed
<1>. QED
  BY <1>1 DEF Run

\* Time passes, or runs are repaired: what the requests hold stays.
LEMMA RunsOnlyInvariant ==
  ASSUME IInv, UNCHANGED <<free, requests>>, runs' \in Seq(Run), DOMAIN runs' = DOMAIN runs,
         \A r \in Holders : /\ runs'[requests[r].run].status = "running"
                            /\ runs'[requests[r].run].age <= Timeout
  PROVE  IInv'
<1>1. Holders' = Holders /\ Created' = Created
  BY HoldersSame
<1>. QED
  BY <1>1 DEF IInv, Typed, RunsHeld, RunsOwned, SlotsCounted

LEMMA SweepInvariant == ASSUME IInv, Sweep PROVE IInv'
<1>1. \A r \in Holders : ~IsStale(runs[requests[r].run])
  BY RunAges DEF IInv, RunsHeld, IsStale
<1>. QED
  BY <1>1, RepairedRuns, RunsOnlyInvariant DEF Sweep, IInv, RunsHeld

LEMMA TickInvariant == ASSUME IInv, Tick PROVE IInv'
<1> DEFINE next(i) == IF runs[i].status = "running" /\ runs[i].age <= TTL
                      THEN [runs[i] EXCEPT !.age = @ + 1] ELSE runs[i]
<1>1. runs \in Seq(Run) /\ runs' = [i \in DOMAIN runs |-> next(i)]
  BY DEF IInv, Typed, Tick
<1>2. \A i \in DOMAIN runs : next(i) \in Run
  BY RunAges DEF Run
<1>. HIDE DEF next
<1>3. runs' \in Seq(Run) /\ DOMAIN runs' = DOMAIN runs
  <2>1. DOMAIN runs = 1..Len(runs) /\ Len(runs) \in Nat
    BY <1>1
  <2>. QED
    BY <1>1, <1>2, <2>1
<1>4. ASSUME NEW r \in Holders
      PROVE  /\ runs'[requests[r].run].status = "running"
             /\ runs'[requests[r].run].age <= Timeout
  <2> DEFINE i == requests[r].run
  <2>1. i \in DOMAIN runs /\ runs[i].status = "running"
    BY DEF IInv, RunsHeld
  <2>2. runs[i] \in Run /\ runs[i].age \in Nat
    BY <2>1, RunAges
  <2>3. runs[i].age < Timeout
    BY DEF Tick, Holders
  <2>4. runs[i].age <= TTL
    BY <2>2, <2>3
  <2>5. runs'[i] = [runs[i] EXCEPT !.age = @ + 1]
    BY <1>1, <2>1, <2>4 DEF next
  <2>. QED
    BY <2>1, <2>2, <2>3, <2>5 DEF Run
<1>. QED
  BY <1>3, <1>4, RunsOnlyInvariant DEF Tick

LEMMA StepInvariant == IInv /\ [Next]_vars => IInv'
<1>. SUFFICES ASSUME IInv, [Next]_vars PROVE IInv'
  OBVIOUS
<1>1. ASSUME NEW r \in Request, NEW v \in Visitor, Submit(r, v)
      PROVE  IInv'
  BY <1>1, OutsideInvariant DEF Submit, At
<1>2. ASSUME NEW r \in Request, GiveUp(r) \/ NotCreated(r)
      PROVE  IInv'
  BY <1>2, OutsideInvariant DEF GiveUp, NotCreated, At, Leaves, Idle
<1>3. ASSUME NEW r \in Request, Goes(r)
      PROVE  IInv'
  BY <1>2, <1>3, CreateInvariant, EndInvariant, NotEndedInvariant DEF Goes
<1>4. CASE UNCHANGED <<free, requests, runs>>
  BY <1>4, RunsOnlyInvariant DEF IInv, Typed, RunsHeld
<1>5. CASE NewDay \/ UNCHANGED vars \/ \E v \in Visitor : RefusedTogether(v)
  BY <1>4, <1>5 DEF NewDay, vars, RefusedTogether
<1>6. CASE Crash
  BY <1>6, RepairedRuns, StartedInvariant DEF Crash
<1>. QED
  BY <1>1, <1>3, <1>5, <1>6, SweepInvariant, TickInvariant DEF Next

THEOREM Invariance == Spec => []IInv
  BY InitInvariant, StepInvariant, PTL DEF Spec

-----------------------------------------------------------------------------
(* The theorems. *)

\* Every way through create_plan gives back the slot it has taken, and only
\* that one, and the requests that hold one have each a running run.
THEOREM SlotsAreConserved == Spec => []SlotsConserved
<1>1. IInv => SlotsConserved
  BY DEF IInv, SlotsConserved, SlotsCounted, RunsHeld, Holders, Created
<1>. QED
  BY <1>1, Invariance, PTL

\* A run ends once, as long as the planner's timeout is within the TTL.
THEOREM RunsEndOnce == Spec => RunsAreFinal
<1>1. ASSUME IInv, [Next]_vars, NEW i \in DOMAIN runs, runs[i].status \in Ended
      PROVE  runs'[i] = runs[i]
  <2>1. runs[i].status # "running"
    BY <1>1 DEF Ended
  <2>2. ASSUME NEW r \in Request, NEW status \in Ended, End(r, status)
        PROVE  runs'[i] = runs[i]
    <3>1. requests[r].run # i
      BY <1>1, <2>1, <2>2 DEF End, IInv, RunsHeld, Holders
    <3>. QED
      BY <2>2, <3>1 DEF End
  <2>3. ASSUME NEW r \in Request, Create(r)
        PROVE  runs'[i] = runs[i]
    BY <1>1, <2>3 DEF Create, IInv, Typed
  <2>4. CASE runs' = Repaired
    BY <1>1, <2>1, <2>4, RepairedRuns DEF IsStale
  <2>5. CASE Tick
    BY <1>1, <2>1, <2>5 DEF Tick
  <2>6. CASE UNCHANGED runs
    BY <2>6
  <2>7. ASSUME NEW r \in Request, Goes(r)
        PROVE  runs'[i] = runs[i]
    BY <2>2, <2>3, <2>6, <2>7 DEF Goes, GiveUp, NotCreated, NotEnded
  <2>8. CASE \/ \E r \in Request, v \in Visitor : Submit(r, v)
             \/ \E v \in Visitor : RefusedTogether(v)
             \/ NewDay \/ UNCHANGED vars
    BY <2>6, <2>8 DEF Submit, RefusedTogether, NewDay, vars
  <2>. QED
    BY <1>1, <2>4, <2>5, <2>7, <2>8 DEF Next, Sweep, Crash
<1>2. IInv /\ [Next]_vars =>
        [\A i \in DOMAIN runs : runs[i].status \in Ended => runs'[i] = runs[i]]_vars
  BY <1>1
<1>. QED
  BY <1>2, Invariance, PTL DEF Spec, RunsAreFinal

-----------------------------------------------------------------------------
(* The limiters: what their tables have to do with what has passed. *)

\* Others have passed at that age or later, enough of them to fill the table.
Overtaken(records, v, age) ==
  \E U \in SUBSET (Visitor \ {v}) :
    /\ Cardinality(U) >= MaxBuckets
    /\ \A u \in U : records[u] # <<>> /\ Last(records[u]) <= age

Tabled(table) ==
  /\ DOMAIN table \subseteq Visitor
  /\ Bounded(table)
  /\ \A v \in DOMAIN table :
       Ages(table[v]) /\ table[v] # <<>> /\ Len(table[v]) <= MaxRequests

Recorded(records) ==
  /\ records = [v \in Visitor |-> records[v]]
  /\ IsFiniteSet({v \in Visitor : records[v] # <<>>})
  /\ \A v \in Visitor :
       Ages(records[v]) /\ Unexpired(records[v]) /\ Len(records[v]) <= MaxRequests + 1

\* A visitor's bucket agrees with the record; what it lacks was evicted, and
\* from then on the table was full of others.
Remembered(table, records, v) ==
  LET b == BucketOf(table, v)
      p == records[v]
  IN /\ Matches(b, p)
     /\ Len(b) < Len(p) => Overtaken(records, v, p[Len(p) - Len(b)])

Recalled(table, records) ==
  /\ Tabled(table) /\ Recorded(records)
  /\ \A v \in Visitor : Remembered(table, records, v)

VisitorsInv == Recalled(buckets, passes)

\* The one bucket of all together is never evicted, and lacks nothing.
Complete(table, record) ==
  /\ DOMAIN table \subseteq {"__global__"}
  /\ LET b == BucketOf(table, "__global__")
     IN /\ Ages(b) /\ Ages(record) /\ Unexpired(record) /\ Matches(b, record)
        /\ Len(record) <= Len(b) /\ Len(b) <= GlobalMax

TogetherInv == Complete(together, admitted)

LimitInv == VisitorsInv /\ TogetherInv

LEMMA TabledBucket ==
  ASSUME NEW table, Tabled(table), NEW v
  PROVE  /\ Ages(BucketOf(table, v)) /\ Len(BucketOf(table, v)) <= MaxRequests
         /\ Len(BucketOf(table, v)) \in Nat
<1>1. Ages(BucketOf(table, v)) /\ Len(BucketOf(table, v)) <= MaxRequests
  BY NoAges DEF Tabled, BucketOf
<1>. QED
  BY <1>1 DEF Ages

\* What others have done since only grows.
StillPassed(records, after, v, age, later) ==
  \A u \in Visitor \ {v} :
    records[u] # <<>> /\ Last(records[u]) <= age
      => after[u] # <<>> /\ Last(after[u]) <= later

LEMMA OvertakenStays ==
  ASSUME NEW records, NEW after, NEW v, NEW age, NEW later,
         Overtaken(records, v, age), StillPassed(records, after, v, age, later)
  PROVE  Overtaken(after, v, later)
<1>1. PICK U \in SUBSET (Visitor \ {v}) :
        /\ Cardinality(U) >= MaxBuckets
        /\ \A u \in U : records[u] # <<>> /\ Last(records[u]) <= age
  BY DEF Overtaken
<1>2. \A u \in U : after[u] # <<>> /\ Last(after[u]) <= later
  BY <1>1 DEF StillPassed
<1>. QED
  BY <1>1, <1>2 DEF Overtaken

\* A pass, in a bucket and in a record that keeps one more than the bucket.
LEMMA PassedRecord ==
  ASSUME NEW b, NEW p, Ages(b), Ages(p), Unexpired(p), Matches(b, p),
         Len(p) <= MaxRequests + 1, Len(Fresh(b)) < MaxRequests,
         NEW c, c = Append(Fresh(b), 0), NEW q, q = Latest(Append(p, 0), MaxRequests + 1)
  PROVE  /\ Ages(c) /\ c # <<>> /\ Len(c) <= MaxRequests
         /\ Ages(q) /\ Unexpired(q) /\ q # <<>> /\ Len(q) <= MaxRequests + 1 /\ Last(q) = 0
         /\ Matches(c, q)
         /\ Len(c) < Len(q) => Len(b) < Len(p) /\ q[Len(q) - Len(c)] = p[Len(p) - Len(b)]
<1> DEFINE t == Fresh(b)
           pp == Append(p, 0)
<1>1. /\ Ages(t) /\ Len(t) <= Len(b) /\ Matches(t, p)
      /\ Len(t) < Len(p) => Len(t) = Len(b)
  BY FreshBucket, FreshMatches
<1>2. Len(t) \in Nat /\ Len(b) \in Nat /\ Len(p) \in Nat /\ Len(t) < MaxRequests
  BY <1>1 DEF Ages
<1>3. c = Append(t, 0) /\ q = Latest(pp, MaxRequests + 1)
  OBVIOUS
<1>4. /\ Ages(pp) /\ pp # <<>> /\ Len(pp) = Len(p) + 1 /\ pp[Len(pp)] = 0 /\ Unexpired(pp)
      /\ \A i \in 1..Len(p) : pp[i] = p[i]
  BY AppendedBucket
<1>. HIDE DEF t, pp
<1>5. Ages(c) /\ c # <<>> /\ Len(c) = Len(t) + 1
  BY <1>1, <1>3, AppendedBucket
<1>6. Matches(c, pp)
  BY <1>1, <1>3, AppendMatches DEF pp
<1>7. CASE Len(p) < MaxRequests + 1
  <2>1. q = pp /\ Len(q) = Len(p) + 1
    BY <1>2, <1>3, <1>4, <1>7 DEF Latest
  <2>2. ASSUME Len(c) < Len(q)
        PROVE  Len(b) < Len(p) /\ q[Len(q) - Len(c)] = p[Len(p) - Len(b)]
    <3>1. Len(t) = Len(b) /\ Len(b) < Len(p)
      BY <1>1, <1>2, <1>5, <2>1, <2>2
    <3>2. Len(q) - Len(c) = Len(p) - Len(b) /\ Len(p) - Len(b) \in 1..Len(p)
      BY <1>2, <1>5, <2>1, <3>1
    <3>. QED
      BY <1>4, <2>1, <3>1, <3>2
  <2>. QED
    BY <1>2, <1>4, <1>5, <1>6, <1>7, <2>1, <2>2 DEF Last
<1>8. CASE Len(p) = MaxRequests + 1
  <2>1. q = Tail(pp) /\ Len(c) < Len(pp) /\ Ages(pp) /\ pp # <<>>
    <3>1. Len(pp) > MaxRequests + 1 /\ Len(c) < Len(pp)
      BY <1>2, <1>4, <1>5, <1>8
    <3>. QED
      BY <1>3, <1>4, <3>1 DEF Latest
  <2>2. Ages(q) /\ Len(q) = Len(pp) - 1 /\ Matches(c, q) /\ (Unexpired(pp) => Unexpired(q))
    <3>1. Ages(c) /\ Matches(c, pp)
      BY <1>5, <1>6
    <3>2. Matches(c, q)
      BY <2>1, <3>1, TailMatches
    <3>3. Ages(q) /\ Len(q) = Len(pp) - 1
      BY <2>1, <3>1, TailMatches
    <3>4. Unexpired(pp) => Unexpired(q)
      BY <2>1, <3>1, TailMatches
    <3>. QED
      BY <3>2, <3>3, <3>4
  <2>3. \A i \in 1..Len(q) : q[i] = pp[i + 1]
    <3>1. Ages(c) /\ Matches(c, pp)
      BY <1>5, <1>6
    <3>2. Forgets(pp, q)
      BY <2>1, <3>1, TailMatches
    <3>. QED
      BY <3>2 DEF Forgets
  <2>4. Len(q) = Len(p) /\ Len(q) \in Nat \ {0} /\ q # <<>>
    BY <1>2, <1>4, <1>8, <2>2 DEF Ages
  <2>5. Last(q) = 0
    BY <1>4, <2>3, <2>4 DEF Last
  <2>6. Len(t) = Len(b) /\ Len(b) < Len(p)
    BY <1>1, <1>2, <1>8
  <2>7. /\ (Len(q) - Len(c)) + 1 = Len(p) - Len(b) /\ Len(p) - Len(b) \in 1..Len(p)
        /\ Len(c) < Len(q) => Len(q) - Len(c) \in 1..Len(q)
    BY <1>2, <1>5, <2>4, <2>6
  <2>8. ASSUME Len(c) < Len(q)
        PROVE  q[Len(q) - Len(c)] = p[Len(p) - Len(b)]
    <3>1. q[Len(q) - Len(c)] = pp[(Len(q) - Len(c)) + 1]
      BY <2>3, <2>7, <2>8
    <3>2. pp[Len(p) - Len(b)] = p[Len(p) - Len(b)]
      BY <1>4, <2>7
    <3>. QED
      BY <2>7, <3>1, <3>2
  <2>9. Len(c) <= MaxRequests /\ Len(q) <= MaxRequests + 1
    BY <1>2, <1>5, <1>8, <2>4
  <2>. QED
    BY <1>4, <1>5, <2>2, <2>4, <2>5, <2>6, <2>8, <2>9
<1>. QED
  BY <1>2, <1>7, <1>8

\* The visitor w passes.
PassesAlone(records, after, w) ==
  /\ after[w] # <<>> /\ Last(after[w]) = 0
  /\ \A v \in Visitor \ {w} : after[v] = records[v]

LEMMA PassedRecorded ==
  ASSUME NEW table, NEW records, Tabled(table), Recorded(records),
         NEW w \in Visitor, Remembered(table, records, w), Allows(table, w, MaxRequests),
         NEW next \in Passed(table, w),
         NEW after, after = [records EXCEPT ![w] = Latest(Append(@, 0), MaxRequests + 1)]
  PROVE  /\ Tabled(next) /\ Recorded(after) /\ Remembered(next, after, w)
         /\ PassesAlone(records, after, w)
<1> DEFINE b == BucketOf(table, w)
           p == records[w]
           c == next[w]
           q == after[w]
<1>1. /\ Bounded(next) /\ w \in DOMAIN next /\ DOMAIN next \subseteq DOMAIN table \cup {w}
      /\ next[w] = Append(Fresh(BucketOf(table, w)), 0)
      /\ \A i \in DOMAIN next \ {w} : next[i] = table[i]
  <2>1. Bounded(table)
    BY DEF Tabled
  <2>2. next \in Passed(table, w)
    OBVIOUS
  <2>3. Bounded(next) /\ w \in DOMAIN next /\ DOMAIN next \subseteq DOMAIN table \cup {w}
    BY <2>1, <2>2, PassedTable
  <2>4. next[w] = Append(Fresh(BucketOf(table, w)), 0)
    BY <2>1, <2>2, PassedTable
  <2>5. Keeps(table, next, w)
    BY <2>1, <2>2, PassedTable
  <2>. QED
    BY <2>3, <2>4, <2>5 DEF Keeps
<1>2. /\ q = Latest(Append(p, 0), MaxRequests + 1)
      /\ \A v \in Visitor \ {w} : after[v] = records[v]
      /\ after = [v \in Visitor |-> after[v]]
  BY DEF Recorded
<1>3. Ages(b) /\ Len(b) \in Nat
  BY TabledBucket
<1>4. Ages(p) /\ Unexpired(p) /\ Len(p) <= MaxRequests + 1
  BY DEF Recorded
<1>5. Matches(b, p) /\ (Len(b) < Len(p) => Overtaken(records, w, p[Len(p) - Len(b)]))
  BY DEF Remembered
<1>6. Len(Fresh(b)) < MaxRequests
  <2>1. Fresh(<<>>) = <<>>
    BY DEF Fresh
  <2>. QED
    BY <2>1 DEF Allows, FreshOf, BucketOf
<1>7. c = Append(Fresh(b), 0)
  BY <1>1
<1>. HIDE DEF b, p, c, q
<1>8. /\ Ages(c) /\ c # <<>> /\ Len(c) <= MaxRequests
      /\ Ages(q) /\ Unexpired(q) /\ q # <<>> /\ Len(q) <= MaxRequests + 1 /\ Last(q) = 0
      /\ Matches(c, q)
      /\ Len(c) < Len(q) => Len(b) < Len(p) /\ q[Len(q) - Len(c)] = p[Len(p) - Len(b)]
  <2>1. /\ Ages(b) /\ Ages(p) /\ Unexpired(p) /\ Matches(b, p)
        /\ Len(p) <= MaxRequests + 1 /\ Len(Fresh(b)) < MaxRequests
        /\ c = Append(Fresh(b), 0) /\ q = Latest(Append(p, 0), MaxRequests + 1)
    BY <1>2, <1>3, <1>4, <1>5, <1>6, <1>7
  <2>2. Ages(c) /\ c # <<>> /\ Len(c) <= MaxRequests /\ Matches(c, q)
    BY <2>1, PassedRecord
  <2>3. Ages(q) /\ Unexpired(q) /\ q # <<>> /\ Len(q) <= MaxRequests + 1 /\ Last(q) = 0
    BY <2>1, PassedRecord
  <2>4. Len(c) < Len(q) => Len(b) < Len(p) /\ q[Len(q) - Len(c)] = p[Len(p) - Len(b)]
    BY <2>1, PassedRecord
  <2>. QED
    BY <2>2, <2>3, <2>4
<1>9. Tabled(next)
  BY <1>1, <1>8 DEF Tabled, c
<1>10. Recorded(after)
  <2>1. IsFiniteSet({v \in Visitor : after[v] # <<>>})
    <3> DEFINE S == {v \in Visitor : records[v] # <<>>}
    <3>1. IsFiniteSet(S)
      BY DEF Recorded
    <3>2. {v \in Visitor : after[v] # <<>>} = S \cup {w}
      BY <1>2, <1>8 DEF q
    <3>. HIDE DEF S
    <3>3. IsFiniteSet(S \cup {w})
      BY <3>1, FS_AddElement
    <3>. QED
      BY <3>2, <3>3
  <2>2. \A v \in Visitor :
          Ages(after[v]) /\ Unexpired(after[v]) /\ Len(after[v]) <= MaxRequests + 1
    BY <1>2, <1>8 DEF Recorded, q
  <2>. QED
    BY <1>2, <2>1, <2>2 DEF Recorded
<1>11. Remembered(next, after, w)
  <2>1. ASSUME Len(c) < Len(q)
        PROVE  Overtaken(after, w, q[Len(q) - Len(c)])
    <3> DEFINE age == p[Len(p) - Len(b)]
    <3>1. Overtaken(records, w, age) /\ q[Len(q) - Len(c)] = age
      BY <1>5, <1>8, <2>1
    <3>2. \A u \in Visitor \ {w} : after[u] = records[u]
      BY <1>2
    <3>. HIDE DEF age
    <3>3. Overtaken(after, w, age)
      <4>1. StillPassed(records, after, w, age, age)
        BY <3>2 DEF StillPassed
      <4>. QED
        BY <3>1, <4>1, OvertakenStays
    <3>. QED
      BY <3>1, <3>3
  <2>2. BucketOf(next, w) = c
    BY <1>1 DEF BucketOf, c
  <2>. QED
    BY <1>8, <2>1, <2>2 DEF Remembered, q
<1>12. PassesAlone(records, after, w)
  BY <1>2, <1>8 DEF PassesAlone, q
<1>. QED
  BY <1>9, <1>10, <1>11, <1>12

\* The others are remembered or overtaken.
LEMMA PassedOthers ==
  ASSUME NEW table, NEW records, Recalled(table, records),
         NEW w \in Visitor, NEW next \in Passed(table, w),
         NEW after, PassesAlone(records, after, w), NEW v \in Visitor, v # w
  PROVE  Remembered(next, after, v)
<1>1. /\ Tabled(table) /\ Recorded(records)
      /\ \A u \in Visitor : Remembered(table, records, u)
      /\ after[w] # <<>> /\ Last(after[w]) = 0
      /\ \A u \in Visitor \ {w} : after[u] = records[u]
  BY DEF Recalled, PassesAlone
<1> DEFINE b == BucketOf(table, v)
           p == records[v]
<1>2. /\ w \in DOMAIN next /\ DOMAIN next \subseteq DOMAIN table \cup {w}
      /\ \A i \in DOMAIN next \ {w} : next[i] = table[i]
      /\ \/ DOMAIN next = DOMAIN table \cup {w}
         \/ \E j \in DOMAIN table \ {w} : Evicts(table, next, w, j)
  <2>1. Bounded(table)
    BY <1>1 DEF Tabled
  <2>2. next \in Passed(table, w)
    OBVIOUS
  <2>3. w \in DOMAIN next /\ DOMAIN next \subseteq DOMAIN table \cup {w}
    BY <2>1, <2>2, PassedTable
  <2>4. Keeps(table, next, w)
    BY <2>1, <2>2, PassedTable
  <2>5. \/ DOMAIN next = DOMAIN table \cup {w}
        \/ \E j \in DOMAIN table \ {w} : Evicts(table, next, w, j)
    BY <2>1, <2>2, PassedTable
  <2>. QED
    BY <2>3, <2>4, <2>5 DEF Keeps
<1>3. \A u \in Visitor : Ages(records[u]) /\ Unexpired(records[u])
  BY <1>1 DEF Recorded
<1>4. \A u \in DOMAIN table :
        /\ u \in Visitor /\ Ages(table[u]) /\ table[u] # <<>>
        /\ Matches(table[u], records[u])
  BY <1>1 DEF Tabled, Remembered, BucketOf
<1>5. \A u \in DOMAIN table :
        /\ records[u] # <<>> => Last(table[u]) = Last(records[u])
        /\ Last(table[u]) < Window => records[u] # <<>>
        /\ Last(table[u]) \in Nat
        /\ records[u] # <<>> => Last(table[u]) < Window
  <2>. TAKE u \in DOMAIN table
  <2>1. /\ records[u] # <<>> => Last(table[u]) = Last(records[u])
        /\ Last(table[u]) < Window => records[u] # <<>>
    BY <1>3, <1>4, LastMatches
  <2>2. Last(table[u]) \in Nat
    BY <1>4, LastAge
  <2>3. records[u] # <<>> => Last(records[u]) < Window
    BY <1>3, <1>4, LastAge
  <2>. QED
    BY <2>1, <2>2, <2>3
<1>6. CASE BucketOf(next, v) = b
  <2>1. Matches(b, p) /\ (Len(b) < Len(p) => Overtaken(records, v, p[Len(p) - Len(b)]))
    BY <1>1 DEF Remembered
  <2>2. ASSUME Len(b) < Len(p)
        PROVE  Overtaken(after, v, p[Len(p) - Len(b)])
    <3> DEFINE age == p[Len(p) - Len(b)]
    <3>1. age >= 0
      <4>1. Ages(b) /\ Ages(p)
        BY <1>1, <1>3, TabledBucket
      <4>. QED
        BY <2>2, <4>1, LackingAge
    <3>2. Overtaken(records, v, age)
      BY <2>1, <2>2
    <3>. HIDE DEF age
    <3>3. Overtaken(after, v, age)
      <4>1. StillPassed(records, after, v, age, age)
        BY <1>1, <3>1 DEF StillPassed
      <4>. QED
        BY <3>2, <4>1, OvertakenStays
    <3>. QED
      BY <3>3 DEF age
  <2>. QED
    BY <1>1, <1>6, <2>1, <2>2 DEF Remembered
<1>7. CASE BucketOf(next, v) # b
  <2>1. v \in DOMAIN table /\ v \notin DOMAIN next
    BY <1>2, <1>7 DEF BucketOf
  <2>2. /\ Cardinality(DOMAIN next) >= MaxBuckets
        /\ \A i \in DOMAIN next \ {w} : Last(table[i]) <= Last(table[v])
    <3>1. PICK j \in DOMAIN table \ {w} : Evicts(table, next, w, j)
      BY <1>2, <2>1
    <3>2. j = v
      BY <2>1, <3>1 DEF Evicts
    <3>. QED
      BY <3>1, <3>2 DEF Evicts
  <2>3. ASSUME p # <<>>
        PROVE  Overtaken(after, v, Last(p))
    <3>1. Last(table[v]) = Last(p) /\ Last(p) < Window /\ Last(p) \in Nat
      BY <1>5, <2>1, <2>3
    <3>2. ASSUME NEW u \in DOMAIN next
          PROVE  after[u] # <<>> /\ Last(after[u]) <= Last(p)
      <4>1. CASE u = w
        BY <1>1, <3>1, <4>1
      <4>2. CASE u # w
        <5>1. u \in DOMAIN table /\ u \in Visitor \ {w} /\ Last(table[u]) <= Last(p)
          BY <1>2, <1>4, <2>2, <3>1, <4>2
        <5>2. /\ Last(table[u]) \in Nat
              /\ Last(table[u]) < Window => records[u] # <<>>
              /\ records[u] # <<>> => Last(table[u]) = Last(records[u])
          BY <1>5, <5>1
        <5>3. records[u] # <<>> /\ Last(table[u]) = Last(records[u])
          BY <3>1, <5>1, <5>2
        <5>4. after[u] = records[u]
          BY <1>1, <5>1
        <5>5. Last(after[u]) <= Last(p)
          BY <5>1, <5>3, <5>4
        <5>. QED
          BY <5>3, <5>4, <5>5
      <4>. QED
        BY <4>1, <4>2
    <3>3. DOMAIN next \in SUBSET (Visitor \ {v})
      BY <1>2, <1>4, <2>1
    <3>. QED
      BY <2>2, <3>2, <3>3 DEF Overtaken
  <2>4. BucketOf(next, v) = <<>> /\ after[v] = p
    BY <1>1, <2>1 DEF BucketOf
  <2>5. Len(p) \in Nat /\ (Len(p) > 0 => p # <<>>) /\ Last(p) = p[Len(p)]
    BY <1>3 DEF Ages, Last
  <2>. QED
    BY <2>3, <2>4, <2>5, NoAges DEF Remembered
<1>. QED
  BY <1>6, <1>7

LEMMA PassedRecalled ==
  ASSUME NEW table, NEW records, Recalled(table, records),
         NEW w \in Visitor, Allows(table, w, MaxRequests), NEW next \in Passed(table, w),
         NEW after, after = [records EXCEPT ![w] = Latest(Append(@, 0), MaxRequests + 1)]
  PROVE  Recalled(next, after)
<1>1. Tabled(table) /\ Recorded(records) /\ Remembered(table, records, w)
  BY DEF Recalled
<1>2. Tabled(next) /\ Recorded(after) /\ Remembered(next, after, w)
  BY <1>1, PassedRecorded
<1>3. PassesAlone(records, after, w)
  BY <1>1, PassedRecorded
<1>4. ASSUME NEW v \in Visitor, v # w PROVE Remembered(next, after, v)
  BY <1>3, <1>4, PassedOthers
<1>. QED
  BY <1>2, <1>4 DEF Recalled

\* Time passes for a visitor and for those who passed since.
LEMMA AgedOvertaken ==
  ASSUME NEW records, Recorded(records),
         NEW after, \A v \in Visitor : after[v] = Fresh(Aged(records[v])),
         NEW v \in Visitor, NEW age \in 0..Window, Older(age) < Window,
         Overtaken(records, v, age)
  PROVE  Overtaken(after, v, Older(age))
<1>1. ASSUME NEW u \in Visitor \ {v}, records[u] # <<>>, Last(records[u]) <= age
      PROVE  after[u] # <<>> /\ Last(after[u]) <= Older(age)
  <2>1. Ages(records[u]) /\ Last(records[u]) \in 0..Window
    BY <1>1, LastAge DEF Recorded
  <2>2. Older(Last(records[u])) <= Older(age)
    BY <1>1, <2>1 DEF Older
  <2>3. Older(Last(records[u])) < Window
    BY <2>1, <2>2 DEF Older
  <2>4. after[u] # <<>> /\ Last(after[u]) = Older(Last(records[u]))
    <3>1. after[u] = Fresh(Aged(records[u]))
      OBVIOUS
    <3>. QED
      BY <1>1, <2>1, <2>3, <3>1, AgedLast
  <2>. QED
    BY <2>2, <2>4
<1>2. StillPassed(records, after, v, age, Older(age))
  BY <1>1 DEF StillPassed
<1>. QED
  BY <1>2, OvertakenStays

LEMMA AgedRecalled ==
  ASSUME NEW table, NEW records, Recalled(table, records),
         NEW next, next = AgedAll(table),
         NEW after, after = [v \in Visitor |-> Fresh(Aged(records[v]))]
  PROVE  Recalled(next, after)
<1>1. /\ Tabled(table) /\ Recorded(records)
      /\ \A v \in Visitor : Remembered(table, records, v)
  BY DEF Recalled
<1>2. /\ after = [v \in Visitor |-> after[v]]
      /\ \A v \in Visitor : after[v] = Fresh(Aged(records[v]))
  OBVIOUS
<1>3. DOMAIN next = DOMAIN table
  BY AgedTable
<1>4. ASSUME NEW v \in Visitor
      PROVE  /\ Ages(BucketOf(next, v)) /\ Len(BucketOf(next, v)) = Len(BucketOf(table, v))
             /\ Ages(after[v]) /\ Unexpired(after[v]) /\ Len(after[v]) <= Len(records[v])
             /\ Remembered(next, after, v)
  <2> DEFINE b == BucketOf(table, v)
             p == records[v]
             c == BucketOf(next, v)
             q == after[v]
  <2>1. c = Aged(b) /\ q = Fresh(Aged(p))
    BY <1>2, AgedTable
  <2>2. Ages(b) /\ Ages(p) /\ Matches(b, p)
    BY <1>1, TabledBucket DEF Recorded, Remembered
  <2>3. Len(b) < Len(p) => Overtaken(records, v, p[Len(p) - Len(b)])
    BY <1>1 DEF Remembered
  <2>. HIDE DEF b, p, c, q
  <2>4. Ages(c) /\ Len(c) = Len(b) /\ Ages(q) /\ Unexpired(q) /\ Len(q) <= Len(p)
    BY <2>1, <2>2, AgedMatches, AgedPasses
  <2>5. Matches(c, q)
    BY <2>1, <2>2, AgedMatches
  <2>6. ASSUME Len(c) < Len(q)
        PROVE  Overtaken(after, v, q[Len(q) - Len(c)])
    <3>1. /\ Len(b) < Len(p) /\ q[Len(q) - Len(c)] = Older(p[Len(p) - Len(b)])
          /\ Older(p[Len(p) - Len(b)]) < Window
      BY <2>1, <2>2, <2>6, AgedLacking
    <3> DEFINE age == p[Len(p) - Len(b)]
    <3>2. age \in 0..Window
      BY <2>2, <3>1, LackingAge
    <3>3. Overtaken(records, v, age) /\ Older(age) < Window /\ q[Len(q) - Len(c)] = Older(age)
      BY <2>3, <3>1
    <3>. HIDE DEF age
    <3>4. Overtaken(after, v, Older(age))
      BY <1>1, <1>2, <3>2, <3>3, AgedOvertaken
    <3>. QED
      BY <3>3, <3>4
  <2>. QED
    BY <2>4, <2>5, <2>6 DEF Remembered, b, p, c, q
<1>5. Tabled(next)
  <2>1. \A v \in DOMAIN table : BucketOf(next, v) = next[v] /\ BucketOf(table, v) = table[v]
    BY <1>3 DEF BucketOf
  <2>2. \A v \in DOMAIN table : /\ v \in Visitor /\ Ages(table[v]) /\ table[v] # <<>>
                                 /\ Len(table[v]) <= MaxRequests
    BY <1>1 DEF Tabled
  <2>3. ASSUME NEW v \in DOMAIN table
        PROVE  Ages(next[v]) /\ next[v] # <<>> /\ Len(next[v]) <= MaxRequests
    <3>1. Ages(next[v]) /\ Len(next[v]) = Len(table[v])
      BY <1>4, <2>1, <2>2
    <3>2. Len(table[v]) # 0
      BY <2>2, LastAge
    <3>. QED
      BY <2>2, <3>1, <3>2
  <2>. QED
    BY <1>1, <1>3, <2>3 DEF Tabled, Bounded
<1>6. Recorded(after)
  <2>1. IsFiniteSet({v \in Visitor : after[v] # <<>>})
    <3> DEFINE S == {v \in Visitor : records[v] # <<>>}
               T == {v \in Visitor : after[v] # <<>>}
    <3>1. ASSUME NEW v \in T PROVE v \in S
      <4>1. Ages(records[v]) /\ Ages(after[v]) /\ Len(after[v]) <= Len(records[v]) /\ after[v] # <<>>
        BY <1>1, <1>4, <3>1 DEF Recorded
      <4>. QED
        BY <4>1, LastAge
    <3>2. IsFiniteSet(S)
      BY <1>1 DEF Recorded
    <3>. HIDE DEF S, T
    <3>3. IsFiniteSet(T)
      BY <3>1, <3>2, FS_Subset
    <3>. QED
      BY <3>3 DEF T
  <2>2. \A v \in Visitor : Len(after[v]) <= MaxRequests + 1
    <3>. TAKE v \in Visitor
    <3>1. Len(after[v]) <= Len(records[v]) /\ Len(records[v]) <= MaxRequests + 1
      BY <1>1, <1>4 DEF Recorded
    <3>2. Len(after[v]) \in Nat /\ Len(records[v]) \in Nat
      BY <1>1, <1>4 DEF Recorded, Ages
    <3>. QED
      BY <3>1, <3>2
  <2>. QED
    BY <1>2, <1>4, <2>1, <2>2 DEF Recorded
<1>. QED
  BY <1>4, <1>5, <1>6 DEF Recalled

LEMMA PassedTogether ==
  ASSUME NEW table, NEW p, Complete(table, p), Allows(table, "__global__", GlobalMax),
         NEW next \in Passed(table, "__global__"),
         NEW q, q = Latest(Append(p, 0), GlobalMax + 1)
  PROVE  Complete(next, q)
<1> DEFINE b == BucketOf(table, "__global__")
           t == Fresh(b)
           c == BucketOf(next, "__global__")
<1>1. /\ DOMAIN table \subseteq {"__global__"}
      /\ Ages(b) /\ Ages(p) /\ Unexpired(p) /\ Matches(b, p)
      /\ Len(p) <= Len(b) /\ Len(b) <= GlobalMax
  BY DEF Complete
<1>2. Len(t) < GlobalMax
  <2>1. Fresh(<<>>) = <<>>
    BY DEF Fresh
  <2>. QED
    BY <2>1 DEF Allows, FreshOf, BucketOf
<1>3. Bounded(table)
  <2>1. IsFiniteSet({"__global__"}) /\ Cardinality({"__global__"}) = 1
    BY FS_Singleton
  <2>2. IsFiniteSet(DOMAIN table) /\ Cardinality(DOMAIN table) <= 1
    BY <1>1, <2>1, FS_Subset
  <2>3. Cardinality(DOMAIN table) \in Nat
    BY <2>2, FS_CardinalityType
  <2>. QED
    BY <2>2, <2>3 DEF Bounded
<1>4. DOMAIN next \subseteq {"__global__"} /\ c = Append(t, 0)
  <2>1. "__global__" \in DOMAIN next /\ DOMAIN next \subseteq DOMAIN table \cup {"__global__"}
    BY <1>3, PassedTable
  <2>2. next["__global__"] = Append(Fresh(BucketOf(table, "__global__")), 0)
    BY <1>3, PassedTable
  <2>. QED
    BY <1>1, <2>1, <2>2 DEF BucketOf
<1>. HIDE DEF b, t, c
<1>5. Ages(t) /\ Matches(t, p) /\ (Len(t) < Len(p) => Len(t) = Len(b))
  BY <1>1, FreshBucket, FreshMatches DEF t
<1>6. Len(t) \in Nat /\ Len(p) \in Nat /\ Len(p) <= Len(t)
  <2>1. Len(t) \in Nat /\ Len(p) \in Nat /\ Len(b) \in Nat
    BY <1>1, <1>5 DEF Ages
  <2>. QED
    BY <1>1, <1>5, <2>1
<1>7. Ages(c) /\ Len(c) = Len(t) + 1
  BY <1>4, <1>5, AppendedBucket
<1>8. /\ Ages(Append(p, 0)) /\ Unexpired(Append(p, 0)) /\ Len(Append(p, 0)) = Len(p) + 1
      /\ Matches(c, Append(p, 0))
  BY <1>1, <1>4, <1>5, AppendedBucket, AppendMatches
<1>9. q = Append(p, 0)
  BY <1>2, <1>6, <1>8 DEF Latest
<1>10. Len(q) <= Len(c) /\ Len(c) <= GlobalMax
  BY <1>2, <1>6, <1>7, <1>8, <1>9
<1>. QED
  BY <1>4, <1>7, <1>8, <1>9, <1>10 DEF Complete, c

LEMMA AgedTogether ==
  ASSUME NEW table, NEW p, Complete(table, p), NEW next, next = AgedAll(table),
         NEW q, q = Fresh(Aged(p))
  PROVE  Complete(next, q)
<1> DEFINE b == BucketOf(table, "__global__")
           c == BucketOf(next, "__global__")
<1>1. /\ DOMAIN table \subseteq {"__global__"}
      /\ Ages(b) /\ Ages(p) /\ Unexpired(p) /\ Matches(b, p)
      /\ Len(p) <= Len(b) /\ Len(b) <= GlobalMax
  BY DEF Complete
<1>2. DOMAIN next = DOMAIN table /\ c = Aged(b)
  BY AgedTable
<1>. HIDE DEF b, c
<1>3. Ages(c) /\ Len(c) = Len(b) /\ Matches(c, q)
  BY <1>1, <1>2, AgedMatches
<1>4. Ages(q) /\ Unexpired(q) /\ Len(q) <= Len(p)
  BY <1>1, AgedPasses
<1>5. Len(q) \in Nat /\ Len(p) \in Nat /\ Len(b) \in Nat
  BY <1>1, <1>4 DEF Ages
<1>6. Len(q) <= Len(c) /\ Len(c) <= GlobalMax
  BY <1>1, <1>3, <1>4, <1>5
<1>. QED
  BY <1>1, <1>2, <1>3, <1>4, <1>6 DEF Complete, c

-----------------------------------------------------------------------------
(* The limiters' part of the invariant. *)

LEMMA NothingPassed == Recalled(<<>>, [v \in Visitor |-> <<>>]) /\ Complete(<<>>, <<>>)
<1>1. DOMAIN <<>> = {} /\ \A k : BucketOf(<<>>, k) = <<>>
  BY DEF BucketOf
<1>2. IsFiniteSet({}) /\ Cardinality({}) = 0
  BY FS_EmptySet
<1>3. Tabled(<<>>)
  BY <1>1, <1>2 DEF Tabled, Bounded
<1>4. Complete(<<>>, <<>>)
  BY <1>1, NoAges DEF Complete
<1>5. Recorded([v \in Visitor |-> <<>>])
  <2>1. {v \in Visitor : [u \in Visitor |-> <<>>][v] # <<>>} = {}
    OBVIOUS
  <2>. QED
    BY <1>2, <2>1, NoAges DEF Recorded
<1>6. \A v \in Visitor : Remembered(<<>>, [u \in Visitor |-> <<>>], v)
  BY <1>1, NoAges DEF Remembered
<1>. QED
  BY <1>3, <1>4, <1>5, <1>6 DEF Recalled

LEMMA LimitsInit == Started => LimitInv
  BY NothingPassed DEF Started, NoBuckets, LimitInv, VisitorsInv, TogetherInv

LEMMA LimitsPassed ==
  ASSUME VisitorsInv, NEW w \in Visitor, PassesVisitor(w)
  PROVE  VisitorsInv'
  BY PassedRecalled DEF VisitorsInv, PassesVisitor, Remembers

LEMMA LimitsAged == ASSUME LimitInv, Tick PROVE LimitInv'
<1>1. VisitorsInv'
  BY AgedRecalled DEF Tick, LimitInv, VisitorsInv
<1>2. TogetherInv'
  BY AgedTogether DEF Tick, LimitInv, TogetherInv
<1>. QED
  BY <1>1, <1>2 DEF LimitInv

LEMMA LimitsStep == LimitInv /\ [Next]_vars => LimitInv'
<1>. SUFFICES ASSUME LimitInv, [Next]_vars PROVE LimitInv'
  OBVIOUS
<1>1. CASE UNCHANGED limits
  BY <1>1 DEF limits, LimitInv, VisitorsInv, TogetherInv
<1>2. ASSUME NEW r \in Request, NEW v \in Visitor, Submit(r, v)
      PROVE  LimitInv'
  <2>1. VisitorsInv'
    BY <1>2, LimitsPassed DEF Submit, LimitInv
  <2>2. TogetherInv'
    BY <1>2, PassedTogether DEF Submit, LimitInv, TogetherInv
  <2>. QED
    BY <2>1, <2>2 DEF LimitInv
<1>3. ASSUME NEW v \in Visitor, RefusedTogether(v)
      PROVE  LimitInv'
  BY <1>3, LimitsPassed DEF RefusedTogether, LimitInv, TogetherInv
<1>4. CASE Crash
  BY <1>4, NothingPassed DEF Crash, NoBuckets, LimitInv, VisitorsInv, TogetherInv
<1>5. ASSUME NEW r \in Request, Goes(r)
      PROVE  UNCHANGED limits
  BY <1>5 DEF Goes, GiveUp, Create, NotCreated, End, NotEnded
<1>6. CASE Sweep \/ NewDay \/ UNCHANGED vars
  BY <1>1, <1>6 DEF Sweep, NewDay, vars
<1>. QED
  BY <1>1, <1>2, <1>3, <1>4, <1>5, <1>6, LimitsAged DEF Next

-----------------------------------------------------------------------------
(* The limits, and the types. *)

\* Whatever is refused later, and whichever buckets are evicted: no more pass
\* in a Window than the limits allow, but for a visitor who is forgotten,
\* which takes MaxBuckets others that pass in between.
THEOREM LimitsAreKept == Spec => []WithinLimits
<1>1. LimitInv => WithinLimits
  <2>. SUFFICES ASSUME LimitInv PROVE WithinLimits
    OBVIOUS
  <2>1. Len(admitted) <= GlobalMax
    <3> DEFINE b == BucketOf(together, "__global__")
    <3>1. Ages(b) /\ Ages(admitted) /\ Len(admitted) <= Len(b) /\ Len(b) <= GlobalMax
      BY DEF LimitInv, TogetherInv, Complete
    <3>. HIDE DEF b
    <3>2. Len(b) \in Nat /\ Len(admitted) \in Nat
      BY <3>1 DEF Ages
    <3>. QED
      BY <3>1, <3>2
  <2>2. ASSUME NEW v \in Visitor, Len(passes[v]) > MaxRequests
        PROVE  Cardinality(Between(v)) >= MaxBuckets
    <3> DEFINE b == BucketOf(buckets, v)
               p == passes[v]
               age == p[Len(p) - Len(b)]
    <3>1. Ages(b) /\ Len(b) <= MaxRequests /\ Len(b) \in Nat
      BY TabledBucket DEF LimitInv, VisitorsInv, Recalled
    <3>2. /\ \A u \in Visitor : Ages(passes[u])
          /\ IsFiniteSet({u \in Visitor : passes[u] # <<>>})
      BY DEF LimitInv, VisitorsInv, Recalled, Recorded
    <3>3. Len(b) < Len(p) => Overtaken(passes, v, age)
      BY DEF LimitInv, VisitorsInv, Recalled, Remembered
    <3>4. Ages(p) /\ Len(p) \in Nat /\ Len(b) < Len(p)
      BY <2>2, <3>1, <3>2 DEF Ages
    <3>5. age \in 0..Window /\ p[1] \in 0..Window /\ age <= p[1]
      <4>1. Len(p) - Len(b) \in DOMAIN p /\ p \in Seq(0..Window) /\ DOMAIN p = 1..Len(p)
        BY <3>1, <3>4, LackingAge DEF Ages
      <4>2. 1 \in DOMAIN p /\ 1 <= Len(p) - Len(b)
        BY <3>4, <4>1
      <4>3. \A i, j \in DOMAIN p : i <= j => p[j] <= p[i]
        BY <3>4 DEF Ages
      <4>4. p[Len(p) - Len(b)] \in 0..Window /\ p[1] \in 0..Window
        BY <4>1, <4>2
      <4>. QED
        BY <4>1, <4>2, <4>3, <4>4
    <3>6. PICK U \in SUBSET (Visitor \ {v}) :
            /\ Cardinality(U) >= MaxBuckets
            /\ \A u \in U : passes[u] # <<>> /\ Last(passes[u]) <= age
      BY <3>3, <3>4 DEF Overtaken
    <3>7. ASSUME NEW u \in U PROVE u \in Between(v)
      <4>1. Ages(passes[u]) /\ passes[u] # <<>> /\ Last(passes[u]) <= age
        BY <3>2, <3>6
      <4>2. /\ Last(passes[u]) \in 0..Window /\ Last(passes[u]) = passes[u][Len(passes[u])]
            /\ Len(passes[u]) \in DOMAIN passes[u]
        BY <4>1, LastAge DEF Ages
      <4>3. passes[u][Len(passes[u])] <= Head(p)
        <5>1. Head(p) = p[1]
          BY <3>4 DEF Ages
        <5>. QED
          BY <3>5, <4>1, <4>2, <5>1
      <4>. QED
        BY <4>2, <4>3 DEF Between
    <3>8. IsFiniteSet(Between(v))
      <4> DEFINE S == {u \in Visitor : passes[u] # <<>>}
      <4>1. ASSUME NEW u \in Between(v) PROVE u \in S
        BY DEF Between
      <4>2. IsFiniteSet(S)
        BY <3>2
      <4>. HIDE DEF S
      <4>. QED
        BY <4>1, <4>2, FS_Subset
    <3>9. Cardinality(U) <= Cardinality(Between(v))
      BY <3>7, <3>8, FS_Subset
    <3>10. IsFiniteSet(U) /\ Cardinality(U) \in Nat /\ Cardinality(Between(v)) \in Nat
      BY <3>7, <3>8, FS_Subset, FS_CardinalityType
    <3>. QED
      BY <3>6, <3>9, <3>10
  <2>. QED
    BY <2>1, <2>2 DEF WithinLimits
<1>. QED
  <2>1. Init => LimitInv
    BY LimitsInit DEF Init
  <2>. QED
    BY <1>1, <2>1, LimitsStep, PTL DEF Spec

\* How long the table of runs is, and how many of them are of the present day.
SizesInv ==
  /\ Len(runs) <= MaxRuns
  /\ today \in 0..DailyLimit
  /\ \A r \in Request : requests[r].run \in 0..MaxRuns

LEMMA SizesStep == IInv /\ SizesInv /\ [Next]_vars => SizesInv'
<1>. SUFFICES ASSUME IInv, SizesInv, [Next]_vars PROVE SizesInv'
  OBVIOUS
<1>1. /\ runs \in Seq(Run) /\ Len(runs) \in Nat
      /\ requests = [r \in Request |-> requests[r]]
  BY DEF IInv, Typed
<1>2. ASSUME NEW r \in Request, NEW place, NEW n \in 0..MaxRuns,
             requests' = [requests EXCEPT ![r] = [place |-> place, run |-> n]]
      PROVE  \A q \in Request : requests'[q].run \in 0..MaxRuns
  BY <1>1, <1>2 DEF SizesInv
<1>3. ASSUME NEW r \in Request, Leaves(r)
      PROVE  \A q \in Request : requests'[q].run \in 0..MaxRuns
  <2>1. 0 \in 0..MaxRuns
    OBVIOUS
  <2>. QED
    BY <1>2, <1>3, <2>1 DEF Leaves, Idle
<1>4. ASSUME runs' \in Seq(Run), DOMAIN runs' = DOMAIN runs
      PROVE  Len(runs') = Len(runs)
  BY <1>1, <1>4
<1>5. ASSUME NEW r \in Request, NEW v \in Visitor, Submit(r, v)
      PROVE  SizesInv'
  <2>1. 0 \in 0..MaxRuns
    OBVIOUS
  <2>. QED
    BY <1>2, <1>5, <2>1 DEF Submit, SizesInv
<1>6. ASSUME NEW r \in Request, Create(r)
      PROVE  SizesInv'
  <2>1. Len(runs') = Len(runs) + 1
    <3>1. [status |-> "running", age |-> 0] \in Run
      BY DEF Run
    <3>. QED
      BY <1>1, <1>6, <3>1 DEF Create
  <2>2. Len(runs) + 1 \in 0..MaxRuns
    BY <1>1, <1>6 DEF Create
  <2>3. \A q \in Request : requests'[q].run \in 0..MaxRuns
    BY <1>2, <1>6, <2>2 DEF Create
  <2>4. today' \in 0..DailyLimit
    BY <1>6 DEF Create, SizesInv
  <2>. QED
    BY <2>1, <2>2, <2>3, <2>4 DEF SizesInv
<1>7. ASSUME NEW r \in Request, NEW status \in Ended, End(r, status)
      PROVE  SizesInv'
  <2>1. DOMAIN runs' = DOMAIN runs
    BY <1>1, <1>7 DEF End
  <2>2. runs' \in Seq(Run)
    <3>1. IInv'
      BY <1>7, EndInvariant
    <3>. QED
      BY <3>1 DEF IInv, Typed
  <2>. QED
    BY <1>3, <1>4, <1>7, <2>1, <2>2 DEF End, SizesInv
<1>8. ASSUME NEW r \in Request, GiveUp(r) \/ NotCreated(r) \/ NotEnded(r)
      PROVE  SizesInv'
  BY <1>3, <1>8 DEF GiveUp, NotCreated, NotEnded, SizesInv
<1>9. ASSUME runs' = Repaired
      PROVE  Len(runs') = Len(runs)
  BY <1>4, <1>9, RepairedRuns
<1>10. CASE Sweep
  BY <1>9, <1>10 DEF Sweep, SizesInv
<1>11. CASE Crash
  <2>1. \A q \in Request : requests'[q].run \in 0..MaxRuns
    BY <1>11 DEF Crash, Idle
  <2>. QED
    BY <1>9, <1>11, <2>1 DEF Crash, SizesInv
<1>12. CASE Tick
  <2>1. DOMAIN runs' = DOMAIN runs
    BY <1>12 DEF Tick
  <2>2. runs' \in Seq(Run)
    <3>1. IInv'
      BY <1>12, TickInvariant
    <3>. QED
      BY <3>1 DEF IInv, Typed
  <2>. QED
    BY <1>4, <1>12, <2>1, <2>2 DEF Tick, SizesInv
<1>13. CASE NewDay \/ UNCHANGED vars \/ \E v \in Visitor : RefusedTogether(v)
  BY <1>13 DEF NewDay, vars, RefusedTogether, SizesInv
<1>. QED
  BY <1>5, <1>6, <1>7, <1>8, <1>10, <1>11, <1>12, <1>13 DEF Next, Goes

\* The types: the tables of the limiters and that of the runs stay within their
\* sizes, and no more slots are free than there are.
THEOREM TypeIsCorrect == Spec => []TypeOK
<1>1. Init => IInv /\ LimitInv /\ SizesInv
  <2>1. ASSUME Init PROVE SizesInv
    BY <2>1 DEF Init, Started, SizesInv, Idle
  <2>2. Init => LimitInv
    BY LimitsInit DEF Init
  <2>. QED
    BY <2>1, <2>2, InitInvariant
<1>2. IInv /\ LimitInv /\ SizesInv => TypeOK
  <2>. SUFFICES ASSUME IInv, LimitInv, SizesInv PROVE TypeOK
    OBVIOUS
  <2>1. DOMAIN buckets \subseteq Visitor /\ Cardinality(DOMAIN buckets) <= MaxBuckets
    BY DEF LimitInv, VisitorsInv, Recalled, Tabled, Bounded
  <2>2. \A v \in DOMAIN buckets : buckets[v] # <<>> /\ Len(buckets[v]) <= MaxRequests
    BY DEF LimitInv, VisitorsInv, Recalled, Tabled
  <2>3. free \in 0..Slots
    <3>1. free \in Nat /\ Cardinality(Holders) \in Nat /\ free + Cardinality(Holders) = Slots
      BY FS_CardinalityType DEF IInv, Typed, SlotsCounted
    <3>. QED
      BY <3>1
  <2>4. requests \in [Request -> [place : {"idle", "waiting", "generating"}, run : 0..MaxRuns]]
    BY DEF IInv, Typed, SizesInv
  <2>5. runs \in Seq(Run) /\ Len(runs) <= MaxRuns /\ today \in 0..DailyLimit
    BY DEF IInv, Typed, SizesInv
  <2>. QED
    BY <2>1, <2>2, <2>3, <2>4, <2>5 DEF TypeOK
<1>. QED
  BY <1>1, <1>2, StepInvariant, LimitsStep, SizesStep, PTL DEF Spec
=============================================================================
