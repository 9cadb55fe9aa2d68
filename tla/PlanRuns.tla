------------------------------- MODULE PlanRuns -------------------------------
(***************************************************************************)
(* POST /api/plans (create_plan, app/main.py): two rate limits, the slots  *)
(* for model calls (app/rate_limit.py), the table runs (app/store.py) and  *)
(* the planner, which is awaited for a bounded time; and the repair of     *)
(* interrupted runs when history or readiness is asked for.                *)
(*                                                                         *)
(* Time advances in units that are longer than the wait for a slot.  The   *)
(* limiters' clock and that of the table are one here.  A refused request  *)
(* that changes nothing (422, the visitor's 429) is no action.             *)
(***************************************************************************)
EXTENDS RateLimiter, Sequences

CONSTANTS Visitor,     \* the sessions
          Request,     \* the requests that may be under way at the same time
          MaxRequests, \* what the limiters let pass in a Window: of one visitor
          GlobalMax,   \* and of all together
          Slots,       \* max_concurrent_requests
          DailyLimit,  \* runs created in a day
          Timeout,     \* what the planner may take
          TTL,         \* running_ttl_seconds
          Faults,      \* which faults may happen: "crash", "store_error"
          MaxRuns      \* bound on the length of the table

\* The defaults are 42 and 900 seconds; config.py does not enforce it.
ASSUME TimeoutAssumption == Timeout \in Nat /\ TTL \in Nat /\ Timeout <= TTL

ASSUME LimitAssumption ==
  /\ MaxRequests \in Nat \ {0} /\ GlobalMax \in Nat \ {0}
  /\ Slots \in Nat \ {0} /\ DailyLimit \in Nat \ {0} /\ MaxRuns \in Nat

VARIABLES buckets,   \* of the limiter with a key for each visitor
          together,  \* of the limiter with the one key "__global__"
          free,      \* the value of the semaphore
          requests,  \* where each request is, and the run it has created
          runs,      \* the table, oldest first; age is that of a running run
          today,     \* rows of the present day
          passes,    \* history: the latest passes of each visitor in a Window,
                     \* since the process started, one more than allowed
          admitted   \* history: those of all that passed both limiters

limits == <<buckets, together, passes, admitted>>
vars == <<limits, free, requests, runs, today>>

Ended == {"completed", "failed"}
Run == [status : Ended \cup {"running"}, age : 0..TTL + 1]

Idle == [place |-> "idle", run |-> 0]

TypeOK ==
  /\ DOMAIN buckets \subseteq Visitor /\ Cardinality(DOMAIN buckets) <= MaxBuckets
  /\ \A v \in DOMAIN buckets : buckets[v] # <<>> /\ Len(buckets[v]) <= MaxRequests
  /\ free \in 0..Slots
  /\ requests \in [Request -> [place : {"idle", "waiting", "generating"}, run : 0..MaxRuns]]
  /\ runs \in Seq(Run) /\ Len(runs) <= MaxRuns
  /\ today \in 0..DailyLimit

Started ==
  /\ buckets = NoBuckets
  /\ together = NoBuckets
  /\ free = Slots
  /\ requests = [r \in Request |-> Idle]
  /\ passes = [v \in Visitor |-> <<>>]
  /\ admitted = <<>>

Init == Started /\ runs = <<>> /\ today = 0

-----------------------------------------------------------------------------
\* Admission.

At(r, place) == requests[r].place = place

\* History.
Latest(seq, n) == IF Len(seq) > n THEN Tail(seq) ELSE seq
Remembers(v) == passes' = [passes EXCEPT ![v] = Latest(Append(@, 0), MaxRequests + 1)]

PassesVisitor(v) ==
  /\ Allows(buckets, v, MaxRequests)
  /\ buckets' \in Passed(buckets, v)
  /\ Remembers(v)

\* Both limiters let it pass, and it asks for a slot.
Submit(r, v) ==
  /\ At(r, "idle")
  /\ PassesVisitor(v)
  /\ Allows(together, "__global__", GlobalMax)
  /\ together' \in Passed(together, "__global__")
  /\ admitted' = Latest(Append(admitted, 0), GlobalMax + 1)
  /\ requests' = [requests EXCEPT ![r] = [place |-> "waiting", run |-> 0]]
  /\ UNCHANGED <<free, runs, today>>

\* The second one refuses; the first has counted it all the same.
RefusedTogether(v) ==
  /\ PassesVisitor(v)
  /\ ~Allows(together, "__global__", GlobalMax)
  /\ UNCHANGED <<together, admitted, free, requests, runs, today>>

Leaves(r) == requests' = [requests EXCEPT ![r] = Idle]

\* try_acquire times out.
\* Mutant: the slot is released though it was not acquired.
GiveUpReleasing(r) ==
  /\ At(r, "waiting")
  /\ free = 0
  /\ free' = free + 1
  /\ Leaves(r)
  /\ UNCHANGED <<limits, runs, today>>
GiveUp(r) ==
  /\ At(r, "waiting")
  /\ free = 0
  /\ Leaves(r)
  /\ UNCHANGED <<limits, free, runs, today>>

-----------------------------------------------------------------------------
\* Runs.

\* create_running, and the call of the planner.
Create(r) ==
  /\ At(r, "waiting")
  /\ free > 0
  /\ today < DailyLimit
  /\ Len(runs) < MaxRuns
  /\ free' = free - 1
  /\ runs' = Append(runs, [status |-> "running", age |-> 0])
  /\ today' = today + 1
  /\ requests' = [requests EXCEPT ![r] = [place |-> "generating", run |-> Len(runs) + 1]]
  /\ UNCHANGED limits

\* create_running raises, and the slot is released in the same step.  A full
\* table (MaxRuns) is taken for a day that is used up.
NotCreated(r) ==
  /\ At(r, "waiting")
  /\ free > 0
  /\ today = DailyLimit \/ Len(runs) = MaxRuns \/ "store_error" \in Faults
  /\ Leaves(r)
  /\ UNCHANGED <<limits, free, runs, today>>

\* complete and fail: the row is written whatever its status is.
End(r, status) ==
  /\ At(r, "generating")
  /\ runs' = [runs EXCEPT ![requests[r].run].status = status]
  /\ free' = free + 1
  /\ Leaves(r)
  /\ UNCHANGED <<limits, today>>

\* They raise: the run stays as it is, and the slot is released.
\* Mutant: it is released only when they do not.
NotEndedHolding(r) ==
  /\ "store_error" \in Faults
  /\ At(r, "generating")
  /\ Leaves(r)
  /\ UNCHANGED <<limits, free, runs, today>>
NotEnded(r) ==
  /\ "store_error" \in Faults
  /\ At(r, "generating")
  /\ free' = free + 1
  /\ Leaves(r)
  /\ UNCHANGED <<limits, runs, today>>

\* fail_stale_running.
\* Mutants: every running run is taken for an interrupted one; the comparison
\* with the cutoff is reversed.
IsRunning(run) == run.status = "running"
IsYoung(run) == run.status = "running" /\ run.age < TTL
IsStale(run) == run.status = "running" /\ run.age > TTL

Repaired ==
  [i \in DOMAIN runs |-> IF IsStale(runs[i]) THEN [runs[i] EXCEPT !.status = "failed"] ELSE runs[i]]

\* cleanup_stale_runs, on GET /api/runs, /api/runs/{run_id} and /healthz.
Sweep ==
  /\ \E i \in DOMAIN runs : IsStale(runs[i])
  /\ runs' = Repaired
  /\ UNCHANGED <<limits, free, requests, today>>

-----------------------------------------------------------------------------
\* Time passes.  A wait for a slot is shorter than that, and no planner is
\* awaited for longer than its timeout.
Tick ==
  /\ \A r \in Request :
       /\ ~At(r, "waiting")
       /\ At(r, "generating") => runs[requests[r].run].age < Timeout
  /\ buckets' = AgedAll(buckets)
  /\ together' = AgedAll(together)
  /\ passes' = [v \in Visitor |-> Fresh(Aged(passes[v]))]
  /\ admitted' = Fresh(Aged(admitted))
  /\ runs' = [i \in DOMAIN runs |->
       IF runs[i].status = "running" /\ runs[i].age <= TTL
       THEN [runs[i] EXCEPT !.age = @ + 1] ELSE runs[i]]
  /\ UNCHANGED <<free, requests, today>>

\* create_running counts from midnight.
NewDay ==
  /\ today > 0
  /\ today' = 0
  /\ UNCHANGED <<limits, free, requests, runs>>

\* The process restarts: limits and slots are in its memory, and the lifespan
\* of the application begins with cleanup_stale_runs.
Crash ==
  /\ "crash" \in Faults
  /\ buckets' = NoBuckets
  /\ together' = NoBuckets
  /\ free' = Slots
  /\ requests' = [r \in Request |-> Idle]
  /\ passes' = [v \in Visitor |-> <<>>]
  /\ admitted' = <<>>
  /\ runs' = Repaired
  /\ UNCHANGED today

-----------------------------------------------------------------------------
Goes(r) ==
  \/ GiveUp(r) \/ Create(r) \/ NotCreated(r)
  \/ \E status \in Ended : End(r, status)
  \/ NotEnded(r)

Next ==
  \/ \E r \in Request, v \in Visitor : Submit(r, v)
  \/ \E v \in Visitor : RefusedTogether(v)
  \/ \E r \in Request : Goes(r)
  \/ Sweep
  \/ Tick
  \/ NewDay
  \/ Crash

Spec == Init /\ [][Next]_vars

\* The event loop runs every coroutine that can go on and ends every await in
\* time, time passes however often requests hold the loop, and history or
\* readiness is asked for now and then.
FairSpec ==
  /\ Spec
  /\ \A r \in Request : WF_vars(Goes(r))
  /\ SF_vars(Tick)
  /\ WF_vars(Sweep)

-----------------------------------------------------------------------------
(* Safety. *)

\* Whatever is refused later, and whichever buckets are evicted: no more pass
\* in a Window than the limits allow, but for a visitor who is forgotten,
\* which takes MaxBuckets others that pass in between (README.md, "Total 8
\* submissions/minute"; InMemoryRateLimiter.allow).
Between(v) ==
  {u \in Visitor \ {v} :
     \E i \in DOMAIN passes[u] : passes[u][i] <= Head(passes[v])}

WithinLimits ==
  /\ Len(admitted) <= GlobalMax
  /\ \A v \in Visitor :
       Len(passes[v]) > MaxRequests => Cardinality(Between(v)) >= MaxBuckets

\* Every way through create_plan gives back the slot it has taken, and only
\* that one; who holds one has a run of its own that still runs (the finally
\* of create_plan, BoundedConcurrency).
SlotsConserved ==
  LET holders == {r \in Request : At(r, "generating")}
      created == {requests[r].run : r \in holders}
  IN /\ free + Cardinality(holders) = Slots
     /\ Cardinality(created) = Cardinality(holders)
     /\ \A i \in created : runs[i].status = "running"

\* A run ends once: none is failed as stale and then completed by the planner
\* that was still at it, as long as Timeout <= TTL (update writes over any
\* status).
RunsAreFinal ==
  [][\A i \in DOMAIN runs : runs[i].status \in Ended => runs'[i] = runs[i]]_vars

-----------------------------------------------------------------------------
(* Liveness, under FairSpec. *)

\* "Interrupted runs become failed after 15 minutes when history/readiness is
\* checked" (README.md): no crash and no error of the store leaves a run
\* running for ever.
RunsEnd ==
  \A i \in 1..MaxRuns :
    (i \in DOMAIN runs /\ runs[i].status = "running")
      ~> (i \in DOMAIN runs /\ runs[i].status \in Ended)
=============================================================================
