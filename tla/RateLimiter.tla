----------------------------- MODULE RateLimiter -----------------------------
(***************************************************************************)
(* InMemoryRateLimiter (app/rate_limit.py) as operators over its table of  *)
(* buckets: a function from the keys that have a bucket to the ages of     *)
(* what passed, oldest first.  Age Window stands for Window or more.       *)
(*                                                                         *)
(* A refusal changes nothing that a later call would notice.  A bucket is  *)
(* never empty between two calls, so the code that removes the empty ones  *)
(* of a full table finds none.                                             *)
(***************************************************************************)
EXTENDS Naturals, SequencesExt

CONSTANTS Window, MaxBuckets

ASSUME WindowAssumption == Window \in Nat \ {0}
ASSUME BucketsAssumption == MaxBuckets \in Nat \ {0}

NoBuckets == <<>>

Older(age) == IF age < Window THEN age + 1 ELSE Window
Aged(bucket) == [i \in DOMAIN bucket |-> Older(bucket[i])]
AgedAll(buckets) == [k \in DOMAIN buckets |-> Aged(buckets[k])]

\* What is left of a bucket at the next call, which pops the expired from the
\* left end.
Fresh(bucket) ==
  LET live == {i \in DOMAIN bucket : bucket[i] < Window}
  IN  IF live = {} THEN <<>> ELSE SubSeq(bucket, Min(live), Len(bucket))
FreshOf(buckets, k) == IF k \in DOMAIN buckets THEN Fresh(buckets[k]) ELSE <<>>

Allows(buckets, k, max) == Len(FreshOf(buckets, k)) < max

\* The keys that may be evicted for k.  Within a unit of time any of them may
\* be the least recent one.
\* Mutant: whichever comes first.
AnyOther(buckets, k) == DOMAIN buckets \ {k}
LeastRecent(buckets, k) ==
  {j \in DOMAIN buckets \ {k} :
     \A i \in DOMAIN buckets \ {k} : Last(buckets[i]) <= Last(buckets[j])}

\* The tables after k has passed.
Passed(buckets, k) ==
  LET all == [j \in DOMAIN buckets \cup {k} |->
                IF j = k THEN Append(FreshOf(buckets, k), 0) ELSE buckets[j]]
  IN IF Cardinality(DOMAIN all) <= MaxBuckets THEN {all}
     ELSE {Restrict(all, DOMAIN all \ {j}) : j \in LeastRecent(all, k)}
=============================================================================
