-------------------------- MODULE RateLimiterProofs --------------------------
(***************************************************************************)
(* Lemmas about the operators of RateLimiter: what aging, popping and      *)
(* passing do to a bucket, to the table of buckets, and to a record of     *)
(* passes that is kept beside a bucket.  Entries are counted from the      *)
(* newest, which all of these operations leave at the right end.           *)
(***************************************************************************)
EXTENDS RateLimiter, FiniteSetTheorems, WellFoundedInduction, TLAPS

USE WindowAssumption, BucketsAssumption

\* A bucket: ages, oldest first.
Ages(s) ==
  /\ s \in Seq(0..Window)
  /\ \A i, j \in DOMAIN s : i <= j => s[j] <= s[i]

\* A record of passes has no expired entry.
Unexpired(s) == \A i \in DOMAIN s : s[i] < Window

BucketOf(table, k) == IF k \in DOMAIN table THEN table[k] ELSE <<>>

\* A bucket agrees with the record of the same passes, newest first, and what
\* it has more than the record is expired.
Matches(b, p) ==
  \A d \in 0..(Len(b) - 1) :
    IF d < Len(p) THEN b[Len(b) - d] = p[Len(p) - d] ELSE b[Len(b) - d] = Window

\* A set of naturals has a least element: the well-foundedness of < on Nat
\* needs no induction over an operator.
LEMMA LeastNumber ==
  ASSUME NEW S \in SUBSET Nat, S # {}
  PROVE  Min(S) \in S /\ \A i \in S : Min(S) <= i
<1> DEFINE R == OpToRel(<, Nat)
<1>1. IsWellFoundedOn(R, Nat)
  BY NatLessThanWellFounded
<1>2. \A x, y \in Nat : x < y => <<x, y>> \in R
  BY DEF OpToRel
<1>. HIDE DEF R
<1>3. PICK m \in S : \A y \in S : ~(<<y, m>> \in R)
  BY <1>1, WFMin
<1>4. \A i \in S : ~(i < m)
  BY <1>2, <1>3
<1>5. \E x \in S : \A y \in S : x <= y
  BY <1>4
<1>. QED
  BY <1>5 DEF Min

\* The bucket of a key that is not in the table.
LEMMA NoAges == Ages(<<>>) /\ Unexpired(<<>>) /\ Len(<<>>) = 0 /\ \A p : Matches(<<>>, p)
  BY DEF Ages, Unexpired, Matches

\* The ages in a bucket: the last, and the one that a shorter bucket lacks.
LEMMA LastAge ==
  ASSUME NEW s, Ages(s), s # <<>>
  PROVE  /\ Len(s) \in Nat \ {0} /\ Last(s) = s[Len(s)] /\ Last(s) \in 0..Window
         /\ Unexpired(s) => Last(s) < Window
<1>1. s \in Seq(0..Window) /\ Len(s) \in Nat \ {0}
  BY DEF Ages
<1>2. Len(s) \in DOMAIN s /\ s[Len(s)] \in 0..Window
  BY <1>1
<1>. QED
  BY <1>1, <1>2 DEF Last, Unexpired

LEMMA LackingAge ==
  ASSUME NEW b, NEW p, Ages(b), Ages(p), Len(b) < Len(p)
  PROVE  /\ Len(p) - Len(b) \in 1..Len(p) /\ Len(p) - Len(b) \in DOMAIN p
         /\ p[Len(p) - Len(b)] \in 0..Window /\ p # <<>>
<1>1. p \in Seq(0..Window) /\ Len(b) \in Nat /\ Len(p) \in Nat
  BY DEF Ages
<1>2. Len(p) - Len(b) \in 1..Len(p)
  BY <1>1
<1>. QED
  BY <1>1, <1>2

\* The right end of a sequence.
LEMMA RightEnd ==
  ASSUME NEW S, NEW s \in Seq(S), NEW m \in 1..Len(s), NEW t, t = SubSeq(s, m, Len(s))
  PROVE  /\ t \in Seq(S) /\ Len(t) = Len(s) - m + 1
         /\ \A i \in 1..Len(t) : t[i] = s[m + i - 1]
<1>1. Len(t) = Len(s) - m + 1
  OBVIOUS
<1>2. \A i \in 1..Len(t) : t[i] = s[m + i - 1] /\ s[m + i - 1] \in S
  BY <1>1
<1>3. t \in Seq(S)
  BY <1>1, <1>2
<1>. QED
  BY <1>1, <1>2, <1>3

\* What the pops leave of a bucket is its unexpired right end.
LEMMA FreshBucket ==
  ASSUME NEW s, Ages(s), NEW t, t = Fresh(s)
  PROVE  /\ Ages(t) /\ Unexpired(t) /\ Len(t) <= Len(s)
         /\ \A d \in 0..(Len(t) - 1) : t[Len(t) - d] = s[Len(s) - d]
         /\ \A d \in Len(t)..(Len(s) - 1) : s[Len(s) - d] = Window
<1> DEFINE live == {i \in DOMAIN s : s[i] < Window}
<1>1. s \in Seq(0..Window) /\ DOMAIN s = 1..Len(s) /\ Len(s) \in Nat
  BY DEF Ages
<1>2. \A i \in 1..Len(s) : s[i] \in 0..Window
  BY <1>1
<1>3. CASE live = {}
  <2>1. t = <<>> /\ Len(t) = 0
    BY <1>3 DEF Fresh
  <2>2. \A i \in 1..Len(s) : s[i] = Window
    BY <1>1, <1>2, <1>3
  <2>. QED
    BY <1>1, <2>1, <2>2 DEF Ages, Unexpired
<1>4. CASE live # {}
  <2> DEFINE m == Min(live)
  <2>1. m \in 1..Len(s) /\ s[m] < Window /\ \A i \in live : m <= i
    <3>1. live \in SUBSET Nat
      BY <1>1
    <3>. QED
      BY <1>1, <1>4, <3>1, LeastNumber
  <2>2. t = SubSeq(s, m, Len(s))
    BY <1>4 DEF Fresh
  <2>. HIDE DEF m
  <2>3. Len(t) = Len(s) - m + 1 /\ Len(t) \in Nat
    BY <1>1, <2>1, <2>2, RightEnd
  <2>4. \A i \in 1..Len(t) : t[i] = s[m + i - 1] /\ m + i - 1 \in 1..Len(s)
    BY <1>1, <2>1, <2>2, <2>3, RightEnd
  <2>5. \A i \in m..Len(s) : s[i] < Window
    BY <1>1, <1>2, <2>1 DEF Ages
  <2>6. \A i \in 1..(m - 1) : s[i] = Window
    BY <1>1, <1>2, <2>1
  <2>7. t \in Seq(0..Window)
    BY <1>1, <2>1, <2>2, RightEnd
  <2>8. Ages(t)
    <3>1. DOMAIN t = 1..Len(t)
      BY <2>7
    <3>2. \A i, j \in 1..Len(s) : i <= j => s[j] <= s[i]
      BY <1>1 DEF Ages
    <3>3. ASSUME NEW i \in 1..Len(t), NEW j \in 1..Len(t), i <= j
          PROVE  t[j] <= t[i]
      <4>1. m + i - 1 \in 1..Len(s) /\ m + j - 1 \in 1..Len(s) /\ m + i - 1 <= m + j - 1
        BY <1>1, <2>1, <2>3, <2>4, <3>3
      <4>. QED
        BY <2>4, <3>2, <4>1
    <3>. QED
      BY <2>7, <3>1, <3>3 DEF Ages
  <2>9. Unexpired(t)
    <3>1. DOMAIN t = 1..Len(t)
      BY <2>7
    <3>2. \A i \in 1..Len(t) : m + i - 1 \in m..Len(s)
      BY <1>1, <2>1, <2>3
    <3>. QED
      BY <2>4, <2>5, <3>1, <3>2 DEF Unexpired
  <2>10. \A d \in 0..(Len(t) - 1) : t[Len(t) - d] = s[Len(s) - d]
    <3>1. \A d \in 0..(Len(t) - 1) :
            Len(t) - d \in 1..Len(t) /\ m + (Len(t) - d) - 1 = Len(s) - d
      BY <1>1, <2>1, <2>3
    <3>. QED
      BY <2>4, <3>1
  <2>11. \A d \in Len(t)..(Len(s) - 1) : s[Len(s) - d] = Window
    <3>1. \A d \in Len(t)..(Len(s) - 1) : Len(s) - d \in 1..(m - 1)
      BY <1>1, <2>1, <2>3
    <3>. QED
      BY <2>6, <3>1
  <2>. QED
    BY <1>1, <2>1, <2>3, <2>8, <2>9, <2>10, <2>11
<1>. QED
  BY <1>3, <1>4

\* A unit of time later.
LEMMA AgedBucket ==
  ASSUME NEW s, Ages(s), NEW t, t = Aged(s)
  PROVE  /\ Ages(t) /\ Len(t) = Len(s)
         /\ \A i \in 1..Len(s) : t[i] = Older(s[i])
<1>1. s \in Seq(0..Window) /\ DOMAIN s = 1..Len(s) /\ Len(s) \in Nat
  BY DEF Ages
<1>2. \A i \in 1..Len(s) : s[i] \in 0..Window /\ Older(s[i]) \in 0..Window
  BY <1>1 DEF Older
<1>3. t = [i \in 1..Len(s) |-> Older(s[i])]
  BY <1>1 DEF Aged
<1>4. t \in Seq(0..Window) /\ Len(t) = Len(s) /\ DOMAIN t = 1..Len(s)
  BY <1>1, <1>2, <1>3
<1>5. \A i, j \in 1..Len(s) : i <= j => t[j] <= t[i]
  <2>1. \A i, j \in 1..Len(s) : i <= j => s[j] <= s[i]
    BY <1>1 DEF Ages
  <2>. QED
    BY <1>2, <1>3, <2>1 DEF Older
<1>. QED
  BY <1>3, <1>4, <1>5 DEF Ages

\* One more passes.
LEMMA AppendedBucket ==
  ASSUME NEW s, Ages(s), NEW t, t = Append(s, 0)
  PROVE  /\ Ages(t) /\ t # <<>> /\ Len(t) = Len(s) + 1 /\ t[Len(t)] = 0
         /\ \A i \in 1..Len(s) : t[i] = s[i]
         /\ Unexpired(s) => Unexpired(t)
<1>1. s \in Seq(0..Window) /\ DOMAIN s = 1..Len(s) /\ Len(s) \in Nat /\ 0 \in 0..Window
  BY DEF Ages
<1>2. /\ t \in Seq(0..Window) /\ Len(t) = Len(s) + 1 /\ DOMAIN t = 1..(Len(s) + 1)
      /\ t[Len(s) + 1] = 0 /\ \A i \in 1..Len(s) : t[i] = s[i]
  BY <1>1
<1>3. \A i \in 1..Len(s) : s[i] \in 0..Window
  BY <1>1
<1>4. Ages(t)
  <2>1. \A i, j \in 1..Len(s) : i <= j => s[j] <= s[i]
    BY <1>1 DEF Ages
  <2>. QED
    BY <1>1, <1>2, <1>3, <2>1 DEF Ages
<1>. QED
  BY <1>1, <1>2, <1>4 DEF Unexpired
-----------------------------------------------------------------------------
(* A bucket beside the record of the same passes. *)

\* Popping the expired keeps the agreement, and pops nothing that is recorded.
LEMMA FreshMatches ==
  ASSUME NEW b, NEW p, Ages(b), Ages(p), Unexpired(p), Matches(b, p), NEW t, t = Fresh(b)
  PROVE  /\ Matches(t, p)
         /\ Len(t) < Len(p) => Len(t) = Len(b)
<1>1. /\ Len(b) \in Nat /\ Len(p) \in Nat /\ Len(t) \in Nat /\ Len(t) <= Len(b) /\ DOMAIN p = 1..Len(p)
      /\ \A d \in 0..(Len(t) - 1) : t[Len(t) - d] = b[Len(b) - d]
      /\ \A d \in Len(t)..(Len(b) - 1) : b[Len(b) - d] = Window
  <2>1. Ages(t)
    BY FreshBucket
  <2>2. Len(b) \in Nat /\ Len(p) \in Nat /\ Len(t) \in Nat /\ DOMAIN p = 1..Len(p)
    BY <2>1 DEF Ages
  <2>. QED
    BY <2>2, FreshBucket
<1>2. Matches(t, p)
  BY <1>1 DEF Matches
<1>3. ASSUME Len(t) < Len(p), Len(t) # Len(b) PROVE FALSE
  <2> DEFINE d == Len(t)
  <2>1. d \in 0..(Len(b) - 1) /\ d < Len(p) /\ Len(p) - d \in 1..Len(p)
    BY <1>1, <1>3
  <2>2. b[Len(b) - d] = Window /\ b[Len(b) - d] = p[Len(p) - d]
    BY <1>1, <2>1 DEF Matches
  <2>3. p[Len(p) - d] < Window
    BY <1>1, <2>1 DEF Unexpired
  <2>. QED
    BY <2>2, <2>3
<1>. QED
  BY <1>2, <1>3

\* So does a pass that both record.
LEMMA AppendMatches ==
  ASSUME NEW b, NEW p, Ages(b), Ages(p), Matches(b, p)
  PROVE  Matches(Append(b, 0), Append(p, 0))
<1> DEFINE bb == Append(b, 0)
           pp == Append(p, 0)
<1>1. /\ Len(b) \in Nat /\ Len(bb) = Len(b) + 1 /\ bb[Len(bb)] = 0
      /\ Len(p) \in Nat /\ Len(pp) = Len(p) + 1 /\ pp[Len(pp)] = 0
      /\ \A i \in 1..Len(b) : bb[i] = b[i]
      /\ \A i \in 1..Len(p) : pp[i] = p[i]
  BY AppendedBucket DEF Ages
<1>. HIDE DEF bb, pp
<1>2. ASSUME NEW d \in 0..(Len(bb) - 1)
      PROVE  IF d < Len(pp) THEN bb[Len(bb) - d] = pp[Len(pp) - d] ELSE bb[Len(bb) - d] = Window
  <2>1. CASE d = 0
    BY <1>1, <2>1
  <2>2. CASE d # 0
    <3>1. /\ d - 1 \in 0..(Len(b) - 1)
          /\ Len(bb) - d = Len(b) - (d - 1) /\ Len(bb) - d \in 1..Len(b)
          /\ Len(pp) - d = Len(p) - (d - 1)
          /\ d < Len(pp) <=> d - 1 < Len(p)
          /\ d < Len(pp) => Len(pp) - d \in 1..Len(p)
      BY <1>1, <1>2, <2>2
    <3>2. IF d - 1 < Len(p) THEN b[Len(b) - (d - 1)] = p[Len(p) - (d - 1)]
          ELSE b[Len(b) - (d - 1)] = Window
      BY <3>1 DEF Matches
    <3>3. bb[Len(bb) - d] = b[Len(b) - (d - 1)]
      BY <1>1, <3>1
    <3>. QED
      BY <1>1, <3>1, <3>2, <3>3
  <2>. QED
    BY <2>1, <2>2
<1>3. Matches(bb, pp)
  BY <1>2 DEF Matches
<1>. QED
  BY <1>3 DEF bb, pp

\* The record may forget the oldest pass, if it has more than the bucket.
Forgets(p, q) == \A i \in 1..Len(q) : q[i] = p[i + 1]

LEMMA TailMatches ==
  ASSUME NEW b, NEW p, Ages(b), Ages(p), p # <<>>, Matches(b, p), Len(b) < Len(p), NEW q, q = Tail(p)
  PROVE  /\ Ages(q) /\ Len(q) = Len(p) - 1 /\ Forgets(p, q)
         /\ Unexpired(p) => Unexpired(q)
         /\ Matches(b, q)
<1>1. /\ p \in Seq(0..Window) /\ DOMAIN p = 1..Len(p) /\ Len(p) \in Nat \ {0} /\ Len(b) \in Nat
  BY DEF Ages
<1>2. /\ q \in Seq(0..Window) /\ Len(q) = Len(p) - 1 /\ DOMAIN q = 1..(Len(p) - 1)
      /\ \A i \in 1..(Len(p) - 1) : q[i] = p[i + 1]
  BY <1>1
<1>3. Ages(q) /\ (Unexpired(p) => Unexpired(q))
  <2>1. \A i, j \in 1..Len(p) : i <= j => p[j] <= p[i]
    BY <1>1 DEF Ages
  <2>2. \A i \in 1..(Len(p) - 1) : i + 1 \in 1..Len(p)
    BY <1>1
  <2>3. \A i, j \in 1..(Len(p) - 1) : i <= j => q[j] <= q[i]
    <3>1. \A i, j \in 1..(Len(p) - 1) : i <= j => i + 1 <= j + 1
      BY <1>1
    <3>. QED
      BY <1>2, <2>1, <2>2, <3>1
  <2>4. Ages(q)
    BY <1>2, <2>3 DEF Ages
  <2>5. Unexpired(p) => Unexpired(q)
    BY <1>1, <1>2, <2>2 DEF Unexpired
  <2>. QED
    BY <2>4, <2>5
<1>4. Matches(b, q)
  <2>1. ASSUME NEW d \in 0..(Len(b) - 1)
        PROVE  d < Len(q) /\ b[Len(b) - d] = q[Len(q) - d]
    <3>1. d < Len(p) /\ d < Len(q) /\ Len(q) - d \in 1..Len(q) /\ (Len(q) - d) + 1 = Len(p) - d
      BY <1>1, <1>2
    <3>2. b[Len(b) - d] = p[Len(p) - d]
      BY <3>1 DEF Matches
    <3>. QED
      BY <1>2, <3>1, <3>2
  <2>. QED
    BY <2>1 DEF Matches
<1>. QED
  BY <1>2, <1>3, <1>4 DEF Forgets

\* A unit of time later the record forgets what has expired.
LEMMA AgedPasses ==
  ASSUME NEW p, Ages(p), NEW q, q = Fresh(Aged(p))
  PROVE  /\ Ages(q) /\ Unexpired(q) /\ Len(q) <= Len(p)
         /\ \A d \in 0..(Len(q) - 1) : q[Len(q) - d] = Older(p[Len(p) - d])
         /\ \A d \in Len(q)..(Len(p) - 1) : Older(p[Len(p) - d]) = Window
<1> DEFINE a == Aged(p)
<1>1. Ages(a) /\ Len(a) = Len(p) /\ (\A i \in 1..Len(p) : a[i] = Older(p[i])) /\ Len(p) \in Nat
  BY AgedBucket DEF Ages
<1>. HIDE DEF a
<1>2. /\ Ages(q) /\ Unexpired(q) /\ Len(q) <= Len(a) /\ Len(q) \in Nat
      /\ \A d \in 0..(Len(q) - 1) : q[Len(q) - d] = a[Len(a) - d]
      /\ \A d \in Len(q)..(Len(a) - 1) : a[Len(a) - d] = Window
  <2>1. q = Fresh(a)
    BY DEF a
  <2>2. Ages(q)
    BY <1>1, <2>1, FreshBucket
  <2>3. Len(q) \in Nat
    BY <2>2 DEF Ages
  <2>. QED
    BY <1>1, <2>1, <2>2, <2>3, FreshBucket
<1>3. \A d \in 0..(Len(p) - 1) : a[Len(a) - d] = Older(p[Len(p) - d])
  BY <1>1
<1>. QED
  BY <1>1, <1>2, <1>3

\* The bucket keeps it until the next call.
LEMMA AgedMatches ==
  ASSUME NEW b, NEW p, Ages(b), Ages(p), Matches(b, p), NEW c, c = Aged(b), NEW q, q = Fresh(Aged(p))
  PROVE  Ages(c) /\ Len(c) = Len(b) /\ Matches(c, q)
<1>1. Ages(c) /\ Len(c) = Len(b) /\ (\A i \in 1..Len(b) : c[i] = Older(b[i])) /\ Len(b) \in Nat
  BY AgedBucket DEF Ages
<1>2. Ages(q) /\ Len(q) <= Len(p)
  BY AgedPasses
<1>3. Len(q) \in Nat /\ Len(p) \in Nat
  BY <1>2 DEF Ages
<1>4. /\ \A d \in 0..(Len(q) - 1) : q[Len(q) - d] = Older(p[Len(p) - d])
      /\ \A d \in Len(q)..(Len(p) - 1) : Older(p[Len(p) - d]) = Window
  BY AgedPasses
<1>5. ASSUME NEW d \in 0..(Len(b) - 1)
      PROVE  IF d < Len(q) THEN c[Len(c) - d] = q[Len(q) - d] ELSE c[Len(c) - d] = Window
  <2>1. c[Len(c) - d] = Older(b[Len(b) - d])
    BY <1>1
  <2>2. IF d < Len(p) THEN b[Len(b) - d] = p[Len(p) - d] ELSE b[Len(b) - d] = Window
    BY DEF Matches
  <2>3. CASE d < Len(q)
    <3>1. d < Len(p) /\ d \in 0..(Len(q) - 1)
      BY <1>1, <1>2, <1>3, <2>3
    <3>. QED
      BY <1>4, <2>1, <2>2, <2>3, <3>1
  <2>4. CASE ~(d < Len(q)) /\ d < Len(p)
    <3>1. d \in Len(q)..(Len(p) - 1)
      BY <1>1, <1>3, <2>4
    <3>. QED
      BY <1>4, <2>1, <2>2, <2>4, <3>1
  <2>5. CASE ~(d < Len(q)) /\ ~(d < Len(p))
    <3>1. Older(Window) = Window
      BY DEF Older
    <3>. QED
      BY <2>1, <2>2, <2>5, <3>1
  <2>. QED
    BY <2>3, <2>4, <2>5
<1>6. Matches(c, q)
  BY <1>1, <1>5 DEF Matches
<1>. QED
  BY <1>1, <1>6

\* The latest pass is the same on both sides, unless it is expired.
LEMMA LastMatches ==
  ASSUME NEW b, NEW p, Ages(b), Ages(p), b # <<>>, Matches(b, p)
  PROVE  /\ p # <<>> => Last(b) = Last(p)
         /\ Last(b) < Window => p # <<>>
<1>1. Len(b) \in Nat \ {0} /\ Len(p) \in Nat /\ (p # <<>> <=> Len(p) > 0)
  BY DEF Ages
<1>2. IF 0 < Len(p) THEN b[Len(b) - 0] = p[Len(p) - 0] ELSE b[Len(b) - 0] = Window
  BY <1>1 DEF Matches
<1>. QED
  BY <1>1, <1>2 DEF Last

\* A unit of time later: the latest pass of a record, if it is not expired, and
\* what a bucket lacks of one.
LEMMA AgedLast ==
  ASSUME NEW p, Ages(p), p # <<>>, Older(Last(p)) < Window, NEW q, q = Fresh(Aged(p))
  PROVE  q # <<>> /\ Last(q) = Older(Last(p))
<1>1. Len(p) \in Nat \ {0} /\ Last(p) = p[Len(p)]
  BY LastAge
<1>2. /\ Ages(q)
      /\ \A d \in 0..(Len(q) - 1) : q[Len(q) - d] = Older(p[Len(p) - d])
      /\ \A d \in Len(q)..(Len(p) - 1) : Older(p[Len(p) - d]) = Window
  BY AgedPasses
<1>3. Len(q) \in Nat
  BY <1>2 DEF Ages
<1>4. Older(p[Len(p) - 0]) < Window
  BY <1>1
<1>5. Len(q) # 0
  <2>1. ASSUME Len(q) = 0 PROVE FALSE
    <3>1. 0 \in Len(q)..(Len(p) - 1)
      BY <1>1, <2>1
    <3>2. Older(p[Len(p) - 0]) = Window
      BY <1>2, <3>1
    <3>. QED
      BY <1>4, <3>2
  <2>. QED
    BY <2>1
<1>6. q[Len(q) - 0] = Older(p[Len(p) - 0])
  <2>1. 0 \in 0..(Len(q) - 1)
    BY <1>3, <1>5
  <2>. QED
    BY <1>2, <2>1
<1>. QED
  BY <1>1, <1>3, <1>5, <1>6 DEF Last

LEMMA AgedLacking ==
  ASSUME NEW b, NEW p, Ages(b), Ages(p), Matches(b, p),
         NEW c, c = Aged(b), NEW q, q = Fresh(Aged(p)), Len(c) < Len(q)
  PROVE  /\ Len(b) < Len(p) /\ q[Len(q) - Len(c)] = Older(p[Len(p) - Len(b)])
         /\ Older(p[Len(p) - Len(b)]) < Window
<1>1. /\ Ages(q) /\ Unexpired(q) /\ Len(q) <= Len(p) /\ Len(c) = Len(b) /\ Ages(c)
      /\ \A d \in 0..(Len(q) - 1) : q[Len(q) - d] = Older(p[Len(p) - d])
  BY AgedMatches, AgedPasses
<1>2. Len(q) \in Nat /\ Len(p) \in Nat /\ Len(c) \in Nat
  BY <1>1 DEF Ages
<1>3. Len(b) < Len(p) /\ Len(c) \in 0..(Len(q) - 1)
  BY <1>1, <1>2
<1>4. q[Len(q) - Len(c)] = Older(p[Len(p) - Len(b)])
  BY <1>1, <1>3
<1>5. Len(q) - Len(c) \in DOMAIN q
  BY <1>1, LackingAge
<1>. QED
  BY <1>1, <1>3, <1>4, <1>5 DEF Unexpired

-----------------------------------------------------------------------------
(* The table of buckets. *)

\* Aging the table is aging what is looked up in it.
LEMMA AgedTable ==
  ASSUME NEW table, NEW k
  PROVE  /\ DOMAIN AgedAll(table) = DOMAIN table
         /\ BucketOf(AgedAll(table), k) = Aged(BucketOf(table, k))
<1>1. Aged(<<>>) = <<>>
  BY DEF Aged
<1>. QED
  BY <1>1 DEF AgedAll, BucketOf

\* After a pass of k the table has the bucket of k and the others it had, or
\* all but one, which was the least recent of them.
Bounded(table) == IsFiniteSet(DOMAIN table) /\ Cardinality(DOMAIN table) <= MaxBuckets
Keeps(table, next, k) == \A i \in DOMAIN next \ {k} : next[i] = table[i]
Evicts(table, next, k, j) ==
  /\ DOMAIN next = (DOMAIN table \cup {k}) \ {j}
  /\ Cardinality(DOMAIN next) >= MaxBuckets
  /\ \A i \in DOMAIN next \ {k} : Last(table[i]) <= Last(table[j])

LEMMA PassedTable ==
  ASSUME NEW table, Bounded(table), NEW k, NEW next \in Passed(table, k)
  PROVE  /\ Bounded(next)
         /\ k \in DOMAIN next /\ DOMAIN next \subseteq DOMAIN table \cup {k}
         /\ next[k] = Append(Fresh(BucketOf(table, k)), 0)
         /\ Keeps(table, next, k)
         /\ \/ DOMAIN next = DOMAIN table \cup {k}
            \/ \E j \in DOMAIN table \ {k} : Evicts(table, next, k, j)
<1> DEFINE entry == Append(FreshOf(table, k), 0)
           all == [j \in DOMAIN table \cup {k} |-> IF j = k THEN entry ELSE table[j]]
<1>1. /\ DOMAIN all = DOMAIN table \cup {k} /\ all[k] = entry
      /\ \A i \in DOMAIN table \ {k} : all[i] = table[i]
  OBVIOUS
<1>2. FreshOf(table, k) = Fresh(BucketOf(table, k))
  <2>1. Fresh(<<>>) = <<>>
    BY DEF Fresh
  <2>. QED
    BY <2>1 DEF FreshOf, BucketOf
<1>3. /\ IsFiniteSet(DOMAIN table \cup {k}) /\ Cardinality(DOMAIN table \cup {k}) \in Nat
      /\ Cardinality(DOMAIN table \cup {k}) <= MaxBuckets + 1
  <2>1. IsFiniteSet(DOMAIN table) /\ Cardinality(DOMAIN table) <= MaxBuckets
    BY DEF Bounded
  <2>2. Cardinality(DOMAIN table) \in Nat
    BY <2>1, FS_CardinalityType
  <2>3. /\ IsFiniteSet(DOMAIN table \cup {k})
        /\ Cardinality(DOMAIN table \cup {k}) \in {Cardinality(DOMAIN table), Cardinality(DOMAIN table) + 1}
    BY <2>1, FS_AddElement
  <2>. QED
    BY <2>1, <2>2, <2>3
<1>. HIDE DEF all, entry
<1>4. CASE Cardinality(DOMAIN all) <= MaxBuckets
  <2>1. next = all
    BY <1>4 DEF Passed, all, entry
  <2>. QED
    BY <1>1, <1>2, <1>3, <1>4, <2>1 DEF entry, Bounded, Keeps
<1>5. CASE ~(Cardinality(DOMAIN all) <= MaxBuckets)
  <2>1. PICK j \in LeastRecent(all, k) : next = Restrict(all, DOMAIN all \ {j})
    BY <1>5 DEF Passed, all, entry
  <2>2. /\ j \in DOMAIN table \ {k} /\ j \in DOMAIN all
        /\ \A i \in DOMAIN all \ {k} : Last(all[i]) <= Last(all[j])
    BY <1>1, <2>1 DEF LeastRecent
  <2>3. /\ DOMAIN next = (DOMAIN table \cup {k}) \ {j}
        /\ \A i \in DOMAIN next : next[i] = all[i]
    BY <1>1, <2>1 DEF Restrict
  <2>4. /\ IsFiniteSet(DOMAIN next)
        /\ Cardinality(DOMAIN next) = Cardinality(DOMAIN table \cup {k}) - 1
    <3> DEFINE S == DOMAIN table \cup {k}
    <3>1. IsFiniteSet(S) /\ j \in S /\ DOMAIN next = S \ {j}
      BY <1>3, <2>2, <2>3
    <3>. HIDE DEF S
    <3>2. IsFiniteSet(DOMAIN next) /\ Cardinality(DOMAIN next) = Cardinality(S) - 1
      BY <3>1, FS_RemoveElement
    <3>. QED
      BY <3>2 DEF S
  <2>5. Cardinality(DOMAIN next) = MaxBuckets
    BY <1>1, <1>3, <1>5, <2>4
  <2>6. \A i \in DOMAIN next \ {k} : Last(table[i]) <= Last(table[j])
    BY <1>1, <2>2, <2>3
  <2>7. next[k] = entry /\ Keeps(table, next, k)
    BY <1>1, <2>2, <2>3 DEF Keeps
  <2>8. /\ Cardinality(DOMAIN next) <= MaxBuckets /\ Cardinality(DOMAIN next) >= MaxBuckets
        /\ k \in DOMAIN next /\ DOMAIN next \subseteq DOMAIN table \cup {k}
    BY <2>2, <2>3, <2>5
  <2>9. entry = Append(Fresh(BucketOf(table, k)), 0)
    BY <1>2 DEF entry
  <2>10. Evicts(table, next, k, j) /\ Bounded(next)
    BY <2>3, <2>4, <2>6, <2>8 DEF Evicts, Bounded
  <2>. QED
    BY <2>2, <2>7, <2>8, <2>9, <2>10
<1>. QED
  BY <1>4, <1>5
=============================================================================
