-------------------------- MODULE CaseServiceProofs --------------------------
(***************************************************************************)
(* Proofs about CaseService, for every set of requests, keys, Signals and  *)
(* Cases, every daily limit, and whatever faults happen.                   *)
(***************************************************************************)
EXTENDS CaseService, FiniteSetTheorems, TLAPS

USE OriginalAssumption, NoneAssumption, LimitAssumption

-----------------------------------------------------------------------------
(* The parts of the inductive invariant. *)

\* A Case that Signals are linked to has a revision, and so has the Case of a
\* request that is recorded, with the revision it is recorded with.
LinksExist == \A s \in Signal : links[s] # None => Exists(links[s])

RecordedExist ==
  \A k \in Key : Recorded(k) =>
    /\ Exists(operations[k].case)
    /\ operations[k].version <= cases[operations[k].case].version
    /\ operations[k].body.op = "dispatch" => links[operations[k].body.signal] # None

\* The timeline of such a Case is not empty: one of its events is the latest.
HasLatest(c) ==
  \E i \in DOMAIN timeline[c] : \A j \in DOMAIN timeline[c] :
    timeline[c][j].at <= timeline[c][i].at
TimelinesHaveLatest ==
  \A c \in Case :
    /\ Exists(c) => timeline[c] # <<>>
    /\ timeline[c] # <<>> => HasLatest(c)

\* The last event is that of the current version, and recorded requests that
\* came with a replay_at have theirs.
LastEventIsCurrent ==
  \A c \in Case : timeline[c] # <<>> => timeline[c][Len(timeline[c])].version = cases[c].version
HasEvent(c, v, t) ==
  \E i \in DOMAIN timeline[c] : timeline[c][i].version = v /\ timeline[c][i].at = t
RecordedHaveEvents ==
  \A k \in Key : Recorded(k) /\ operations[k].body.at # None =>
    HasEvent(operations[k].case, operations[k].version, operations[k].body.at)

\* As long as the times increase, an observation is that of an event, unless
\* it repeats another request's without a replay_at.
ObservedFits ==
  \A c \in Case : TimesIncrease(c) /\ observed[c].version > 0 /\ ~observed[c].repeat =>
    HasEvent(c, observed[c].version, observed[c].at)

\* What a request has read before it awaits the decision is outdated only if
\* the version of the Case says so.
FitsDispatch(w) ==
  w.body.op = "dispatch" => w.body.signal \in Report /\ w.claims = {w.body.signal}
FitsAdvance(w) ==
  w.body.op = "advance" =>
    /\ Exists(w.body.case)
    /\ w.body.version <= cases[w.body.case].version
    /\ w.body.version = cases[w.body.case].version => w.claims = cases[w.body.case].claims
PendingFits ==
  \A r \in Request : inflight[r] # None => FitsDispatch(inflight[r]) /\ FitsAdvance(inflight[r])

\* The last revision is the Case as it is.
RevisionsFit ==
  \A c \in Case :
    /\ Len(revisions[c]) = cases[c].version
    /\ Exists(c) => revisions[c][cases[c].version].claims = cases[c].claims

\* An answer is that of its recorded operation, or of a dispatch that found
\* the Signal in a Case.
AnswersKnown ==
  \A k \in Key : \A a \in answers[k] :
    \/ Recorded(k) /\ a = operations[k]
    \/ a.body.op = "dispatch" /\ links[a.body.signal] # None

\* OneOperationPerRevision, without counting.
Made(k, c, v) ==
  /\ Recorded(k)
  /\ operations[k].case = c /\ operations[k].version = v
  /\ operations[k].body.op = "advance" \/ operations[k].body.signal \in Report
RevisionsMade ==
  \A c \in Case : \A v \in 1..cases[c].version :
    \E k \in Key : Made(k, c, v) /\ \A j \in Key : Made(j, c, v) => j = k

-----------------------------------------------------------------------------
\* A step, one disjunct for each action.
LEMMA Steps ==
  ASSUME [Next]_vars
  PROVE  \/ \E k \in Key : Retry(k)
         \/ \E k \in Key, s \in Signal, t \in Replay : DispatchAssigned(k, s, t)
         \/ \E k \in Key, s \in Signal, t \in Replay, now \in Time, done \in BOOLEAN :
                 AttachRepost(k, s, t, now, done)
         \/ \E k \in Key, s \in Signal, t \in Replay, r \in Request : StartDispatch(r, k, s, {s}, t)
         \/ \E k \in Key, r \in Request, c \in Case, claim \in Report, verdict \in Verdict, t \in Replay :
              StartAdvance(r, k, c, claim, verdict, t)
         \/ \E r \in Request, c \in Case, now \in Time, done \in BOOLEAN :
                 SaveDispatch(r, c, now, done)
         \/ \E r \in Request, now \in Time, done \in BOOLEAN : SaveAdvance(r, now, done)
         \/ \E r \in Request, now \in Time, done \in BOOLEAN : SavedMeanwhile(r, now, done)
         \/ \E r \in Request : Fail(r)
         \/ NewDay \/ Crash \/ UNCHANGED vars
<1>1. CASE \E k \in Key :
             \/ Retry(k)
             \/ \E s \in Signal, t \in Replay :
                  \/ DispatchAssigned(k, s, t)
                  \/ \E now \in Time, done \in BOOLEAN : AttachRepost(k, s, t, now, done)
                  \/ \E r \in Request : StartDispatch(r, k, s, {s}, t)
             \/ \E r \in Request, c \in Case, claim \in Report, verdict \in Verdict, t \in Replay :
                  StartAdvance(r, k, c, claim, verdict, t)
  BY <1>1
<1>2. CASE \E r \in Request :
             \/ \E now \in Time, done \in BOOLEAN :
                  \/ \E c \in Case : SaveDispatch(r, c, now, done)
                  \/ SaveAdvance(r, now, done)
                  \/ SavedMeanwhile(r, now, done)
             \/ Fail(r)
  BY <1>2
<1>3. CASE NewDay \/ Crash \/ UNCHANGED vars
  BY <1>3
<1>. QED
  BY <1>1, <1>2, <1>3 DEF Next

\* The changes of the store: all other steps leave it alone.
LEMMA StoreSteps ==
  ASSUME [Next]_vars
  PROVE  \/ UNCHANGED store
         \/ \E k \in Key, s \in Signal, t \in Replay, now \in Time, done \in BOOLEAN :
                 AttachRepost(k, s, t, now, done)
         \/ \E r \in Request, c \in Case, now \in Time, done \in BOOLEAN :
                 SaveDispatch(r, c, now, done)
         \/ \E r \in Request, now \in Time, done \in BOOLEAN : SaveAdvance(r, now, done)
<1>1. ASSUME \/ \E k \in Key : Retry(k)
             \/ \E k \in Key, s \in Signal, t \in Replay : DispatchAssigned(k, s, t)
             \/ \E k \in Key, s \in Signal, t \in Replay, r \in Request :
                  StartDispatch(r, k, s, {s}, t)
             \/ \E k \in Key, r \in Request, c \in Case, claim \in Report, verdict \in Verdict, t \in Replay :
                  StartAdvance(r, k, c, claim, verdict, t)
      PROVE  UNCHANGED store
  BY <1>1 DEF store, Retry, DispatchAssigned, StartDispatch, StartAdvance, Awaits
<1>2. ASSUME \/ \E r \in Request, now \in Time, done \in BOOLEAN : SavedMeanwhile(r, now, done)
             \/ \E r \in Request : Fail(r)
             \/ NewDay \/ Crash \/ UNCHANGED vars
      PROVE  UNCHANGED store
  BY <1>2 DEF vars, store, SavedMeanwhile, Fail, NewDay, Crash
<1>. QED
  BY <1>1, <1>2, Steps

\* The bodies of requests.
LEMMA BodyType ==
  /\ \A s \in Signal, t \in Replay : DispatchOf(s, t) \in Body /\ DispatchOf(s, t).op = "dispatch"
  /\ \A b \in Body : b.op = "dispatch" => b.signal \in Signal
  /\ \A b \in Body : b.op # "dispatch" =>
       b.op = "advance" /\ b.case \in Case /\ b.version \in Nat /\ b.claim \in Report
<1>1. \A s \in Signal, t \in Replay : DispatchOf(s, t) \in Body /\ DispatchOf(s, t).op = "dispatch"
  BY DEF DispatchOf, Body, DispatchBody
<1>2. ASSUME NEW b \in Body
      PROVE  /\ b.op = "dispatch" => b.signal \in Signal
             /\ b.op # "dispatch" =>
                  b.op = "advance" /\ b.case \in Case /\ b.version \in Nat /\ b.claim \in Report
  <2>1. CASE b \in DispatchBody
    BY <2>1 DEF DispatchBody
  <2>2. CASE b \in AdvanceBody
    BY <2>2 DEF AdvanceBody
  <2>. QED
    BY <2>1, <2>2 DEF Body
<1>. QED
  BY <1>1, <1>2

\* The maximum of the times of a timeline is the time of its latest event.
LEMMA LatestIsOfEvent ==
  ASSUME TypeOK, NEW c \in Case, HasLatest(c)
  PROVE  \E i \in DOMAIN timeline[c] :
           /\ LatestTime(c) = timeline[c][i].at
           /\ \A j \in DOMAIN timeline[c] : timeline[c][j].at <= LatestTime(c)
<1> DEFINE times == {timeline[c][i].at : i \in DOMAIN timeline[c]}
<1>1. \A i \in DOMAIN timeline[c] : timeline[c][i].at \in Nat
  <2>1. timeline[c] \in Seq(Event)
    BY DEF TypeOK
  <2>2. \A i \in DOMAIN timeline[c] : timeline[c][i] \in Event
    BY <2>1
  <2>. QED
    BY <2>2, TimeAssumption DEF Event
<1>2. \E x \in times : \A y \in times : x >= y
  BY <1>1 DEF HasLatest
<1>3. Max(times) \in times /\ \A y \in times : Max(times) >= y
  BY <1>2 DEF Max
<1>. QED
  BY <1>1, <1>3 DEF LatestTime

LEMMA LatestType ==
  ASSUME TypeOK, NEW c \in Case, HasLatest(c)
  PROVE  LatestTime(c) \in Time
<1>1. timeline[c] \in Seq(Event)
  BY DEF TypeOK
<1>2. \A i \in DOMAIN timeline[c] : timeline[c][i] \in Event
  BY <1>1
<1>3. \A i \in DOMAIN timeline[c] : timeline[c][i].at \in Time
  BY <1>2 DEF Event
<1>. QED
  BY <1>3, LatestIsOfEvent

-----------------------------------------------------------------------------
(* Type correctness. *)

\* The tables.
StoreTyped ==
  /\ cases \in [Case -> Snapshot]
  /\ revisions \in [Case -> Seq(Snapshot)]
  /\ timeline \in [Case -> Seq(Event)]
  /\ links \in [Signal -> Case \cup {None}]
  /\ operations \in [Key -> Operation \cup {None}]

LEMMA LogsType ==
  ASSUME TypeOK, NEW c \in Case, NEW kind \in {"signal_added", "verification_updated"},
         NEW s \in Signal, NEW v \in Nat, NEW t \in Time, Logs(c, kind, s, v, t)
  PROVE  timeline' \in [Case -> Seq(Event)]
<1>1. [kind |-> kind, about |-> s, version |-> v, at |-> t] \in Event
  BY DEF Event
<1>. QED
  BY <1>1 DEF Logs, TypeOK

LEMMA RecordsType ==
  ASSUME TypeOK, NEW k \in Key, NEW b \in Body, NEW c \in Case, NEW v \in Nat,
         Records(k, b, c, v)
  PROVE  operations' \in [Key -> Operation \cup {None}]
<1>1. [body |-> b, case |-> c, version |-> v] \in Operation
  BY DEF Operation
<1>. QED
  BY <1>1 DEF Records, TypeOK

LEMMA RevisesType ==
  ASSUME TypeOK, NEW k \in Key, NEW b \in Body, NEW c \in Case, NEW snapshot \in Snapshot,
         Revises(k, b, c, snapshot)
  PROVE  /\ cases' \in [Case -> Snapshot]
         /\ revisions' \in [Case -> Seq(Snapshot)]
         /\ operations' \in [Key -> Operation \cup {None}]
<1>1. snapshot.version \in Nat
  BY DEF Snapshot
<1>. QED
  BY <1>1, RecordsType DEF Revises, TypeOK

LEMMA AnswersType ==
  ASSUME TypeOK, NEW k \in Key, NEW b \in Body, NEW c \in Case, NEW v \in Nat,
         AnswersWith(k, b, c, v)
  PROVE  answers' \in [Key -> SUBSET Operation]
<1>1. [body |-> b, case |-> c, version |-> v] \in Operation
  BY DEF Operation
<1>. QED
  BY <1>1 DEF AnswersWith, TypeOK

\* What a request observes at the time it saves, or repeats.
LEMMA ObservationType ==
  ASSUME NEW v \in Nat, NEW t \in Time
  PROVE  /\ Observed(v, t) \in Observation /\ Observed(v, t).version = v
         /\ \A flag \in BOOLEAN : [version |-> v, at |-> t, repeat |-> flag] \in Observation
  BY DEF Observed, Observation

LEMMA FinishesType ==
  ASSUME TypeOK, NEW done \in BOOLEAN, NEW k \in Key, NEW b \in Body, NEW c \in Case,
         NEW observation \in Observation, Finishes(done, k, b, c, observation)
  PROVE  /\ observed' \in [Case -> Observation]
         /\ answers' \in [Key -> SUBSET Operation]
<1>1. CASE Observes(c, observation) /\ AnswersWith(k, b, c, observation.version)
  <2>1. observation.version \in Nat
    BY DEF Observation
  <2>. QED
    BY <1>1, <2>1, AnswersType DEF Observes, TypeOK
<1>2. CASE UNCHANGED <<observed, answers>>
  BY <1>2 DEF TypeOK
<1>. QED
  BY <1>1, <1>2 DEF Finishes

LEMMA EnsuresType ==
  ASSUME TypeOK, NEW c \in Case, HasLatest(c), EnsuresObservation(c)
  PROVE  observed' \in [Case -> Observation]
<1>1. LatestTime(c) \in Time
  BY LatestType
<1>2. cases[c].version \in Nat
  BY DEF TypeOK, Snapshot
<1>3. CASE IsOutdated(c)
  <2>1. Observes(c, Observed(cases[c].version, LatestTime(c)))
    BY <1>3 DEF EnsuresObservation
  <2>2. Observed(cases[c].version, LatestTime(c)) \in Observation
    BY <1>1, <1>2, ObservationType
  <2>. QED
    BY <2>1, <2>2 DEF Observes, TypeOK
<1>4. CASE ~IsOutdated(c)
  BY <1>4 DEF EnsuresObservation, TypeOK
<1>. QED
  BY <1>3, <1>4
-----------------------------------------------------------------------------
LEMMA RetryType ==
  ASSUME TypeOK, TimelinesHaveLatest, RecordedExist, NEW k \in Key, Retry(k)
  PROVE  TypeOK'
<1> DEFINE o == operations[k]
<1>1. o \in Operation
  BY DEF Retry, Recorded, TypeOK
<1>2. o.case \in Case /\ o.body \in Body /\ o.version \in Nat
  BY <1>1 DEF Operation
<1>3. HasLatest(o.case)
  BY <1>2 DEF Retry, RecordedExist, TimelinesHaveLatest
<1>4. observed' \in [Case -> Observation]
  BY <1>2, <1>3, EnsuresType DEF Retry
<1>5. answers' \in [Key -> SUBSET Operation]
  BY <1>2, AnswersType DEF Retry, RecordedVersion
<1>. QED
  BY <1>4, <1>5 DEF Retry, TypeOK, store

LEMMA DispatchAssignedType ==
  ASSUME TypeOK, TimelinesHaveLatest, LinksExist, NEW k \in Key, NEW s \in Signal, NEW t \in Replay,
         DispatchAssigned(k, s, t)
  PROVE  TypeOK'
<1> DEFINE c == links[s]
<1>1. c \in Case /\ HasLatest(c)
  BY DEF DispatchAssigned, MayLink, TypeOK, LinksExist, TimelinesHaveLatest
<1>2. cases[c].version \in Nat
  BY <1>1 DEF TypeOK, Snapshot
<1>3. observed' \in [Case -> Observation]
  BY <1>1, EnsuresType DEF DispatchAssigned
<1>4. answers' \in [Key -> SUBSET Operation]
  BY <1>1, <1>2, BodyType, AnswersType DEF DispatchAssigned
<1>. QED
  BY <1>3, <1>4 DEF DispatchAssigned, TypeOK, store

LEMMA AttachRepostType ==
  ASSUME TypeOK, NEW k \in Key, NEW s \in Signal, NEW t \in Replay,
         NEW now \in Time, NEW done \in BOOLEAN,
         AttachRepost(k, s, t, now, done)
  PROVE  TypeOK'
<1> DEFINE c == links[Original[s]]
           v == cases[c].version
<1>1. c \in Case
  BY DEF AttachRepost, TypeOK
<1>2. v \in Nat
  BY <1>1 DEF TypeOK, Snapshot
<1>3. timeline' \in [Case -> Seq(Event)]
  BY <1>1, <1>2, LogsType DEF AttachRepost
<1>4. operations' \in [Key -> Operation \cup {None}]
  BY <1>1, <1>2, BodyType, RecordsType DEF AttachRepost
<1>5. /\ observed' \in [Case -> Observation]
      /\ answers' \in [Key -> SUBSET Operation]
  BY <1>1, <1>2, BodyType, ObservationType, FinishesType DEF AttachRepost
<1>6. links' \in [Signal -> Case \cup {None}]
  BY <1>1 DEF AttachRepost, TypeOK
<1>. QED
  BY <1>3, <1>4, <1>5, <1>6 DEF AttachRepost, TypeOK

\* A request goes on to await a decision.
LEMMA AwaitsType ==
  ASSUME TypeOK, NEW r \in Request, NEW k \in Key, NEW b \in Body, NEW seen \in [Case -> Nat],
         NEW claims \in SUBSET Report, Awaits(r, k, b, seen, claims)
  PROVE  TypeOK'
<1>1. [key |-> k, body |-> b, seen |-> seen, claims |-> claims] \in Waiting
  BY DEF Waiting
<1>2. inflight' \in [Request -> Waiting \cup {None}]
  BY <1>1 DEF Awaits, TypeOK
<1>3. calls' \in 0..DailyLimit
  BY DEF Awaits, TypeOK
<1>. QED
  BY <1>2, <1>3 DEF Awaits, TypeOK, store

LEMMA StartDispatchType ==
  ASSUME TypeOK, NEW r \in Request, NEW k \in Key, NEW s \in Signal, NEW t \in Replay,
         StartDispatch(r, k, s, {s}, t)
  PROVE  TypeOK'
<1>1. [c \in Case |-> cases[c].version] \in [Case -> Nat]
  BY DEF TypeOK, Snapshot
<1>2. {s} \in SUBSET Report
  BY DEF StartDispatch
<1>. QED
  BY <1>1, <1>2, BodyType, AwaitsType DEF StartDispatch

LEMMA StartAdvanceType ==
  ASSUME TypeOK, NEW r \in Request, NEW k \in Key, NEW c \in Case, NEW claim \in Report,
         NEW verdict \in Verdict, NEW t \in Replay, StartAdvance(r, k, c, claim, verdict, t)
  PROVE  TypeOK'
<1> DEFINE v == cases[c].version
           b == [op |-> "advance", case |-> c, version |-> v, claim |-> claim,
                 verdict |-> verdict, at |-> t]
<1>1. cases[c].claims \in SUBSET Report /\ v \in Nat
  BY DEF TypeOK, Snapshot
<1>2. b \in Body
  BY <1>1 DEF Body, AdvanceBody
<1>3. [d \in Case |-> IF d = c THEN v ELSE 0] \in [Case -> Nat]
  BY <1>1
<1>. QED
  BY <1>1, <1>2, <1>3, AwaitsType DEF StartAdvance

\* What a request that awaits a decision holds.
LEMMA WaitingType ==
  ASSUME TypeOK, NEW r \in Request, inflight[r] # None
  PROVE  /\ inflight[r].key \in Key
         /\ inflight[r].body \in Body
         /\ inflight[r].seen \in [Case -> Nat]
         /\ inflight[r].claims \in SUBSET Report
  BY DEF TypeOK, Waiting

LEMMA SaveDispatchType ==
  ASSUME TypeOK, NEW r \in Request, NEW c \in Case, NEW now \in Time, NEW done \in BOOLEAN,
         SaveDispatch(r, c, now, done)
  PROVE  TypeOK'
<1> DEFINE w == inflight[r]
           v == cases[c].version + 1
           snapshot == [version |-> v, claims |-> Covers(c, w.claims), basis |-> w.seen[c]]
<1>1. w.key \in Key /\ w.body \in Body /\ w.seen \in [Case -> Nat] /\ w.claims \in SUBSET Report
  BY WaitingType DEF SaveDispatch
<1>2. w.body.signal \in Signal
  BY <1>1, BodyType DEF SaveDispatch
<1>3. cases[c] \in Snapshot
  BY DEF TypeOK
<1>4. v \in Nat /\ snapshot \in Snapshot
  BY <1>1, <1>3 DEF Snapshot, Covers
<1>5. /\ cases' \in [Case -> Snapshot]
      /\ revisions' \in [Case -> Seq(Snapshot)]
      /\ operations' \in [Key -> Operation \cup {None}]
  BY <1>1, <1>4, RevisesType DEF SaveDispatch
<1>6. timeline' \in [Case -> Seq(Event)]
  BY <1>2, <1>4, LogsType DEF SaveDispatch
<1>7. /\ observed' \in [Case -> Observation]
      /\ answers' \in [Key -> SUBSET Operation]
  BY <1>1, <1>2, <1>4, ObservationType, FinishesType DEF SaveDispatch
<1>8. links' \in [Signal -> Case \cup {None}] /\ inflight' \in [Request -> Waiting \cup {None}]
  BY <1>2 DEF SaveDispatch, Ends, TypeOK
<1>. QED
  BY <1>5, <1>6, <1>7, <1>8 DEF SaveDispatch, TypeOK

LEMMA SaveAdvanceType ==
  ASSUME TypeOK, NEW r \in Request,
         NEW now \in Time, NEW done \in BOOLEAN, SaveAdvance(r, now, done)
  PROVE  TypeOK'
<1> DEFINE w == inflight[r]
           c == w.body.case
           v == w.body.version + 1
           snapshot == [version |-> v, claims |-> w.claims, basis |-> w.body.version]
<1>1. w.key \in Key /\ w.body \in Body /\ w.claims \in SUBSET Report
  BY WaitingType DEF SaveAdvance
<1>2. c \in Case /\ w.body.version \in Nat /\ w.body.claim \in Signal
  BY <1>1, BodyType DEF SaveAdvance, Report
<1>3. v \in Nat /\ snapshot \in Snapshot
  BY <1>1, <1>2 DEF Snapshot
<1>4. /\ cases' \in [Case -> Snapshot]
      /\ revisions' \in [Case -> Seq(Snapshot)]
      /\ operations' \in [Key -> Operation \cup {None}]
  BY <1>1, <1>2, <1>3, RevisesType DEF SaveAdvance
<1>5. timeline' \in [Case -> Seq(Event)]
  BY <1>2, <1>3, LogsType DEF SaveAdvance
<1>6. /\ observed' \in [Case -> Observation]
      /\ answers' \in [Key -> SUBSET Operation]
  BY <1>1, <1>2, <1>3, ObservationType, FinishesType DEF SaveAdvance
<1>7. inflight' \in [Request -> Waiting \cup {None}]
  BY DEF SaveAdvance, Ends, TypeOK
<1>. QED
  BY <1>4, <1>5, <1>6, <1>7 DEF SaveAdvance, TypeOK

LEMMA SavedMeanwhileType ==
  ASSUME TypeOK, NEW r \in Request,
         NEW now \in Time, NEW done \in BOOLEAN, SavedMeanwhile(r, now, done)
  PROVE  TypeOK'
<1> DEFINE w == inflight[r]
           o == operations[w.key]
<1>1. w.key \in Key /\ w.body \in Body
  BY WaitingType DEF SavedMeanwhile
<1>2. o \in Operation
  BY <1>1 DEF SavedMeanwhile, Recorded, TypeOK
<1>3. o.case \in Case /\ RecordedVersion(o) \in Nat
  BY <1>1, <1>2, BodyType DEF Operation, RecordedVersion
<1>4. /\ observed' \in [Case -> Observation]
      /\ answers' \in [Key -> SUBSET Operation]
  BY <1>1, <1>3, ObservationType, FinishesType DEF SavedMeanwhile
<1>5. inflight' \in [Request -> Waiting \cup {None}]
  BY DEF SavedMeanwhile, Ends, TypeOK
<1>. QED
  BY <1>4, <1>5 DEF SavedMeanwhile, TypeOK, store

LEMMA OtherType ==
  ASSUME TypeOK, NewDay \/ Crash \/ UNCHANGED vars \/ \E r \in Request : Fail(r)
  PROVE  TypeOK'
<1>1. CASE NewDay
  BY <1>1 DEF TypeOK, NewDay, store
<1>2. CASE Crash \/ \E r \in Request : Fail(r)
  <2>1. inflight' \in [Request -> Waiting \cup {None}]
    BY <1>2 DEF TypeOK, Crash, Fail, Ends
  <2>. QED
    BY <1>2, <2>1 DEF TypeOK, Crash, Fail, store
<1>3. CASE UNCHANGED vars
  BY <1>3 DEF TypeOK, vars
<1>. QED
  BY <1>1, <1>2, <1>3

LEMMA StepType ==
  ASSUME TypeOK, TimelinesHaveLatest, LinksExist, RecordedExist, [Next]_vars
  PROVE  TypeOK'
<1>1. CASE \E k \in Key : Retry(k)
  BY <1>1, RetryType
<1>2. CASE \E k \in Key, s \in Signal, t \in Replay : DispatchAssigned(k, s, t)
  BY <1>2, DispatchAssignedType
<1>3. CASE \E k \in Key, s \in Signal, t \in Replay, now \in Time, done \in BOOLEAN :
                AttachRepost(k, s, t, now, done)
  BY <1>3, AttachRepostType
<1>4. CASE \E k \in Key, s \in Signal, t \in Replay, r \in Request : StartDispatch(r, k, s, {s}, t)
  BY <1>4, StartDispatchType
<1>5. CASE \E k \in Key, r \in Request, c \in Case, claim \in Report, verdict \in Verdict, t \in Replay :
             StartAdvance(r, k, c, claim, verdict, t)
  BY <1>5, StartAdvanceType
<1>6. ASSUME NEW r \in Request, NEW c \in Case, NEW now \in Time, NEW done \in BOOLEAN,
             SaveDispatch(r, c, now, done)
      PROVE  TypeOK'
  BY <1>6, SaveDispatchType
<1>7. CASE \E r \in Request, now \in Time, done \in BOOLEAN : SaveAdvance(r, now, done)
  BY <1>7, SaveAdvanceType
<1>8. CASE \E r \in Request, now \in Time, done \in BOOLEAN : SavedMeanwhile(r, now, done)
  BY <1>8, SavedMeanwhileType
<1>9. CASE NewDay \/ Crash \/ UNCHANGED vars \/ \E r \in Request : Fail(r)
  BY <1>9, OtherType
<1>10. CASE \/ \E k \in Key : Retry(k)
            \/ \E k \in Key, s \in Signal, t \in Replay : DispatchAssigned(k, s, t)
            \/ \E k \in Key, s \in Signal, t \in Replay, now \in Time, done \in BOOLEAN :
                 AttachRepost(k, s, t, now, done)
  BY <1>1, <1>2, <1>3, <1>10
<1>11. CASE \/ \E k \in Key, s \in Signal, t \in Replay, r \in Request : StartDispatch(r, k, s, {s}, t)
            \/ \E k \in Key, r \in Request, c \in Case, claim \in Report, verdict \in Verdict, t \in Replay :
                 StartAdvance(r, k, c, claim, verdict, t)
  BY <1>4, <1>5, <1>11
<1>12. CASE \/ \E r \in Request, c \in Case, now \in Time, done \in BOOLEAN :
                 SaveDispatch(r, c, now, done)
            \/ \E r \in Request, now \in Time, done \in BOOLEAN : SaveAdvance(r, now, done)
            \/ \E r \in Request, now \in Time, done \in BOOLEAN : SavedMeanwhile(r, now, done)
  BY <1>6, <1>7, <1>8, <1>12
<1>. QED
  BY <1>9, <1>10, <1>11, <1>12, Steps

-----------------------------------------------------------------------------
(* The effects of the three transactions on the tables, in one form. *)

\* A request recorded with a version of a Case, and its event; snapshot is what
\* the Case becomes, or what it is.
Effect(k, b, c, snapshot, kind, s) ==
  /\ ~Recorded(k)
  /\ cases' = [cases EXCEPT ![c] = snapshot]
  /\ Records(k, b, c, snapshot.version)
  /\ \E now \in Time : IsNow(now, b) /\ Logs(c, kind, s, snapshot.version, now)

RepostEffect(k, s, c, b) ==
  /\ b.op = "dispatch" /\ b.signal = s
  /\ s \notin Report
  /\ links[s] = None /\ links[Original[s]] = c
  /\ links' = [links EXCEPT ![s] = c]
  /\ Effect(k, b, c, cases[c], "signal_added", s)
  /\ UNCHANGED revisions

DispatchEffect(k, s, c, b, snapshot) ==
  /\ b.op = "dispatch" /\ b.signal = s
  /\ s \in Report
  /\ links[s] = None
  /\ links' = [links EXCEPT ![s] = c]
  /\ snapshot.version = cases[c].version + 1
  /\ snapshot.claims = cases[c].claims \cup {s}
  /\ revisions' = [revisions EXCEPT ![c] = Append(@, snapshot)]
  /\ Effect(k, b, c, snapshot, "signal_added", s)

AdvanceEffect(k, s, c, b, snapshot) ==
  /\ b.op = "advance"
  /\ Exists(c)
  /\ snapshot.version = cases[c].version + 1
  /\ snapshot.claims = cases[c].claims
  /\ revisions' = [revisions EXCEPT ![c] = Append(@, snapshot)]
  /\ Effect(k, b, c, snapshot, "verification_updated", s)
  /\ UNCHANGED links

LEMMA RepostHasEffect ==
  ASSUME TypeOK, LinksExist, NEW k \in Key, NEW s \in Signal, NEW t \in Replay,
         NEW now \in Time, NEW done \in BOOLEAN,
         AttachRepost(k, s, t, now, done)
  PROVE  \E c \in Case : Exists(c) /\ RepostEffect(k, s, c, DispatchOf(s, t))
<1> DEFINE c == links[Original[s]]
           b == DispatchOf(s, t)
<1>1. c \in Case /\ Exists(c)
  BY DEF AttachRepost, TypeOK, LinksExist
<1>2. b.op = "dispatch" /\ b.signal = s
  BY DEF DispatchOf
<1>3. cases' = [cases EXCEPT ![c] = cases[c]]
  BY DEF AttachRepost, TypeOK
<1>. QED
  BY <1>1, <1>2, <1>3 DEF RepostEffect, Effect, AttachRepost, NotRecorded, MayLink, Report

LEMMA SaveDispatchHasEffect ==
  ASSUME TypeOK, PendingFits, NEW r \in Request, NEW c \in Case,
         NEW now \in Time, NEW done \in BOOLEAN,
         SaveDispatch(r, c, now, done)
  PROVE  \E snapshot \in Snapshot :
           DispatchEffect(inflight[r].key, inflight[r].body.signal, c, inflight[r].body, snapshot)
<1> DEFINE w == inflight[r]
           snapshot == [version |-> cases[c].version + 1, claims |-> Covers(c, w.claims),
                        basis |-> w.seen[c]]
<1>1. w.body.signal \in Report /\ w.claims = {w.body.signal}
  BY DEF SaveDispatch, PendingFits, FitsDispatch
<1>2. w.seen[c] \in Nat /\ w.claims \in SUBSET Report
  BY WaitingType DEF SaveDispatch
<1>3. cases[c] \in Snapshot
  BY DEF TypeOK
<1>4. snapshot \in Snapshot
  BY <1>2, <1>3 DEF Snapshot, Covers
<1>5. DispatchEffect(w.key, w.body.signal, c, w.body, snapshot)
  BY <1>1 DEF DispatchEffect, Effect, SaveDispatch, NotRecorded, MayLink, Revises, Covers
<1>. QED
  BY <1>4, <1>5

LEMMA SaveAdvanceHasEffect ==
  ASSUME TypeOK, PendingFits, NEW r \in Request,
         NEW now \in Time, NEW done \in BOOLEAN, SaveAdvance(r, now, done)
  PROVE  \E snapshot \in Snapshot :
           AdvanceEffect(inflight[r].key, inflight[r].body.claim, inflight[r].body.case,
                         inflight[r].body, snapshot)
<1> DEFINE w == inflight[r]
           c == w.body.case
           snapshot == [version |-> w.body.version + 1, claims |-> w.claims,
                        basis |-> w.body.version]
<1>1. w.claims \in SUBSET Report /\ w.body.version \in Nat
  BY WaitingType, BodyType DEF SaveAdvance
<1>2. snapshot \in Snapshot
  BY <1>1 DEF Snapshot
<1>3. Exists(c) /\ w.body.version = cases[c].version /\ w.claims = cases[c].claims
  BY DEF SaveAdvance, VersionIs, PendingFits, FitsAdvance
<1>4. AdvanceEffect(w.key, w.body.claim, c, w.body, snapshot)
  BY <1>3 DEF AdvanceEffect, Effect, SaveAdvance, NotRecorded, Revises
<1>. QED
  BY <1>2, <1>4

\* Every step leaves the tables alone or has one of the three effects.
LEMMA StoreEffects ==
  ASSUME TypeOK, LinksExist, PendingFits, [Next]_vars
  PROVE  \/ UNCHANGED store
         \/ \E k \in Key, s \in Signal, c \in Case, b \in Body :
               Exists(c) /\ RepostEffect(k, s, c, b)
         \/ \E k \in Key, s \in Signal, c \in Case, b \in Body, snapshot \in Snapshot :
               DispatchEffect(k, s, c, b, snapshot) \/ AdvanceEffect(k, s, c, b, snapshot)
<1>1. CASE UNCHANGED store
  BY <1>1
<1>2. CASE \E k \in Key, s \in Signal, t \in Replay, now \in Time, done \in BOOLEAN :
                AttachRepost(k, s, t, now, done)
  BY <1>2, RepostHasEffect, BodyType
<1>3. ASSUME NEW r \in Request, NEW c \in Case,
             NEW now \in Time, NEW done \in BOOLEAN, SaveDispatch(r, c, now, done)
      PROVE  \E k \in Key, s \in Signal, b \in Body, snapshot \in Snapshot :
               DispatchEffect(k, s, c, b, snapshot)
  <2>1. inflight[r].key \in Key /\ inflight[r].body \in Body /\ inflight[r].body.signal \in Signal
    BY <1>3, WaitingType, BodyType DEF SaveDispatch
  <2>. QED
    BY <1>3, <2>1, SaveDispatchHasEffect
<1>4. ASSUME NEW r \in Request, NEW now \in Time, NEW done \in BOOLEAN, SaveAdvance(r, now, done)
      PROVE  \E k \in Key, s \in Signal, c \in Case, b \in Body, snapshot \in Snapshot :
               AdvanceEffect(k, s, c, b, snapshot)
  <2>1. /\ inflight[r].key \in Key /\ inflight[r].body \in Body
        /\ inflight[r].body.claim \in Signal /\ inflight[r].body.case \in Case
    BY <1>4, WaitingType, BodyType DEF SaveAdvance, Report
  <2>. QED
    BY <1>4, <2>1, SaveAdvanceHasEffect
<1>. QED
  BY <1>1, <1>2, <1>3, <1>4, StoreSteps

-----------------------------------------------------------------------------
(* What no step takes back. *)

StoreGrows ==
  /\ \A c \in Case : /\ cases[c].version <= cases'[c].version
                     /\ cases[c].version = cases'[c].version => cases'[c] = cases[c]
  /\ \A s \in Signal : links[s] # None => links'[s] = links[s]
  /\ \A k \in Key : Recorded(k) => operations'[k] = operations[k]

LEMMA CaseVersions == ASSUME TypeOK PROVE \A c \in Case : cases[c].version \in Nat
  BY DEF TypeOK, Snapshot

LEMMA RepostGrows ==
  ASSUME TypeOK, NEW k \in Key, NEW s \in Signal, NEW c \in Case, NEW b \in Body,
         RepostEffect(k, s, c, b)
  PROVE  StoreGrows
  BY CaseVersions DEF StoreGrows, RepostEffect, Effect, Records, Recorded, TypeOK

LEMMA DispatchGrows ==
  ASSUME TypeOK, NEW k \in Key, NEW s \in Signal, NEW c \in Case, NEW b \in Body,
         NEW snapshot \in Snapshot, DispatchEffect(k, s, c, b, snapshot)
  PROVE  StoreGrows
  BY CaseVersions DEF StoreGrows, DispatchEffect, Effect, Records, Recorded, TypeOK

LEMMA AdvanceGrows ==
  ASSUME TypeOK, NEW k \in Key, NEW s \in Signal, NEW c \in Case, NEW b \in Body,
         NEW snapshot \in Snapshot, AdvanceEffect(k, s, c, b, snapshot)
  PROVE  StoreGrows
  BY CaseVersions DEF StoreGrows, AdvanceEffect, Effect, Records, Recorded, TypeOK

LEMMA StepGrows ==
  ASSUME TypeOK, LinksExist, PendingFits, [Next]_vars
  PROVE  StoreGrows
<1>1. CASE UNCHANGED store
  BY <1>1, CaseVersions DEF StoreGrows, store
<1>. QED
  BY <1>1, StoreEffects, RepostGrows, DispatchGrows, AdvanceGrows

-----------------------------------------------------------------------------
(* LinksExist and RecordedExist. *)

\* What the effects have in common: the Case the request is recorded with
\* exists then, and a dispatched Signal is linked.
LEMMA EffectIsFounded ==
  ASSUME TypeOK, TypeOK', LinksExist, PendingFits, [Next]_vars
  PROVE  \/ UNCHANGED store
         \/ \E k \in Key, c \in Case, b \in Body, v \in Nat :
               /\ Exists(c)' /\ v = cases'[c].version
               /\ operations' = [operations EXCEPT ![k] = [body |-> b, case |-> c, version |-> v]]
               /\ b.op = "dispatch" => /\ b.signal \in Signal
                                       /\ links[b.signal] = None /\ links'[b.signal] = c
               /\ ~Recorded(k)
               /\ \/ UNCHANGED links
                  \/ \E s \in Signal : links' = [links EXCEPT ![s] = c]
<1>1. ASSUME NEW k \in Key, NEW s \in Signal, NEW c \in Case, NEW b \in Body, Exists(c), RepostEffect(k, s, c, b)
      PROVE  /\ Exists(c)'
             /\ operations' = [operations EXCEPT ![k] = [body |-> b, case |-> c, version |-> cases'[c].version]]
             /\ b.op = "dispatch" => /\ b.signal \in Signal
                                     /\ links[b.signal] = None /\ links'[b.signal] = c
             /\ ~Recorded(k)
             /\ links' = [links EXCEPT ![s] = c]
  BY <1>1 DEF RepostEffect, Effect, Records, Exists, TypeOK
<1>2. ASSUME NEW k \in Key, NEW s \in Signal, NEW c \in Case, NEW b \in Body, NEW snapshot \in Snapshot,
             DispatchEffect(k, s, c, b, snapshot)
      PROVE  /\ Exists(c)'
             /\ operations' = [operations EXCEPT ![k] = [body |-> b, case |-> c, version |-> cases'[c].version]]
             /\ b.op = "dispatch" => /\ b.signal \in Signal
                                     /\ links[b.signal] = None /\ links'[b.signal] = c
             /\ ~Recorded(k)
             /\ links' = [links EXCEPT ![s] = c]
  <2>1. cases'[c] = snapshot
    BY <1>2 DEF DispatchEffect, Effect, TypeOK
  <2>2. Exists(c)'
    BY <1>2, <2>1, CaseVersions DEF DispatchEffect, Exists
  <2>. QED
    BY <1>2, <2>1, <2>2 DEF DispatchEffect, Effect, Records, TypeOK
<1>3. ASSUME NEW k \in Key, NEW s \in Signal, NEW c \in Case, NEW b \in Body, NEW snapshot \in Snapshot,
             AdvanceEffect(k, s, c, b, snapshot)
      PROVE  /\ Exists(c)'
             /\ operations' = [operations EXCEPT ![k] = [body |-> b, case |-> c, version |-> cases'[c].version]]
             /\ b.op # "dispatch"
             /\ ~Recorded(k)
             /\ UNCHANGED links
  <2>1. cases'[c] = snapshot
    BY <1>3 DEF AdvanceEffect, Effect, TypeOK
  <2>2. Exists(c)'
    BY <1>3, <2>1, CaseVersions DEF AdvanceEffect, Exists
  <2>. QED
    BY <1>3, <2>1, <2>2 DEF AdvanceEffect, Effect, Records
<1>4. \A c \in Case : cases'[c].version \in Nat
  BY DEF TypeOK, Snapshot
<1>5. CASE \E k \in Key, s \in Signal, c \in Case, b \in Body : Exists(c) /\ RepostEffect(k, s, c, b)
  BY <1>1, <1>4, <1>5
<1>6. CASE \E k \in Key, s \in Signal, c \in Case, b \in Body, snapshot \in Snapshot :
             DispatchEffect(k, s, c, b, snapshot)
  BY <1>2, <1>4, <1>6
<1>7. CASE \E k \in Key, s \in Signal, c \in Case, b \in Body, snapshot \in Snapshot :
             AdvanceEffect(k, s, c, b, snapshot)
  BY <1>3, <1>4, <1>7
<1>. QED
  BY <1>5, <1>6, <1>7, StoreEffects

LEMMA StepLinksExist ==
  ASSUME TypeOK, TypeOK', LinksExist, PendingFits, [Next]_vars
  PROVE  LinksExist'
<1>1. StoreGrows
  BY StepGrows
<1>2. \A c \in Case : cases[c].version \in Nat /\ cases'[c].version \in Nat
  BY DEF TypeOK, Snapshot
<1>3. \A c \in Case : Exists(c) => Exists(c)'
  BY <1>1, <1>2 DEF StoreGrows, Exists
<1>4. CASE UNCHANGED links
  BY <1>3, <1>4 DEF LinksExist, TypeOK
<1>5. ASSUME NEW c \in Case, Exists(c)', NEW s \in Signal, links' = [links EXCEPT ![s] = c]
      PROVE  LinksExist'
  <2>1. \A z \in Signal : links'[z] = IF z = s THEN c ELSE links[z]
    BY <1>5 DEF TypeOK
  <2>2. ASSUME NEW z \in Signal, links'[z] # None PROVE cases'[links'[z]].version > 0
    BY <1>3, <1>5, <2>1, <2>2 DEF LinksExist, TypeOK, Exists
  <2>. QED
    BY <2>2 DEF LinksExist, Exists
<1>. QED
  BY <1>4, <1>5, EffectIsFounded DEF store

LEMMA StepRecordedExist ==
  ASSUME TypeOK, TypeOK', LinksExist, RecordedExist, PendingFits, [Next]_vars
  PROVE  RecordedExist'
<1>1. StoreGrows
  BY StepGrows
<1>2. \A c \in Case : cases[c].version \in Nat /\ cases'[c].version \in Nat
  BY DEF TypeOK, Snapshot
<1> DEFINE Founded(k) ==
             /\ cases'[operations'[k].case].version > 0
             /\ operations'[k].version <= cases'[operations'[k].case].version
             /\ operations'[k].body.op = "dispatch" => links'[operations'[k].body.signal] # None
<1>3. ASSUME NEW k \in Key, Recorded(k)
      PROVE  Founded(k)
  <2>1. operations[k] \in Operation /\ operations'[k] = operations[k]
    BY <1>1, <1>3 DEF TypeOK, Recorded, StoreGrows
  <2>2. operations[k].case \in Case /\ operations[k].version \in Nat /\ operations[k].body \in Body
    BY <2>1 DEF Operation
  <2>3. operations[k].body.op = "dispatch" => links'[operations[k].body.signal] # None
    BY <1>1, <1>3, <2>2, BodyType DEF RecordedExist, StoreGrows
  <2>. QED
    BY <1>1, <1>2, <1>3, <2>1, <2>2, <2>3 DEF RecordedExist, StoreGrows, Exists
<1>4. ASSUME NEW k \in Key, NEW c \in Case, NEW b \in Body, NEW v \in Nat,
             Exists(c)', v = cases'[c].version,
             operations' = [operations EXCEPT ![k] = [body |-> b, case |-> c, version |-> v]],
             b.op = "dispatch" => b.signal \in Signal /\ links'[b.signal] = c
      PROVE  Founded(k) /\ \A j \in Key : j # k => operations'[j] = operations[j]
  BY <1>2, <1>4 DEF Exists, TypeOK
<1>5. CASE UNCHANGED store
  BY <1>3, <1>5 DEF RecordedExist, Recorded, Exists, store
<1>6. CASE \E k \in Key : Founded(k) /\ \A j \in Key : j # k => operations'[j] = operations[j]
  <2>1. \A k \in Key : operations'[k] # None => Founded(k)
    BY <1>3, <1>6 DEF Recorded
  <2>. QED
    BY <2>1 DEF RecordedExist, Recorded, Exists
<1>. QED
  BY <1>4, <1>5, <1>6, EffectIsFounded

-----------------------------------------------------------------------------
(* TimelinesHaveLatest. *)

LEMMA AppendHasLatest ==
  ASSUME TypeOK, NEW c \in Case, timeline[c] # <<>> => HasLatest(c), NEW e \in Event,
         timeline'[c] = Append(timeline[c], e)
  PROVE  timeline'[c] # <<>> /\ HasLatest(c)'
<1> DEFINE n == Len(timeline[c])
<1>1. timeline[c] \in Seq(Event) /\ n \in Nat
  BY DEF TypeOK
<1>2. /\ DOMAIN timeline'[c] = 1..(n + 1)
      /\ timeline'[c][n + 1] = e
      /\ \A i \in 1..n : timeline'[c][i] = timeline[c][i]
  BY <1>1
<1>3. e.at \in Nat /\ \A i \in 1..n : timeline[c][i].at \in Nat
  <2>1. \A i \in 1..n : timeline[c][i] \in Event
    BY <1>1
  <2>. QED
    BY <2>1, TimeAssumption DEF Event
<1>4. timeline'[c] # <<>>
  <2>1. n + 1 \in 1..(n + 1)
    BY <1>1
  <2>2. DOMAIN <<>> = {}
    OBVIOUS
  <2>. QED
    BY <1>2, <2>1, <2>2
<1>5. \E i \in 1..(n + 1) : \A j \in 1..(n + 1) : timeline'[c][j].at <= timeline'[c][i].at
  <2>1. CASE n = 0
    <3>1. \A j \in 1..(n + 1) : j = n + 1
      BY <2>1
    <3>. QED
      BY <1>1, <1>2, <1>3, <3>1
  <2>2. CASE n # 0
    <3>1. PICK i \in 1..n : \A j \in 1..n : timeline[c][j].at <= timeline[c][i].at
      <4>1. timeline[c] # <<>> /\ DOMAIN timeline[c] = 1..n
        BY <1>1, <2>2
      <4>. QED
        BY <4>1 DEF HasLatest
    <3>2. CASE e.at <= timeline[c][i].at
      <4>1. \A j \in 1..(n + 1) : timeline'[c][j].at <= timeline'[c][i].at
        BY <1>1, <1>2, <3>1, <3>2
      <4>2. i \in 1..(n + 1)
        BY <1>1
      <4>. QED
        BY <4>1, <4>2
    <3>3. CASE ~(e.at <= timeline[c][i].at)
      <4>1. \A j \in 1..(n + 1) : timeline'[c][j].at <= timeline'[c][n + 1].at
        BY <1>1, <1>2, <1>3, <3>1, <3>3
      <4>2. n + 1 \in 1..(n + 1)
        BY <1>1
      <4>. QED
        BY <4>1, <4>2
    <3>. QED
      BY <3>2, <3>3
  <2>. QED
    BY <2>1, <2>2
<1>. QED
  BY <1>2, <1>4, <1>5 DEF HasLatest

\* A step appends one event to one timeline: that of the request it records,
\* with the version the Case has then.
LEMMA EventSteps ==
  ASSUME TypeOK, TypeOK', LinksExist, PendingFits, [Next]_vars
  PROVE  \/ UNCHANGED store
         \/ \E k \in Key, c \in Case, b \in Body, e \in Event :
              /\ timeline' = [timeline EXCEPT ![c] = Append(@, e)]
              /\ e.version = cases'[c].version /\ IsNow(e.at, b)
              /\ operations' = [operations EXCEPT ![k] = [body |-> b, case |-> c, version |-> e.version]]
              /\ \A d \in Case : d # c => cases'[d] = cases[d]
<1>1. ASSUME NEW k \in Key, NEW s \in Signal, NEW c \in Case, NEW b \in Body, NEW snapshot \in Snapshot,
             NEW kind \in {"signal_added", "verification_updated"}, Effect(k, b, c, snapshot, kind, s)
      PROVE  \E e \in Event :
              /\ timeline' = [timeline EXCEPT ![c] = Append(@, e)]
              /\ e.version = cases'[c].version /\ IsNow(e.at, b)
              /\ operations' = [operations EXCEPT ![k] = [body |-> b, case |-> c, version |-> e.version]]
              /\ \A d \in Case : d # c => cases'[d] = cases[d]
  <2>. PICK now \in Time : IsNow(now, b) /\ Logs(c, kind, s, snapshot.version, now)
    BY <1>1 DEF Effect
  <2> DEFINE e == [kind |-> kind, about |-> s, version |-> snapshot.version, at |-> now]
  <2>1. e \in Event
    BY DEF Event, Snapshot
  <2>2. timeline' = [timeline EXCEPT ![c] = Append(@, e)]
    BY DEF Logs
  <2>3. cases'[c] = snapshot /\ \A d \in Case : d # c => cases'[d] = cases[d]
    BY <1>1 DEF Effect, TypeOK
  <2>4. operations' = [operations EXCEPT ![k] = [body |-> b, case |-> c, version |-> e.version]]
    BY <1>1 DEF Effect, Records
  <2>. QED
    BY <2>1, <2>2, <2>3, <2>4
<1>2. \A c \in Case : cases[c] \in Snapshot
  BY DEF TypeOK
<1>3. CASE \E k \in Key, s \in Signal, c \in Case, b \in Body : RepostEffect(k, s, c, b)
  BY <1>1, <1>2, <1>3 DEF RepostEffect
<1>4. CASE \E k \in Key, s \in Signal, c \in Case, b \in Body, snapshot \in Snapshot :
             DispatchEffect(k, s, c, b, snapshot) \/ AdvanceEffect(k, s, c, b, snapshot)
  BY <1>1, <1>4 DEF DispatchEffect, AdvanceEffect
<1>. QED
  BY <1>3, <1>4, StoreEffects

LEMMA StepTimelines ==
  ASSUME TypeOK, TypeOK', LinksExist, PendingFits, TimelinesHaveLatest, [Next]_vars
  PROVE  TimelinesHaveLatest'
<1>1. CASE UNCHANGED store
  BY <1>1 DEF TimelinesHaveLatest, HasLatest, Exists, store
<1>2. ASSUME NEW c \in Case, NEW e \in Event, timeline' = [timeline EXCEPT ![c] = Append(@, e)],
             \A d \in Case : d # c => cases'[d] = cases[d],
             NEW d \in Case
      PROVE  /\ Exists(d)' => timeline'[d] # <<>>
             /\ timeline'[d] # <<>> => HasLatest(d)'
  <2>1. CASE d = c
    <3>1. timeline'[c] = Append(timeline[c], e)
      BY <1>2 DEF TypeOK
    <3>. QED
      BY <2>1, <3>1, AppendHasLatest DEF TimelinesHaveLatest
  <2>2. CASE d # c
    <3>1. timeline'[d] = timeline[d] /\ cases'[d] = cases[d]
      BY <1>2, <2>2 DEF TypeOK
    <3>. QED
      BY <3>1 DEF TimelinesHaveLatest, HasLatest, Exists
  <2>. QED
    BY <2>1, <2>2
<1>. QED
  BY <1>1, <1>2, EventSteps DEF TimelinesHaveLatest

-----------------------------------------------------------------------------
(* PendingFits. *)

\* What requests await: a step ends some, and starts at most one.
LEMMA PendingSteps ==
  ASSUME TypeOK, [Next]_vars
  PROVE  \/ \A r \in Request : inflight'[r] \in {inflight[r], None}
         \/ \E r \in Request :
              /\ \A q \in Request : q # r => inflight'[q] = inflight[q]
              /\ FitsDispatch(inflight'[r]) /\ FitsAdvance(inflight'[r])
              /\ UNCHANGED cases
<1>1. ASSUME NEW r \in Request, Ends(r)
      PROVE  \A q \in Request : inflight'[q] \in {inflight[q], None}
  BY <1>1 DEF Ends, TypeOK
<1>2. ASSUME NEW r \in Request, NEW k \in Key, NEW b, NEW seen, NEW claims, Awaits(r, k, b, seen, claims)
      PROVE  /\ \A q \in Request : q # r => inflight'[q] = inflight[q]
             /\ inflight'[r] = [key |-> k, body |-> b, seen |-> seen, claims |-> claims]
             /\ UNCHANGED cases
  BY <1>2 DEF Awaits, TypeOK, store
<1>3. ASSUME NEW k \in Key, NEW s \in Signal, NEW t \in Replay, NEW r \in Request,
             StartDispatch(r, k, s, {s}, t)
      PROVE  /\ \A q \in Request : q # r => inflight'[q] = inflight[q]
             /\ FitsDispatch(inflight'[r]) /\ FitsAdvance(inflight'[r])
             /\ UNCHANGED cases
  <2> DEFINE w == [key |-> k, body |-> DispatchOf(s, t),
                   seen |-> [c \in Case |-> cases[c].version], claims |-> {s}]
  <2>1. s \in Report /\ Awaits(r, k, DispatchOf(s, t), [c \in Case |-> cases[c].version], {s})
    BY <1>3 DEF StartDispatch
  <2>2. /\ \A q \in Request : q # r => inflight'[q] = inflight[q]
        /\ inflight'[r] = w
        /\ UNCHANGED cases
    BY <1>2, <2>1
  <2>3. FitsDispatch(w) /\ FitsAdvance(w)
    BY <2>1 DEF DispatchOf, FitsDispatch, FitsAdvance
  <2>. QED
    BY <2>2, <2>3
<1>4. ASSUME NEW k \in Key, NEW r \in Request, NEW c \in Case, NEW claim \in Report,
             NEW verdict \in Verdict, NEW t \in Replay, StartAdvance(r, k, c, claim, verdict, t)
      PROVE  /\ \A q \in Request : q # r => inflight'[q] = inflight[q]
             /\ FitsDispatch(inflight'[r]) /\ FitsAdvance(inflight'[r])
             /\ UNCHANGED cases
  <2> DEFINE b == [op |-> "advance", case |-> c, version |-> cases[c].version,
                   claim |-> claim, verdict |-> verdict, at |-> t]
             seen == [d \in Case |-> IF d = c THEN cases[c].version ELSE 0]
             w == [key |-> k, body |-> b, seen |-> seen, claims |-> cases[c].claims]
  <2>1. Exists(c) /\ Awaits(r, k, b, seen, cases[c].claims)
    BY <1>4 DEF StartAdvance
  <2>2. /\ \A q \in Request : q # r => inflight'[q] = inflight[q]
        /\ inflight'[r] = w
        /\ UNCHANGED cases
    BY <1>2, <2>1
  <2>3. cases[c].version <= cases[c].version
    BY CaseVersions
  <2>4. FitsDispatch(w) /\ FitsAdvance(w)
    BY <2>1, <2>3 DEF FitsDispatch, FitsAdvance
  <2>. QED
    BY <2>2, <2>4
<1>5. CASE \/ \E k \in Key : Retry(k)
           \/ \E k \in Key, s \in Signal, t \in Replay : DispatchAssigned(k, s, t)
           \/ \E k \in Key, s \in Signal, t \in Replay, now \in Time, done \in BOOLEAN :
                   AttachRepost(k, s, t, now, done)
           \/ NewDay \/ UNCHANGED vars
  BY <1>5 DEF Retry, DispatchAssigned, AttachRepost, NewDay, vars
<1>6. CASE \/ \E r \in Request, c \in Case, now \in Time, done \in BOOLEAN :
                   SaveDispatch(r, c, now, done)
           \/ \E r \in Request, now \in Time, done \in BOOLEAN : SaveAdvance(r, now, done)
           \/ \E r \in Request, now \in Time, done \in BOOLEAN : SavedMeanwhile(r, now, done)
           \/ \E r \in Request : Fail(r)
  <2>1. ASSUME NEW r \in Request, NEW c \in Case, NEW now \in Time, NEW done \in BOOLEAN,
               SaveDispatch(r, c, now, done)
        PROVE  Ends(r)
    BY <2>1 DEF SaveDispatch
  <2>2. ASSUME NEW r \in Request, NEW now \in Time, NEW done \in BOOLEAN,
               SaveAdvance(r, now, done) \/ SavedMeanwhile(r, now, done)
        PROVE  Ends(r)
    BY <2>2 DEF SaveAdvance, SavedMeanwhile
  <2>3. \A r \in Request : Fail(r) => Ends(r)
    BY DEF Fail
  <2>4. \E r \in Request : Ends(r)
    BY <1>6, <2>1, <2>2, <2>3
  <2>. QED
    BY <1>1, <2>4
<1>7. CASE Crash
  BY <1>7 DEF Crash
<1>. QED
  BY <1>3, <1>4, <1>5, <1>6, <1>7, Steps

LEMMA StepPending ==
  ASSUME TypeOK, TypeOK', LinksExist, PendingFits, [Next]_vars
  PROVE  PendingFits'
<1>1. StoreGrows
  BY StepGrows
<1>2. \A c \in Case : cases[c].version \in Nat /\ cases'[c].version \in Nat
  BY DEF TypeOK, Snapshot
<1> DEFINE Fits(w) ==
             /\ FitsDispatch(w)
             /\ w.body.op = "advance" =>
                  /\ cases'[w.body.case].version > 0
                  /\ w.body.version <= cases'[w.body.case].version
                  /\ w.body.version = cases'[w.body.case].version => w.claims = cases'[w.body.case].claims
<1>3. ASSUME NEW r \in Request, inflight[r] # None
      PROVE  Fits(inflight[r])
  <2> DEFINE w == inflight[r]
  <2>1. FitsDispatch(w) /\ FitsAdvance(w)
    BY <1>3 DEF PendingFits
  <2>2. ASSUME w.body.op = "advance"
        PROVE  w.body.case \in Case /\ w.body.version \in Nat
    BY <1>3, <2>2, WaitingType, BodyType
  <2>. QED
    BY <1>1, <1>2, <2>1, <2>2 DEF FitsAdvance, StoreGrows, Exists
<1>4. ASSUME NEW w, FitsDispatch(w), FitsAdvance(w), UNCHANGED cases
      PROVE  Fits(w)
  BY <1>4 DEF FitsAdvance, Exists
<1>5. \A r \in Request : inflight'[r] # None => Fits(inflight'[r])
  BY <1>3, <1>4, PendingSteps
<1>. QED
  BY <1>5 DEF PendingFits, FitsDispatch, FitsAdvance, Exists

-----------------------------------------------------------------------------
(* RevisionsFit and ClaimsOfMembers. *)

\* A revision that is appended is what the Case becomes.
LEMMA AppendFits ==
  ASSUME TypeOK, RevisionsFit, NEW c \in Case, NEW snapshot \in Snapshot,
         snapshot.version = cases[c].version + 1,
         cases' = [cases EXCEPT ![c] = snapshot],
         revisions' = [revisions EXCEPT ![c] = Append(@, snapshot)]
  PROVE  RevisionsFit'
<1>1. /\ cases'[c] = snapshot
      /\ revisions'[c] = Append(revisions[c], snapshot)
      /\ \A d \in Case : d # c => cases'[d] = cases[d] /\ revisions'[d] = revisions[d]
  BY DEF TypeOK
<1>2. revisions[c] \in Seq(Snapshot) /\ Len(revisions[c]) = cases[c].version
  BY DEF TypeOK, RevisionsFit
<1>3. /\ Len(revisions'[c]) = cases'[c].version
      /\ revisions'[c][cases'[c].version] = cases'[c]
  BY <1>1, <1>2
<1>. QED
  BY <1>1, <1>3 DEF RevisionsFit, Exists

LEMMA StepRevisionsFit ==
  ASSUME TypeOK, LinksExist, PendingFits, RevisionsFit, [Next]_vars
  PROVE  RevisionsFit'
<1>1. CASE UNCHANGED store
  BY <1>1 DEF RevisionsFit, Exists, store
<1>2. CASE \E k \in Key, s \in Signal, c \in Case, b \in Body : RepostEffect(k, s, c, b)
  <2>1. UNCHANGED <<cases, revisions>>
    BY <1>2 DEF RepostEffect, Effect, TypeOK
  <2>. QED
    BY <2>1 DEF RevisionsFit, Exists
<1>3. CASE \E k \in Key, s \in Signal, c \in Case, b \in Body, snapshot \in Snapshot :
             DispatchEffect(k, s, c, b, snapshot) \/ AdvanceEffect(k, s, c, b, snapshot)
  BY <1>3, AppendFits DEF DispatchEffect, AdvanceEffect, Effect
<1>. QED
  BY <1>1, <1>2, <1>3, StoreEffects

LEMMA StepClaims ==
  ASSUME TypeOK, LinksExist, PendingFits, ClaimsOfMembers, [Next]_vars
  PROVE  ClaimsOfMembers'
<1>1. CASE UNCHANGED store
  BY <1>1 DEF ClaimsOfMembers, store
<1>2. ASSUME NEW k \in Key, NEW s \in Signal, NEW c \in Case, NEW b \in Body, RepostEffect(k, s, c, b)
      PROVE  ClaimsOfMembers'
  <2>1. cases' = cases /\ s \notin Report
    BY <1>2 DEF RepostEffect, Effect, TypeOK
  <2>2. \A z \in Report : links'[z] = links[z]
    BY <1>2, <2>1 DEF RepostEffect, TypeOK, Report
  <2>. QED
    BY <2>1, <2>2 DEF ClaimsOfMembers
<1>3. ASSUME NEW k \in Key, NEW s \in Signal, NEW c \in Case, NEW b \in Body, NEW snapshot \in Snapshot,
             DispatchEffect(k, s, c, b, snapshot)
      PROVE  ClaimsOfMembers'
  <2>1. /\ s \in Report /\ links[s] = None
        /\ cases'[c].claims = cases[c].claims \cup {s}
        /\ \A d \in Case : d # c => cases'[d] = cases[d]
    BY <1>3 DEF DispatchEffect, Effect, TypeOK
  <2>2. \A z \in Signal : links'[z] = IF z = s THEN c ELSE links[z]
    BY <1>3 DEF DispatchEffect, TypeOK
  <2>3. Report \subseteq Signal
    BY DEF Report
  <2>4. {z \in Report : links'[z] = c} = {z \in Report : links[z] = c} \cup {s}
    BY <2>1, <2>2, <2>3
  <2>5. ASSUME NEW d \in Case, d # c
        PROVE  {z \in Report : links'[z] = d} = {z \in Report : links[z] = d}
    BY <2>1, <2>2, <2>3, <2>5
  <2>. QED
    BY <2>1, <2>4, <2>5 DEF ClaimsOfMembers
<1>4. ASSUME NEW k \in Key, NEW s \in Signal, NEW c \in Case, NEW b \in Body, NEW snapshot \in Snapshot,
             AdvanceEffect(k, s, c, b, snapshot)
      PROVE  ClaimsOfMembers'
  <2>1. links' = links /\ \A d \in Case : cases'[d].claims = cases[d].claims
    BY <1>4 DEF AdvanceEffect, Effect, TypeOK
  <2>. QED
    BY <2>1 DEF ClaimsOfMembers
<1>. QED
  BY <1>1, <1>2, <1>3, <1>4, StoreEffects

-----------------------------------------------------------------------------
(* AnswersKnown and AnswersMatchOperation. *)

LEMMA OperationIs ==
  \A o \in Operation : o = [body |-> o.body, case |-> o.case, version |-> o.version]
  BY DEF Operation

\* A step answers one request at most: with its operation, or with the Case
\* its Signal is linked to, and then the key is not recorded.
LEMMA AnswerSteps ==
  ASSUME TypeOK, [Next]_vars
  PROVE  \/ UNCHANGED answers
         \/ \E k \in Key, a \in Operation :
              /\ answers' = [answers EXCEPT ![k] = @ \cup {a}]
              /\ \/ operations'[k] = a
                 \/ /\ ~Recorded(k) /\ UNCHANGED store
                    /\ a.body.op = "dispatch" /\ a.body.signal \in Signal
                    /\ links[a.body.signal] # None
<1> DEFINE Answers(k, a) ==
             /\ answers' = [answers EXCEPT ![k] = @ \cup {a}]
             /\ \/ operations'[k] = a
                \/ /\ ~Recorded(k) /\ UNCHANGED store
                   /\ a.body.op = "dispatch" /\ a.body.signal \in Signal
                   /\ links[a.body.signal] # None
<1> HIDE DEF Answers
<1>1. ASSUME NEW k \in Key, Retry(k)
      PROVE  operations[k] \in Operation /\ Answers(k, operations[k])
  BY <1>1, OperationIs DEF Retry, Recorded, RecordedVersion, TypeOK, AnswersWith, Answers, store
<1>2. ASSUME NEW k \in Key, NEW s \in Signal, NEW t \in Replay, DispatchAssigned(k, s, t)
      PROVE  \E a \in Operation : Answers(k, a)
  <2> DEFINE a == [body |-> DispatchOf(s, t), case |-> links[s], version |-> cases[links[s]].version]
  <2>1. links[s] \in Case /\ links[s] # None
    BY <1>2 DEF DispatchAssigned, MayLink, TypeOK
  <2>2. a \in Operation
    BY <2>1, BodyType, CaseVersions DEF Operation
  <2>3. a.body.op = "dispatch" /\ a.body.signal = s
    BY DEF DispatchOf
  <2>4. Answers(k, a)
    BY <1>2, <2>1, <2>3 DEF DispatchAssigned, NotRecorded, AnswersWith, Answers
  <2>. QED
    BY <2>2, <2>4
<1>3. ASSUME NEW k \in Key, NEW s \in Signal, NEW t \in Replay,
             NEW now \in Time, NEW done \in BOOLEAN, AttachRepost(k, s, t, now, done)
      PROVE  UNCHANGED answers \/ \E a \in Operation : Answers(k, a)
  <2> DEFINE a == [body |-> DispatchOf(s, t), case |-> links[Original[s]],
                   version |-> cases[links[Original[s]]].version]
  <2>1. links[Original[s]] \in Case
    BY <1>3 DEF AttachRepost, TypeOK
  <2>2. a \in Operation
    BY <2>1, BodyType, CaseVersions DEF Operation
  <2>3. operations'[k] = a
    BY <1>3 DEF AttachRepost, Records, TypeOK
  <2>. QED
    BY <1>3, <2>2, <2>3 DEF AttachRepost, Finishes, Observed, AnswersWith, Answers
<1>4. ASSUME NEW r \in Request, NEW c \in Case,
             NEW now \in Time, NEW done \in BOOLEAN, SaveDispatch(r, c, now, done)
      PROVE  UNCHANGED answers \/ \E k \in Key, a \in Operation : Answers(k, a)
  <2> DEFINE w == inflight[r]
             a == [body |-> w.body, case |-> c, version |-> cases[c].version + 1]
  <2>1. w.key \in Key /\ w.body \in Body
    BY <1>4, WaitingType DEF SaveDispatch
  <2>2. a \in Operation
    BY <2>1, CaseVersions DEF Operation
  <2>3. operations'[w.key] = a
    BY <1>4, <2>1 DEF SaveDispatch, Revises, Records, TypeOK
  <2>4. UNCHANGED answers \/ answers' = [answers EXCEPT ![w.key] = @ \cup {a}]
    BY <1>4 DEF SaveDispatch, Finishes, Observed, AnswersWith
  <2>. QED
    BY <2>1, <2>2, <2>3, <2>4 DEF Answers
<1>5. ASSUME NEW r \in Request, NEW now \in Time, NEW done \in BOOLEAN, SaveAdvance(r, now, done)
      PROVE  UNCHANGED answers \/ \E k \in Key, a \in Operation : Answers(k, a)
  <2> DEFINE w == inflight[r]
             a == [body |-> w.body, case |-> w.body.case, version |-> w.body.version + 1]
  <2>1. w.key \in Key /\ w.body \in Body /\ w.body.case \in Case /\ w.body.version \in Nat
    BY <1>5, WaitingType, BodyType DEF SaveAdvance
  <2>2. a \in Operation
    BY <2>1 DEF Operation
  <2>3. operations'[w.key] = a
    BY <1>5, <2>1 DEF SaveAdvance, Revises, Records, TypeOK
  <2>4. UNCHANGED answers \/ answers' = [answers EXCEPT ![w.key] = @ \cup {a}]
    BY <1>5 DEF SaveAdvance, Finishes, Observed, AnswersWith
  <2>. QED
    BY <2>1, <2>2, <2>3, <2>4 DEF Answers
<1>6. ASSUME NEW r \in Request, NEW now \in Time, NEW done \in BOOLEAN, SavedMeanwhile(r, now, done)
      PROVE  UNCHANGED answers \/ \E k \in Key, a \in Operation : Answers(k, a)
  <2> DEFINE w == inflight[r]
             o == operations[w.key]
  <2>1. w.key \in Key
    BY <1>6, WaitingType DEF SavedMeanwhile
  <2>2. o \in Operation /\ o.body = w.body
    BY <1>6, <2>1 DEF SavedMeanwhile, Recorded, TypeOK
  <2>3. UNCHANGED answers \/ answers' = [answers EXCEPT ![w.key] =
            @ \cup {[body |-> w.body, case |-> o.case, version |-> o.version]}]
    BY <1>6 DEF SavedMeanwhile, Finishes, AnswersWith, RecordedVersion
  <2>4. o = [body |-> w.body, case |-> o.case, version |-> o.version]
    BY <2>2, OperationIs
  <2>5. operations'[w.key] = o
    BY <1>6 DEF SavedMeanwhile, store
  <2>. QED
    BY <2>1, <2>2, <2>3, <2>4, <2>5 DEF Answers
<1>7. CASE \/ \E k \in Key, s \in Signal, t \in Replay, r \in Request : StartDispatch(r, k, s, {s}, t)
           \/ \E k \in Key, r \in Request, c \in Case, claim \in Report, verdict \in Verdict, t \in Replay :
                StartAdvance(r, k, c, claim, verdict, t)
           \/ NewDay \/ Crash \/ UNCHANGED vars \/ \E r \in Request : Fail(r)
  BY <1>7 DEF StartDispatch, StartAdvance, Awaits, NewDay, Crash, vars, Fail
<1>8. CASE \/ \E k \in Key : Retry(k)
           \/ \E k \in Key, s \in Signal, t \in Replay : DispatchAssigned(k, s, t)
           \/ \E k \in Key, s \in Signal, t \in Replay, now \in Time, done \in BOOLEAN :
                   AttachRepost(k, s, t, now, done)
  BY <1>1, <1>2, <1>3, <1>8 DEF Answers
<1>9. CASE \/ \E r \in Request, c \in Case, now \in Time, done \in BOOLEAN :
                   SaveDispatch(r, c, now, done)
           \/ \E r \in Request, now \in Time, done \in BOOLEAN : SaveAdvance(r, now, done)
           \/ \E r \in Request, now \in Time, done \in BOOLEAN : SavedMeanwhile(r, now, done)
  BY <1>4, <1>5, <1>6, <1>9 DEF Answers
<1>. QED
  BY <1>7, <1>8, <1>9, Steps

LEMMA StepAnswersKnown ==
  ASSUME TypeOK, LinksExist, PendingFits, AnswersKnown, [Next]_vars
  PROVE  AnswersKnown'
<1>1. StoreGrows
  BY StepGrows
<1> DEFINE Known(k, a) ==
             \/ operations'[k] # None /\ a = operations'[k]
             \/ a.body.op = "dispatch" /\ links'[a.body.signal] # None
<1>2. ASSUME NEW k \in Key, NEW a \in answers[k]
      PROVE  Known(k, a)
  <2>1. CASE Recorded(k) /\ a = operations[k]
    BY <1>1, <2>1 DEF StoreGrows, Recorded
  <2>2. CASE a.body.op = "dispatch" /\ links[a.body.signal] # None
    <3>1. a \in Operation
      BY DEF TypeOK
    <3>2. a.body.signal \in Signal
      BY <2>2, <3>1, BodyType DEF Operation
    <3>. QED
      BY <1>1, <2>2, <3>2 DEF StoreGrows
  <2>. QED
    BY <2>1, <2>2 DEF AnswersKnown
<1>3. ASSUME NEW k \in Key, NEW a \in Operation,
             \/ operations'[k] = a
             \/ a.body.op = "dispatch" /\ links[a.body.signal] # None /\ UNCHANGED store
      PROVE  Known(k, a)
  <2>1. CASE operations'[k] = a
    <3>1. a # None
      OBVIOUS
    <3>. QED
      BY <2>1, <3>1
  <2>2. CASE a.body.op = "dispatch" /\ links[a.body.signal] # None /\ UNCHANGED store
    BY <2>2 DEF store
  <2>. QED
    BY <1>3, <2>1, <2>2
<1>4. ASSUME NEW k \in Key, NEW a \in answers'[k]
      PROVE  Known(k, a)
  <2>1. CASE a \in answers[k]
    BY <1>2, <2>1
  <2>2. CASE a \notin answers[k]
    <3>1. ~UNCHANGED answers
      BY <1>4, <2>2
    <3>2. PICK j \in Key, o \in Operation :
            /\ answers' = [answers EXCEPT ![j] = @ \cup {o}]
            /\ \/ operations'[j] = o
               \/ o.body.op = "dispatch" /\ links[o.body.signal] # None /\ UNCHANGED store
      BY <3>1, AnswerSteps
    <3>3. j = k /\ o = a
      BY <1>4, <2>2, <3>2 DEF TypeOK
    <3>. QED
      BY <1>3, <3>2, <3>3
  <2>. QED
    BY <2>1, <2>2
<1>. QED
  BY <1>4 DEF AnswersKnown, Recorded

LEMMA StepAnswersMatch ==
  ASSUME TypeOK, TypeOK', LinksExist, PendingFits, AnswersKnown, AnswersMatchOperation, [Next]_vars
  PROVE  AnswersMatchOperation'
<1>1. StoreGrows
  BY StepGrows
<1>2. ASSUME NEW k \in Key, NEW a \in answers[k], operations'[k] # None, a.body = operations'[k].body
      PROVE  a = operations'[k]
  <2>1. CASE Recorded(k)
    BY <1>1, <1>2, <2>1 DEF StoreGrows, AnswersMatchOperation
  <2>2. CASE ~Recorded(k)
    <3>1. operations'[k] # operations[k]
      BY <1>2, <2>2 DEF Recorded
    <3>2. PICK j \in Key, c \in Case, b \in Body, v \in Nat :
            /\ operations' = [operations EXCEPT ![j] = [body |-> b, case |-> c, version |-> v]]
            /\ b.op = "dispatch" => links[b.signal] = None
      BY <3>1, EffectIsFounded DEF store
    <3>3. j = k /\ operations'[k].body = b
      BY <3>1, <3>2 DEF TypeOK
    <3>4. b.op = "dispatch" /\ links[b.signal] # None
      BY <1>2, <2>2, <3>3 DEF AnswersKnown
    <3>. QED
      BY <3>2, <3>4
  <2>. QED
    BY <2>1, <2>2
<1>3. ASSUME NEW k \in Key, NEW a \in answers'[k], operations'[k] # None, a.body = operations'[k].body
      PROVE  a = operations'[k]
  <2>1. CASE a \in answers[k]
    BY <1>2, <1>3, <2>1
  <2>2. CASE a \notin answers[k]
    <3>1. ~UNCHANGED answers
      BY <1>3, <2>2
    <3>2. PICK j \in Key, o \in Operation :
            /\ answers' = [answers EXCEPT ![j] = @ \cup {o}]
            /\ operations'[j] = o \/ (~Recorded(j) /\ UNCHANGED store)
      BY <3>1, AnswerSteps
    <3>3. j = k /\ o = a
      BY <1>3, <2>2, <3>2 DEF TypeOK
    <3>. QED
      BY <1>3, <3>2, <3>3 DEF Recorded, store
  <2>. QED
    BY <2>1, <2>2
<1>. QED
  BY <1>3 DEF AnswersMatchOperation, Recorded

-----------------------------------------------------------------------------
(* RevisionsMade. *)

\* A new revision is made by the operation recorded with it.
LEMMA NewRevisionMade ==
  ASSUME TypeOK, RecordedExist, RevisionsMade,
         NEW k \in Key, NEW c \in Case, NEW b \in Body, NEW snapshot \in Snapshot,
         ~Recorded(k), snapshot.version = cases[c].version + 1,
         cases' = [cases EXCEPT ![c] = snapshot],
         operations' = [operations EXCEPT ![k] = [body |-> b, case |-> c, version |-> snapshot.version]],
         b.op = "advance" \/ b.signal \in Report
  PROVE  RevisionsMade'
<1> DEFINE n == cases[c].version + 1
           o == [body |-> b, case |-> c, version |-> n]
<1>1. n \in Nat /\ \A d \in Case : cases[d].version \in Nat
  BY CaseVersions
<1>2. cases'[c].version = n /\ \A d \in Case : d # c => cases'[d] = cases[d]
  BY DEF TypeOK
<1>3. operations'[k] = o /\ \A j \in Key : j # k => operations'[j] = operations[j]
  BY DEF TypeOK
<1>4. o # None
  <2>1. o \in Operation
    BY <1>1 DEF Operation
  <2>. QED
    BY <2>1
<1>5. \A d \in Case, v \in Nat : Made(k, d, v)' <=> (d = c /\ v = n)
  BY <1>3, <1>4 DEF Made, Recorded
<1>6. \A j \in Key, d \in Case, v \in Nat : j # k => (Made(j, d, v)' <=> Made(j, d, v))
  BY <1>3 DEF Made, Recorded
<1>7. \A d \in Case, v \in Nat : ~Made(k, d, v)
  BY DEF Made
<1>8. \A j \in Key : ~Made(j, c, n)
  BY <1>1 DEF Made, RecordedExist
<1>9. ASSUME NEW d \in Case, NEW v \in 1..cases'[d].version
      PROVE  \E j \in Key : Made(j, d, v)' /\ \A i \in Key : Made(i, d, v)' => i = j
  <2>1. CASE d = c /\ v = n
    BY <1>1, <1>5, <1>6, <1>8, <2>1
  <2>2. CASE ~(d = c /\ v = n)
    <3>1. v \in 1..cases[d].version /\ v \in Nat
      BY <1>1, <1>2, <1>9, <2>2
    <3>2. PICK j \in Key : Made(j, d, v) /\ \A i \in Key : Made(i, d, v) => i = j
      BY <3>1 DEF RevisionsMade
    <3>. QED
      BY <1>5, <1>6, <1>7, <2>2, <3>1, <3>2
  <2>. QED
    BY <2>1, <2>2
<1>. QED
  BY <1>9 DEF RevisionsMade

LEMMA StepRevisionsMade ==
  ASSUME TypeOK, LinksExist, PendingFits, RecordedExist, RevisionsMade, [Next]_vars
  PROVE  RevisionsMade'
<1>1. CASE UNCHANGED store
  BY <1>1 DEF RevisionsMade, Made, Recorded, store
<1>2. ASSUME NEW k \in Key, NEW s \in Signal, NEW c \in Case, NEW b \in Body, RepostEffect(k, s, c, b)
      PROVE  RevisionsMade'
  <2>1. cases' = cases /\ ~Recorded(k) /\ b.op # "advance" /\ b.signal \notin Report
    BY <1>2 DEF RepostEffect, Effect, TypeOK
  <2>2. operations'[k].body = b /\ \A j \in Key : j # k => operations'[j] = operations[j]
    BY <1>2 DEF RepostEffect, Effect, Records, TypeOK
  <2>3. \A j \in Key, d \in Case, v \in Nat : Made(j, d, v)' <=> Made(j, d, v)
    BY <2>1, <2>2 DEF Made, Recorded
  <2>. QED
    BY <2>1, <2>3, CaseVersions DEF RevisionsMade
<1>3. ASSUME NEW k \in Key, NEW s \in Signal, NEW c \in Case, NEW b \in Body, NEW snapshot \in Snapshot,
             DispatchEffect(k, s, c, b, snapshot) \/ AdvanceEffect(k, s, c, b, snapshot)
      PROVE  RevisionsMade'
  BY <1>3, NewRevisionMade DEF DispatchEffect, AdvanceEffect, Effect, Records
<1>. QED
  BY <1>1, <1>2, <1>3, StoreEffects

-----------------------------------------------------------------------------
(* LastEventIsCurrent, RecordedHaveEvents and ObservedFits. *)

\* An event that is appended becomes the last, and the others stay.
LEMMA AppendKeepsEvents ==
  ASSUME TypeOK, NEW c \in Case, NEW e \in Event,
         timeline' = [timeline EXCEPT ![c] = Append(@, e)]
  PROVE  /\ timeline'[c][Len(timeline'[c])] = e
         /\ HasEvent(c, e.version, e.at)'
         /\ \A d \in Case : /\ d # c => timeline'[d] = timeline[d]
                            /\ TimesIncrease(d)' => TimesIncrease(d)
                            /\ \A v, t : HasEvent(d, v, t) => HasEvent(d, v, t)'
<1> DEFINE n == Len(timeline[c])
<1>1. timeline[c] \in Seq(Event) /\ n \in Nat
  BY DEF TypeOK
<1>2. timeline'[c] = Append(timeline[c], e) /\ \A d \in Case : d # c => timeline'[d] = timeline[d]
  BY DEF TypeOK
<1>3. /\ DOMAIN timeline[c] = 1..n /\ DOMAIN timeline'[c] = 1..(n + 1)
      /\ Len(timeline'[c]) = n + 1
      /\ timeline'[c][n + 1] = e
      /\ \A i \in 1..n : i \in 1..(n + 1) /\ timeline'[c][i] = timeline[c][i]
  BY <1>1, <1>2
<1>4. n + 1 \in 1..(n + 1)
  BY <1>1
<1>5. HasEvent(c, e.version, e.at)'
  BY <1>3, <1>4 DEF HasEvent
<1>6. TimesIncrease(c)' => TimesIncrease(c)
  BY <1>3 DEF TimesIncrease
<1>7. \A v, t : HasEvent(c, v, t) => HasEvent(c, v, t)'
  BY <1>3 DEF HasEvent
<1>8. ASSUME NEW d \in Case, d # c
      PROVE  /\ TimesIncrease(d)' => TimesIncrease(d)
             /\ \A v, t : HasEvent(d, v, t) => HasEvent(d, v, t)'
  BY <1>2, <1>8 DEF TimesIncrease, HasEvent
<1>. QED
  BY <1>2, <1>3, <1>5, <1>6, <1>7, <1>8

LEMMA StepLastEvent ==
  ASSUME TypeOK, TypeOK', LinksExist, PendingFits, LastEventIsCurrent, [Next]_vars
  PROVE  LastEventIsCurrent'
<1>1. CASE UNCHANGED store
  BY <1>1 DEF LastEventIsCurrent, store
<1>2. ASSUME NEW c \in Case, NEW e \in Event, timeline' = [timeline EXCEPT ![c] = Append(@, e)],
             e.version = cases'[c].version,
             \A d \in Case : d # c => cases'[d] = cases[d]
      PROVE  LastEventIsCurrent'
  <2>1. /\ timeline'[c][Len(timeline'[c])] = e
        /\ \A d \in Case : d # c => timeline'[d] = timeline[d]
    BY <1>2, AppendKeepsEvents
  <2>2. ASSUME NEW d \in Case, timeline'[d] # <<>>
        PROVE  timeline'[d][Len(timeline'[d])].version = cases'[d].version
    <3>1. CASE d = c
      BY <1>2, <2>1, <3>1
    <3>2. CASE d # c
      BY <1>2, <2>1, <2>2, <3>2 DEF LastEventIsCurrent
    <3>. QED
      BY <3>1, <3>2
  <2>. QED
    BY <2>2 DEF LastEventIsCurrent
<1>3. UNCHANGED store \/ \E c \in Case, e \in Event :
              /\ timeline' = [timeline EXCEPT ![c] = Append(@, e)]
              /\ e.version = cases'[c].version
              /\ \A d \in Case : d # c => cases'[d] = cases[d]
  BY EventSteps
<1>. QED
  BY <1>1, <1>2, <1>3

LEMMA StepRecordedEvents ==
  ASSUME TypeOK, TypeOK', LinksExist, PendingFits, RecordedHaveEvents, [Next]_vars
  PROVE  RecordedHaveEvents'
<1>1. CASE UNCHANGED store
  BY <1>1 DEF RecordedHaveEvents, Recorded, HasEvent, store
<1>2. ASSUME NEW k \in Key, NEW c \in Case, NEW b \in Body, NEW e \in Event,
             timeline' = [timeline EXCEPT ![c] = Append(@, e)], IsNow(e.at, b),
             operations' = [operations EXCEPT ![k] = [body |-> b, case |-> c, version |-> e.version]],
             NEW j \in Key, operations'[j] # None, operations'[j].body.at # None
      PROVE  HasEvent(operations[j].case, operations[j].version, operations[j].body.at)'
  <2>1. CASE j = k
    <3>1. operations'[j] = [body |-> b, case |-> c, version |-> e.version]
      BY <1>2, <2>1 DEF TypeOK
    <3>2. HasEvent(c, e.version, e.at)'
      BY <1>2, AppendKeepsEvents
    <3>3. e.at = b.at
      BY <1>2, <3>1 DEF IsNow
    <3>. QED
      BY <3>1, <3>2, <3>3 DEF HasEvent
  <2>2. CASE j # k
    <3>1. operations'[j] = operations[j]
      BY <1>2, <2>2 DEF TypeOK
    <3>2. operations[j].case \in Case
      BY <1>2, <3>1 DEF TypeOK, Operation
    <3>3. HasEvent(operations[j].case, operations[j].version, operations[j].body.at)
      BY <1>2, <3>1 DEF RecordedHaveEvents, Recorded
    <3>4. \E i \in DOMAIN timeline'[operations[j].case] :
             /\ timeline'[operations[j].case][i].version = operations[j].version
             /\ timeline'[operations[j].case][i].at = operations[j].body.at
      <4> DEFINE d == operations[j].case
                 v == operations[j].version
                 t == operations[j].body.at
      <4>1. \A x, y : HasEvent(d, x, y) =>
              \E i \in DOMAIN timeline'[d] : timeline'[d][i].version = x /\ timeline'[d][i].at = y
        BY <1>2, <3>2, AppendKeepsEvents DEF HasEvent
      <4>. QED
        BY <3>3, <4>1
    <3>. QED
      BY <3>1, <3>4 DEF HasEvent
  <2>. QED
    BY <2>1, <2>2
<1>. QED
  BY <1>1, <1>2, EventSteps DEF RecordedHaveEvents, Recorded

\* What a step may observe: the event it logs; the event of a recorded request
\* that came with a replay_at; the revision of one without, once more; or the
\* latest event.
OfLogged ==
  \E c \in Case, e \in Event :
    /\ timeline' = [timeline EXCEPT ![c] = Append(@, e)]
    /\ observed' = [observed EXCEPT ![c] = Observed(e.version, e.at)]
OfRecorded ==
  \E k \in Key :
    /\ operations[k] # None /\ operations[k].body.at # None /\ UNCHANGED store
    /\ observed' = [observed EXCEPT ![operations[k].case] =
                      Observed(operations[k].version, operations[k].body.at)]
OfRepeated ==
  \E c \in Case, v \in Nat, t \in Time :
    observed' = [observed EXCEPT ![c] = [version |-> v, at |-> t, repeat |-> TRUE]]
OfLatest ==
  \E c \in Case :
    /\ UNCHANGED store /\ Exists(c)
    /\ observed' = [observed EXCEPT ![c] = Observed(cases[c].version, LatestTime(c))]

LEMMA ObservedSteps ==
  ASSUME TypeOK, LinksExist, RecordedExist, [Next]_vars
  PROVE  UNCHANGED observed \/ OfLogged \/ OfRecorded \/ OfRepeated \/ OfLatest
<1>1. ASSUME NEW c \in Case, Exists(c), EnsuresObservation(c), UNCHANGED store
      PROVE  UNCHANGED observed \/ OfLatest
  BY <1>1 DEF EnsuresObservation, Observes, OfLatest
<1>2. ASSUME NEW c \in Case, NEW e \in Event, timeline' = [timeline EXCEPT ![c] = Append(@, e)],
             \/ UNCHANGED observed
             \/ observed' = [observed EXCEPT ![c] = Observed(e.version, e.at)]
      PROVE  UNCHANGED observed \/ OfLogged
  BY <1>2 DEF OfLogged
<1>3. ASSUME NEW k \in Key, Retry(k)
      PROVE  UNCHANGED observed \/ OfLatest
  <2>1. operations[k].case \in Case /\ Exists(operations[k].case)
    BY <1>3 DEF Retry, Recorded, RecordedExist, TypeOK, Operation
  <2>. QED
    BY <1>1, <1>3, <2>1 DEF Retry
<1>4. ASSUME NEW k \in Key, NEW s \in Signal, NEW t \in Replay, DispatchAssigned(k, s, t)
      PROVE  UNCHANGED observed \/ OfLatest
  <2>1. links[s] \in Case /\ Exists(links[s])
    BY <1>4 DEF DispatchAssigned, MayLink, LinksExist, TypeOK
  <2>. QED
    BY <1>1, <1>4, <2>1 DEF DispatchAssigned
<1>5. ASSUME NEW k \in Key, NEW s \in Signal, NEW t \in Replay, NEW now \in Time,
             NEW done \in BOOLEAN, AttachRepost(k, s, t, now, done)
      PROVE  UNCHANGED observed \/ OfLogged
  <2> DEFINE c == links[Original[s]]
             v == cases[c].version
             e == [kind |-> "signal_added", about |-> s, version |-> v, at |-> now]
  <2>1. c \in Case
    BY <1>5 DEF AttachRepost, TypeOK
  <2>2. e \in Event
    BY <2>1, CaseVersions DEF Event
  <2>3. timeline' = [timeline EXCEPT ![c] = Append(@, e)]
    BY <1>5 DEF AttachRepost, Logs
  <2>4. \/ UNCHANGED observed
        \/ observed' = [observed EXCEPT ![c] = Observed(e.version, e.at)]
    BY <1>5 DEF AttachRepost, Finishes, Observes
  <2> HIDE DEF c, e
  <2>. QED
    BY <1>2, <2>1, <2>2, <2>3, <2>4
<1>6. ASSUME NEW r \in Request, NEW c \in Case, NEW now \in Time, NEW done \in BOOLEAN,
             SaveDispatch(r, c, now, done)
      PROVE  UNCHANGED observed \/ OfLogged
  <2> DEFINE w == inflight[r]
             v == cases[c].version + 1
             e == [kind |-> "signal_added", about |-> w.body.signal, version |-> v, at |-> now]
  <2>1. w.body.signal \in Signal /\ v \in Nat
    BY <1>6, WaitingType, BodyType, CaseVersions DEF SaveDispatch
  <2>2. e \in Event
    BY <2>1 DEF Event
  <2>3. timeline' = [timeline EXCEPT ![c] = Append(@, e)]
    BY <1>6 DEF SaveDispatch, Logs
  <2>4. \/ UNCHANGED observed
        \/ observed' = [observed EXCEPT ![c] = Observed(e.version, e.at)]
    BY <1>6 DEF SaveDispatch, Finishes, Observes
  <2> HIDE DEF e
  <2>. QED
    BY <1>2, <2>2, <2>3, <2>4
<1>7. ASSUME NEW r \in Request, NEW now \in Time, NEW done \in BOOLEAN, SaveAdvance(r, now, done)
      PROVE  UNCHANGED observed \/ OfLogged
  <2> DEFINE w == inflight[r]
             c == w.body.case
             v == w.body.version + 1
             e == [kind |-> "verification_updated", about |-> w.body.claim, version |-> v, at |-> now]
  <2>1. c \in Case /\ w.body.claim \in Signal /\ v \in Nat
    BY <1>7, WaitingType, BodyType DEF SaveAdvance, Report
  <2>2. e \in Event
    BY <2>1 DEF Event
  <2>3. timeline' = [timeline EXCEPT ![c] = Append(@, e)]
    BY <1>7 DEF SaveAdvance, Logs
  <2>4. \/ UNCHANGED observed
        \/ observed' = [observed EXCEPT ![c] = Observed(e.version, e.at)]
    BY <1>7 DEF SaveAdvance, Finishes, Observes
  <2> HIDE DEF c, e
  <2>. QED
    BY <1>2, <2>1, <2>2, <2>3, <2>4
<1>8. ASSUME NEW r \in Request, NEW now \in Time, NEW done \in BOOLEAN,
             SavedMeanwhile(r, now, done)
      PROVE  UNCHANGED observed \/ OfRecorded \/ OfRepeated
  <2> DEFINE w == inflight[r]
             o == operations[w.key]
             live == w.body.at = None
  <2>1. w.key \in Key
    BY <1>8, WaitingType DEF SavedMeanwhile
  <2>2. o # None /\ o \in Operation /\ o.body = w.body
    BY <1>8, <2>1 DEF SavedMeanwhile, Recorded, TypeOK
  <2>3. o.case \in Case /\ o.version \in Nat
    BY <2>2 DEF Operation
  <2>4. \/ UNCHANGED observed
        \/ observed' = [observed EXCEPT ![o.case] =
                          [version |-> o.version, at |-> now, repeat |-> live]]
    BY <1>8 DEF SavedMeanwhile, RecordedVersion, Finishes, Observes
  <2>5. IsNow(now, w.body) /\ UNCHANGED store
    BY <1>8 DEF SavedMeanwhile
  <2>6. CASE live
    <3>1. live = TRUE
      BY <2>6
    <3> HIDE DEF live
    <3>2. \/ UNCHANGED observed
          \/ observed' = [observed EXCEPT ![o.case] =
                            [version |-> o.version, at |-> now, repeat |-> TRUE]]
      BY <2>4, <3>1
    <3>. QED
      BY <2>3, <3>2 DEF OfRepeated
  <2>7. CASE ~live
    <3>1. now = o.body.at /\ o.body.at # None
      BY <2>2, <2>5, <2>7 DEF IsNow
    <3>. QED
      BY <2>1, <2>2, <2>4, <2>5, <2>7, <3>1 DEF OfRecorded, Observed
  <2>. QED
    BY <2>6, <2>7
<1>9. CASE \/ \E k \in Key, s \in Signal, t \in Replay, r \in Request : StartDispatch(r, k, s, {s}, t)
           \/ \E k \in Key, r \in Request, c \in Case, claim \in Report, verdict \in Verdict, t \in Replay :
                StartAdvance(r, k, c, claim, verdict, t)
           \/ NewDay \/ Crash \/ UNCHANGED vars \/ \E r \in Request : Fail(r)
  BY <1>9 DEF StartDispatch, StartAdvance, Awaits, NewDay, Crash, vars, Fail
<1>10. CASE \/ \E k \in Key : Retry(k)
            \/ \E k \in Key, s \in Signal, t \in Replay : DispatchAssigned(k, s, t)
  BY <1>3, <1>4, <1>10
<1>11. CASE \/ \E k \in Key, s \in Signal, t \in Replay, now \in Time, done \in BOOLEAN :
                 AttachRepost(k, s, t, now, done)
            \/ \E r \in Request, c \in Case, now \in Time, done \in BOOLEAN :
                 SaveDispatch(r, c, now, done)
  BY <1>5, <1>6, <1>11
<1>12. CASE \/ \E r \in Request, now \in Time, done \in BOOLEAN : SaveAdvance(r, now, done)
            \/ \E r \in Request, now \in Time, done \in BOOLEAN : SavedMeanwhile(r, now, done)
  BY <1>7, <1>8, <1>12
<1>. QED
  BY <1>9, <1>10, <1>11, <1>12, Steps

\* Where times increase, the latest event is the last one.
LEMMA LatestIsLast ==
  ASSUME TypeOK, NEW c \in Case, HasLatest(c), TimesIncrease(c), timeline[c] # <<>>,
         NEW i \in DOMAIN timeline[c], timeline[c][i].at >= LatestTime(c)
  PROVE  i = Len(timeline[c])
<1> DEFINE n == Len(timeline[c])
<1>1. timeline[c] \in Seq(Event) /\ n \in Nat /\ DOMAIN timeline[c] = 1..n /\ n \in 1..n
  BY DEF TypeOK
<1>2. \A j \in 1..n : timeline[c][j].at \in Nat
  <2>1. \A j \in 1..n : timeline[c][j] \in Event
    BY <1>1
  <2>. QED
    BY <2>1, TimeAssumption DEF Event
<1>3. timeline[c][n].at <= LatestTime(c) /\ LatestTime(c) \in Nat
  BY <1>1, LatestIsOfEvent, LatestType, TimeAssumption
<1>4. i < n => timeline[c][i].at < timeline[c][n].at
  BY <1>1 DEF TimesIncrease
<1>. QED
  BY <1>1, <1>2, <1>3, <1>4

LEMMA LatestHasEvent ==
  ASSUME TypeOK, TimelinesHaveLatest, LastEventIsCurrent, NEW c \in Case, Exists(c), TimesIncrease(c)
  PROVE  HasEvent(c, cases[c].version, LatestTime(c))
<1>1. timeline[c] # <<>> /\ HasLatest(c)
  BY DEF TimelinesHaveLatest
<1>2. PICK i \in DOMAIN timeline[c] : LatestTime(c) = timeline[c][i].at
  BY <1>1, LatestIsOfEvent
<1>3. LatestTime(c) \in Nat
  BY <1>1, LatestType, TimeAssumption
<1>4. i = Len(timeline[c])
  BY <1>1, <1>2, <1>3, LatestIsLast
<1>. QED
  BY <1>1, <1>2, <1>4 DEF LastEventIsCurrent, HasEvent

LEMMA StepObservedFits ==
  ASSUME TypeOK, TypeOK', LinksExist, RecordedExist, PendingFits, TimelinesHaveLatest,
         LastEventIsCurrent, RecordedHaveEvents, ObservedFits, [Next]_vars
  PROVE  ObservedFits'
<1> SUFFICES ASSUME NEW c \in Case, TimesIncrease(c)', observed'[c].version > 0,
                    ~observed'[c].repeat
             PROVE  HasEvent(c, observed[c].version, observed[c].at)'
  BY DEF ObservedFits
<1>1. /\ TimesIncrease(c)
      /\ \A v, t : HasEvent(c, v, t) =>
           \E i \in DOMAIN timeline'[c] : timeline'[c][i].version = v /\ timeline'[c][i].at = t
  <2>1. CASE UNCHANGED store
    BY <2>1 DEF TimesIncrease, HasEvent, store
  <2>2. ASSUME NEW d \in Case, NEW e \in Event, timeline' = [timeline EXCEPT ![d] = Append(@, e)]
        PROVE  /\ TimesIncrease(c)
               /\ \A v, t : HasEvent(c, v, t) =>
                    \E i \in DOMAIN timeline'[c] : timeline'[c][i].version = v /\ timeline'[c][i].at = t
    <3>1. /\ TimesIncrease(c)
          /\ \A v, t : HasEvent(c, v, t) => HasEvent(c, v, t)'
      BY <2>2, AppendKeepsEvents
    <3>. QED
      BY <3>1 DEF HasEvent
  <2>3. UNCHANGED store \/ \E d \in Case, e \in Event : timeline' = [timeline EXCEPT ![d] = Append(@, e)]
    BY EventSteps
  <2>. QED
    BY <2>1, <2>2, <2>3
<1>2. CASE observed'[c] = observed[c]
  <2>1. HasEvent(c, observed[c].version, observed[c].at)
    BY <1>1, <1>2 DEF ObservedFits
  <2>2. \E i \in DOMAIN timeline'[c] :
          timeline'[c][i].version = observed[c].version /\ timeline'[c][i].at = observed[c].at
    BY <1>1, <2>1
  <2>. QED
    BY <1>2, <2>2 DEF HasEvent
<1>3. ASSUME NEW d \in Case, NEW e \in Event,
             timeline' = [timeline EXCEPT ![d] = Append(@, e)],
             observed' = [observed EXCEPT ![d] = Observed(e.version, e.at)],
             observed'[c] # observed[c]
      PROVE  HasEvent(c, observed[c].version, observed[c].at)'
  <2>1. c = d /\ observed'[c].version = e.version /\ observed'[c].at = e.at
    BY <1>3 DEF TypeOK, Observed
  <2>2. HasEvent(c, e.version, e.at)'
    BY <1>3, <2>1, AppendKeepsEvents
  <2>. QED
    BY <2>1, <2>2 DEF HasEvent
<1>4. ASSUME NEW k \in Key, operations[k] # None, operations[k].body.at # None, UNCHANGED store,
             observed' = [observed EXCEPT ![operations[k].case] =
                           Observed(operations[k].version, operations[k].body.at)],
             observed'[c] # observed[c]
      PROVE  HasEvent(c, observed[c].version, observed[c].at)'
  <2>1. /\ c = operations[k].case
        /\ observed'[c].version = operations[k].version
        /\ observed'[c].at = operations[k].body.at
    BY <1>4 DEF TypeOK, Observed
  <2>2. HasEvent(operations[k].case, operations[k].version, operations[k].body.at)
    BY <1>4 DEF RecordedHaveEvents, Recorded
  <2>. QED
    BY <1>4, <2>1, <2>2 DEF HasEvent, store
<1>5. CASE OfRepeated /\ observed'[c] # observed[c]
  BY <1>5 DEF OfRepeated, TypeOK
<1>6. ASSUME NEW d \in Case, UNCHANGED store, Exists(d), observed'[c] # observed[c],
             observed' = [observed EXCEPT ![d] = Observed(cases[d].version, LatestTime(d))]
      PROVE  HasEvent(c, observed[c].version, observed[c].at)'
  <2>1. c = d /\ observed'[c].version = cases[c].version /\ observed'[c].at = LatestTime(c)
    BY <1>6 DEF TypeOK, Observed
  <2>2. HasEvent(c, cases[c].version, LatestTime(c))
    BY <1>1, <1>6, <2>1, LatestHasEvent
  <2>. QED
    BY <1>6, <2>1, <2>2 DEF HasEvent, store
<1>7. CASE OfLogged /\ observed'[c] # observed[c]
  BY <1>3, <1>7 DEF OfLogged
<1>8. CASE OfRecorded /\ observed'[c] # observed[c]
  BY <1>4, <1>8 DEF OfRecorded
<1>9. CASE OfLatest /\ observed'[c] # observed[c]
  BY <1>6, <1>9 DEF OfLatest
<1>. QED
  BY <1>2, <1>5, <1>7, <1>8, <1>9, ObservedSteps

-----------------------------------------------------------------------------
(* TimelineTellsOfMembers, in three parts. *)

\* The arrival of a Signal is told in the timeline of its Case, once.
Tells(c, i, s) == timeline[c][i].kind = "signal_added" /\ timeline[c][i].about = s
ToldOnce(c, s) ==
  /\ links[s] = c => \E i \in DOMAIN timeline[c] :
       Tells(c, i, s) /\ \A j \in DOMAIN timeline[c] : Tells(c, j, s) => j = i
  /\ links[s] # c => \A i \in DOMAIN timeline[c] : ~Tells(c, i, s)
MembersTold == \A c \in Case, s \in Signal : ToldOnce(c, s)

\* All other events, and the arrivals of reports, are those of the revisions.
Assesses(e) == e.kind = "signal_added" => e.about \in Report
Assessed(c) == {i \in DOMAIN timeline[c] : Assesses(timeline[c][i])}
AssessmentsCounted ==
  \A c \in Case : Cardinality(Assessed(c)) = cases[c].version

VersionsOrdered ==
  \A c \in Case : \A i, j \in DOMAIN timeline[c] :
    i < j => timeline[c][i].version <= timeline[c][j].version

\* The event that a step appends tells of the Signal it links, if any, and is
\* that of a new revision, unless the Signal is a repost.
LEMMA TellingSteps ==
  ASSUME TypeOK, LinksExist, PendingFits, [Next]_vars
  PROVE  \/ UNCHANGED store
         \/ \E c \in Case, e \in Event :
              /\ timeline' = [timeline EXCEPT ![c] = Append(@, e)]
              /\ e.version = cases'[c].version
              /\ \A d \in Case : d # c => cases'[d] = cases[d]
              /\ IF e.kind = "signal_added"
                 THEN links[e.about] = None /\ links' = [links EXCEPT ![e.about] = c]
                 ELSE UNCHANGED links
              /\ IF Assesses(e)
                 THEN cases'[c].version = cases[c].version + 1
                 ELSE cases'[c].version = cases[c].version
<1>1. ASSUME NEW k \in Key, NEW s \in Signal, NEW c \in Case, NEW b \in Body, NEW snapshot \in Snapshot,
             NEW kind \in {"signal_added", "verification_updated"}, Effect(k, b, c, snapshot, kind, s)
      PROVE  \E e \in Event :
              /\ timeline' = [timeline EXCEPT ![c] = Append(@, e)]
              /\ e.version = cases'[c].version
              /\ cases'[c] = snapshot
              /\ \A d \in Case : d # c => cases'[d] = cases[d]
              /\ e.kind = kind /\ e.about = s
  <2>. PICK now \in Time : IsNow(now, b) /\ Logs(c, kind, s, snapshot.version, now)
    BY <1>1 DEF Effect
  <2> DEFINE e == [kind |-> kind, about |-> s, version |-> snapshot.version, at |-> now]
  <2>1. e \in Event
    BY DEF Event, Snapshot
  <2>2. timeline' = [timeline EXCEPT ![c] = Append(@, e)]
    BY DEF Logs
  <2>3. cases'[c] = snapshot /\ \A d \in Case : d # c => cases'[d] = cases[d]
    BY <1>1 DEF Effect, TypeOK
  <2>. QED
    BY <2>1, <2>2, <2>3
<1>2. ASSUME NEW k \in Key, NEW s \in Signal, NEW c \in Case, NEW b \in Body, RepostEffect(k, s, c, b)
      PROVE  \E e \in Event :
              /\ timeline' = [timeline EXCEPT ![c] = Append(@, e)]
              /\ e.version = cases'[c].version
              /\ \A d \in Case : d # c => cases'[d] = cases[d]
              /\ e.kind = "signal_added" /\ links[e.about] = None
              /\ links' = [links EXCEPT ![e.about] = c]
              /\ ~Assesses(e) /\ cases'[c].version = cases[c].version
  <2>1. cases[c] \in Snapshot /\ Effect(k, b, c, cases[c], "signal_added", s)
    BY <1>2 DEF RepostEffect, TypeOK
  <2>2. PICK e \in Event :
              /\ timeline' = [timeline EXCEPT ![c] = Append(@, e)]
              /\ e.version = cases'[c].version
              /\ cases'[c] = cases[c]
              /\ \A d \in Case : d # c => cases'[d] = cases[d]
              /\ e.kind = "signal_added" /\ e.about = s
    BY <1>1, <2>1
  <2>. QED
    BY <1>2, <2>2 DEF RepostEffect, Assesses
<1>3. ASSUME NEW k \in Key, NEW s \in Signal, NEW c \in Case, NEW b \in Body, NEW snapshot \in Snapshot,
             DispatchEffect(k, s, c, b, snapshot)
      PROVE  \E e \in Event :
              /\ timeline' = [timeline EXCEPT ![c] = Append(@, e)]
              /\ e.version = cases'[c].version
              /\ \A d \in Case : d # c => cases'[d] = cases[d]
              /\ e.kind = "signal_added" /\ links[e.about] = None
              /\ links' = [links EXCEPT ![e.about] = c]
              /\ Assesses(e) /\ cases'[c].version = cases[c].version + 1
  <2>1. PICK e \in Event :
              /\ timeline' = [timeline EXCEPT ![c] = Append(@, e)]
              /\ e.version = cases'[c].version
              /\ cases'[c] = snapshot
              /\ \A d \in Case : d # c => cases'[d] = cases[d]
              /\ e.kind = "signal_added" /\ e.about = s
    BY <1>1, <1>3 DEF DispatchEffect
  <2>. QED
    BY <1>3, <2>1 DEF DispatchEffect, Assesses
<1>4. ASSUME NEW k \in Key, NEW s \in Signal, NEW c \in Case, NEW b \in Body, NEW snapshot \in Snapshot,
             AdvanceEffect(k, s, c, b, snapshot)
      PROVE  \E e \in Event :
              /\ timeline' = [timeline EXCEPT ![c] = Append(@, e)]
              /\ e.version = cases'[c].version
              /\ \A d \in Case : d # c => cases'[d] = cases[d]
              /\ e.kind # "signal_added" /\ UNCHANGED links
              /\ Assesses(e) /\ cases'[c].version = cases[c].version + 1
  <2>1. PICK e \in Event :
              /\ timeline' = [timeline EXCEPT ![c] = Append(@, e)]
              /\ e.version = cases'[c].version
              /\ cases'[c] = snapshot
              /\ \A d \in Case : d # c => cases'[d] = cases[d]
              /\ e.kind = "verification_updated" /\ e.about = s
    BY <1>1, <1>4 DEF AdvanceEffect
  <2>. QED
    BY <1>4, <2>1 DEF AdvanceEffect, Assesses
<1>. QED
  BY <1>2, <1>3, <1>4, StoreEffects

LEMMA StepTimelineTells ==
  ASSUME TypeOK, LinksExist, PendingFits, LastEventIsCurrent,
         MembersTold, AssessmentsCounted, VersionsOrdered, [Next]_vars
  PROVE  MembersTold' /\ AssessmentsCounted' /\ VersionsOrdered'
<1>1. CASE UNCHANGED store
  BY <1>1 DEF MembersTold, ToldOnce, AssessmentsCounted, VersionsOrdered, Tells, Assessed, store
<1>2. ASSUME NEW c \in Case, NEW e \in Event,
             timeline' = [timeline EXCEPT ![c] = Append(@, e)],
             e.version = cases'[c].version,
             \A d \in Case : d # c => cases'[d] = cases[d],
             IF e.kind = "signal_added"
               THEN links[e.about] = None /\ links' = [links EXCEPT ![e.about] = c]
               ELSE UNCHANGED links,
             IF Assesses(e)
               THEN cases'[c].version = cases[c].version + 1
               ELSE cases'[c].version = cases[c].version
      PROVE  MembersTold' /\ AssessmentsCounted' /\ VersionsOrdered'
  <2> DEFINE n == Len(timeline[c])
  <2>1. timeline[c] \in Seq(Event) /\ n \in Nat
    BY DEF TypeOK
  <2>2. timeline'[c] = Append(timeline[c], e) /\ \A d \in Case : d # c => timeline'[d] = timeline[d]
    BY <1>2 DEF TypeOK
  <2>3. /\ DOMAIN timeline[c] = 1..n /\ DOMAIN timeline'[c] = 1..(n + 1)
        /\ timeline'[c][n + 1] = e
        /\ \A i \in 1..n : i \in 1..(n + 1) /\ timeline'[c][i] = timeline[c][i]
    BY <2>1, <2>2
  <2>4. n + 1 \in 1..(n + 1) /\ n + 1 \notin 1..n /\ \A i \in 1..(n + 1) : i \in 1..n \/ i = n + 1
    BY <2>1
  <2>5. e.about \in Signal /\ \A d \in Case : cases[d].version \in Nat
    BY CaseVersions DEF Event
  <2>6. MembersTold'
    <3>1. ASSUME NEW s \in Signal, e.kind = "signal_added", s = e.about
          PROVE  /\ links'[s] = c
                 /\ \E i \in 1..(n + 1) : Tells(c, i, s)' /\ \A j \in 1..(n + 1) : Tells(c, j, s)' => j = i
      <4>1. links[s] = None /\ links'[s] = c
        BY <1>2, <3>1 DEF TypeOK
      <4>2. \A i \in 1..n : ~Tells(c, i, s)
        BY <2>3, <4>1 DEF MembersTold, ToldOnce
      <4>3. \A i \in 1..(n + 1) : Tells(c, i, s)' <=> i = n + 1
        BY <2>3, <2>4, <3>1, <4>2 DEF Tells
      <4>. QED
        BY <2>4, <4>1, <4>3
    <3>2. ASSUME NEW s \in Signal, ~(e.kind = "signal_added" /\ s = e.about)
          PROVE  links'[s] = links[s] /\ \A i \in 1..(n + 1) : Tells(c, i, s)' <=> i \in 1..n /\ Tells(c, i, s)
      BY <1>2, <2>3, <2>4, <3>2 DEF Tells, TypeOK
    <3>3. ASSUME NEW s \in Signal PROVE ToldOnce(c, s)'
      <4>1. CASE e.kind = "signal_added" /\ s = e.about
        BY <2>3, <3>1, <4>1 DEF ToldOnce
      <4>2. CASE ~(e.kind = "signal_added" /\ s = e.about)
        <5>1. ToldOnce(c, s) /\ links'[s] = links[s]
          BY <3>2, <4>2 DEF MembersTold
        <5>2. \A i \in 1..(n + 1) : Tells(c, i, s)' <=> i \in 1..n /\ Tells(c, i, s)
          BY <3>2, <4>2
        <5>3. CASE links'[s] = c
          <6>1. PICK i \in 1..n : Tells(c, i, s) /\ \A j \in 1..n : Tells(c, j, s) => j = i
            BY <2>3, <5>1, <5>3 DEF ToldOnce
          <6>2. i \in 1..(n + 1) /\ Tells(c, i, s)' /\ \A j \in 1..(n + 1) : Tells(c, j, s)' => j = i
            BY <2>3, <5>2, <6>1
          <6>. QED
            BY <2>3, <5>3, <6>2 DEF ToldOnce
        <5>4. CASE links'[s] # c
          <6>1. \A i \in 1..n : ~Tells(c, i, s)
            BY <2>3, <5>1, <5>4 DEF ToldOnce
          <6>. QED
            BY <2>3, <5>2, <5>4, <6>1 DEF ToldOnce
        <5>. QED
          BY <5>3, <5>4
      <4>. QED
        BY <4>1, <4>2
    <3>4. ASSUME NEW d \in Case, d # c, NEW s \in Signal
          PROVE  ToldOnce(d, s)'
      <4>1. timeline'[d] = timeline[d]
        BY <2>2, <3>4
      <4>2. links'[s] = d <=> links[s] = d
        BY <1>2, <3>4 DEF TypeOK
      <4>. QED
        BY <4>1, <4>2 DEF MembersTold, ToldOnce, Tells
    <3>. QED
      BY <3>3, <3>4 DEF MembersTold
  <2>7. AssessmentsCounted'
    <3>1. IsFiniteSet(Assessed(c)) /\ Assessed(c) \subseteq 1..n
      <4>1. IsFiniteSet(1..n)
        BY <2>1, FS_Interval
      <4>2. Assessed(c) \subseteq 1..n
        BY <2>3 DEF Assessed
      <4>. QED
        BY <4>1, <4>2, FS_Subset
    <3>2. Assessed(c)' = IF Assesses(e) THEN Assessed(c) \cup {n + 1} ELSE Assessed(c)
      BY <2>3, <2>4 DEF Assessed
    <3>3. Cardinality(Assessed(c) \cup {n + 1}) = Cardinality(Assessed(c)) + 1
      BY <2>4, <3>1, FS_AddElement
    <3>4. Cardinality(Assessed(c)') = cases'[c].version
      BY <1>2, <3>2, <3>3 DEF AssessmentsCounted
    <3>5. ASSUME NEW d \in Case, d # c
          PROVE  Cardinality(Assessed(d)') = cases'[d].version
      <4>1. timeline'[d] = timeline[d] /\ cases'[d] = cases[d]
        BY <1>2, <2>2, <3>5
      <4>2. Assessed(d)' = Assessed(d)
        BY <4>1 DEF Assessed
      <4>. QED
        BY <4>1, <4>2 DEF AssessmentsCounted
    <3>. QED
      BY <3>4, <3>5 DEF AssessmentsCounted
  <2>8. VersionsOrdered'
    <3>1. \A i \in 1..n : timeline[c][i].version \in Nat
      <4>1. \A i \in 1..n : timeline[c][i] \in Event
        BY <2>1
      <4>. QED
        BY <4>1 DEF Event
    <3>2. ASSUME NEW i \in 1..n
          PROVE  timeline[c][i].version <= e.version
      <4>1. n \in 1..n /\ timeline[c] # <<>> /\ (i < n \/ i = n)
        BY <2>1, <2>3
      <4>2. timeline[c][n].version = cases[c].version
        BY <4>1 DEF LastEventIsCurrent
      <4>3. timeline[c][i].version <= timeline[c][n].version
        BY <2>3, <3>1, <4>1 DEF VersionsOrdered
      <4>4. cases[c].version <= cases'[c].version
        BY <1>2, <2>5
      <4>. QED
        BY <1>2, <2>5, <3>1, <4>2, <4>3, <4>4
    <3>3. \A i, j \in 1..(n + 1) : i < j => timeline'[c][i].version <= timeline'[c][j].version
      <4>1. \A i, j \in 1..n : i < j => timeline'[c][i].version <= timeline'[c][j].version
        BY <2>3 DEF VersionsOrdered
      <4>2. \A i \in 1..n : timeline'[c][i].version <= timeline'[c][n + 1].version
        BY <2>3, <3>2
      <4>3. \A i, j \in 1..(n + 1) : i < j => i \in 1..n
        BY <2>1
      <4>. QED
        BY <2>4, <4>1, <4>2, <4>3
    <3>. QED
      BY <2>2, <2>3, <3>3 DEF VersionsOrdered
  <2>. QED
    BY <2>6, <2>7, <2>8
<1>. QED
  BY <1>1, <1>2, TellingSteps

-----------------------------------------------------------------------------
(* The inductive invariant.  TypeOK needs the latest events, which need the  *)
(* linked and the recorded Cases to exist; the claims of the last revision   *)
(* need what the pending requests have read; and the answers to a key need   *)
(* that a key without a record has only been answered where a Case was found.*)

IInv ==
  /\ TypeOK /\ LinksExist /\ RecordedExist /\ TimelinesHaveLatest /\ PendingFits
  /\ RevisionsFit /\ ClaimsOfMembers /\ AnswersKnown /\ AnswersMatchOperation
  /\ RevisionsMade /\ LastEventIsCurrent /\ RecordedHaveEvents /\ ObservedFits
  /\ MembersTold /\ AssessmentsCounted /\ VersionsOrdered

LEMMA InitInvariant == Init => IInv
<1>. SUFFICES ASSUME Init PROVE IInv
  OBVIOUS
<1>1. TypeOK
  BY DEF Init, TypeOK, NoCase, Snapshot, NoObservation, Observation
<1>2. \A c \in Case : cases[c].version = 0 /\ cases[c].claims = {} /\ ~Exists(c)
  BY DEF Init, NoCase, Exists
<1>3. LinksExist /\ RecordedExist /\ PendingFits /\ AnswersKnown /\ AnswersMatchOperation
  BY DEF Init, LinksExist, RecordedExist, PendingFits, AnswersKnown, AnswersMatchOperation,
         Recorded
<1>4. TimelinesHaveLatest /\ RevisionsFit
  BY <1>2 DEF Init, TimelinesHaveLatest, RevisionsFit
<1>5. ClaimsOfMembers
  <2>1. \A s \in Report : links[s] = None
    BY DEF Init, Report
  <2>. QED
    BY <1>2, <2>1 DEF ClaimsOfMembers
<1>6. RevisionsMade
  BY <1>2 DEF RevisionsMade
<1>7. LastEventIsCurrent /\ RecordedHaveEvents /\ ObservedFits
  BY DEF Init, LastEventIsCurrent, RecordedHaveEvents, ObservedFits, Recorded, NoObservation
<1>8. MembersTold /\ VersionsOrdered
  BY DEF Init, MembersTold, ToldOnce, VersionsOrdered
<1>9. AssessmentsCounted
  <2>1. \A c \in Case : Assessed(c) = {}
    BY DEF Init, Assessed
  <2>. QED
    BY <1>2, <2>1, FS_EmptySet DEF AssessmentsCounted
<1>. QED
  BY <1>1, <1>3, <1>4, <1>5, <1>6, <1>7, <1>8, <1>9 DEF IInv

LEMMA StepInvariant == IInv /\ [Next]_vars => IInv'
<1>. SUFFICES ASSUME IInv, [Next]_vars PROVE IInv'
  OBVIOUS
<1>1. TypeOK'
  BY StepType DEF IInv
<1>2. LinksExist' /\ RecordedExist' /\ PendingFits'
  BY <1>1, StepLinksExist, StepRecordedExist, StepPending DEF IInv
<1>3. TimelinesHaveLatest' /\ RevisionsFit' /\ ClaimsOfMembers'
  BY <1>1, StepTimelines, StepRevisionsFit, StepClaims DEF IInv
<1>4. AnswersKnown' /\ AnswersMatchOperation' /\ RevisionsMade'
  BY <1>1, StepAnswersKnown, StepAnswersMatch, StepRevisionsMade DEF IInv
<1>5. LastEventIsCurrent' /\ RecordedHaveEvents'
  BY <1>1, StepLastEvent, StepRecordedEvents DEF IInv
<1>6. ObservedFits'
  BY <1>1, StepObservedFits DEF IInv
<1>7. MembersTold' /\ AssessmentsCounted' /\ VersionsOrdered'
  BY StepTimelineTells DEF IInv
<1>. QED
  BY <1>1, <1>2, <1>3, <1>4, <1>5, <1>6, <1>7 DEF IInv

THEOREM Invariance == Spec => []IInv
  BY InitInvariant, StepInvariant, PTL DEF Spec

-----------------------------------------------------------------------------
(* The theorems. *)

\* The tables, the pending requests and the answers are well-formed, whatever
\* requests interleave and whatever fails.
THEOREM TypeCorrectness == Spec => []TypeOK
  BY Invariance, PTL DEF IInv

\* The assessment that stands covers the Claims of exactly the linked reports.
THEOREM NoMemberIsDropped == Spec => []ClaimsOfMembers
  BY Invariance, PTL DEF IInv

\* Answers to a recorded request all name the revision it was recorded with.
THEOREM AnswersAgree == Spec => []AnswersMatchOperation
  BY Invariance, PTL DEF IInv

\* Every revision is that of exactly one recorded request.
THEOREM RevisionsAreRecordedOnce == Spec => []OneOperationPerRevision
<1>1. ASSUME IInv, NEW c \in Case, NEW v \in 1..cases[c].version
      PROVE  Cardinality({k \in Key :
               /\ Recorded(k)
               /\ operations[k].case = c /\ operations[k].version = v
               /\ \/ operations[k].body.op = "advance"
                  \/ operations[k].body.signal \in Report}) = 1
  <2>1. PICK k \in Key : Made(k, c, v) /\ \A j \in Key : Made(j, c, v) => j = k
    BY <1>1 DEF IInv, RevisionsMade
  <2>2. {j \in Key :
               /\ Recorded(j)
               /\ operations[j].case = c /\ operations[j].version = v
               /\ \/ operations[j].body.op = "advance"
                  \/ operations[j].body.signal \in Report} = {k}
    BY <2>1 DEF Made
  <2>. QED
    BY <2>2, FS_Singleton
<1>2. IInv => OneOperationPerRevision
  BY <1>1 DEF OneOperationPerRevision, IInv, RevisionsFit
<1>. QED
  BY <1>2, Invariance, PTL

\* As long as the events of a Case carry increasing times, an observation that
\* _ensure_observation takes for current is of the current version, unless it
\* is that of a request without replay_at whose revision another request with
\* its key had saved.
THEOREM OutdatedObservations == Spec => []OutdatedIsNoticed
<1>1. ASSUME IInv, NEW c \in Case, Exists(c), TimesIncrease(c), ~IsOutdated(c),
             ~observed[c].repeat
      PROVE  observed[c].version = cases[c].version
  <2>1. observed[c] \in Observation
    BY <1>1 DEF IInv, TypeOK
  <2>2. observed[c].version > 0
    BY <1>1, <2>1 DEF IsOutdated, Observation
  <2>3. timeline[c] # <<>> /\ HasLatest(c)
    BY <1>1 DEF IInv, TimelinesHaveLatest
  <2>4. PICK i \in DOMAIN timeline[c] :
          timeline[c][i].version = observed[c].version /\ timeline[c][i].at = observed[c].at
    BY <1>1, <2>2 DEF IInv, ObservedFits, HasEvent
  <2>5. observed[c].at >= LatestTime(c)
    <3>1. LatestTime(c) \in Nat
      BY <1>1, <2>3, LatestType, TimeAssumption DEF IInv
    <3>2. observed[c].at \in Nat
      <4>1. observed[c].at \in Time \/ observed[c].at = 0
        BY <2>1 DEF Observation
      <4>2. \A t \in Time : t \in Nat
        BY TimeAssumption
      <4>3. CASE observed[c].at = 0
        BY <4>3
      <4>4. CASE observed[c].at \in Time
        BY <4>2, <4>4
      <4>. QED
        BY <4>1, <4>3, <4>4
    <3>3. ~(observed[c].at < LatestTime(c))
      BY <1>1 DEF IsOutdated
    <3>. QED
      BY <3>1, <3>2, <3>3
  <2>6. i = Len(timeline[c])
    BY <1>1, <2>3, <2>4, <2>5, LatestIsLast DEF IInv
  <2>. QED
    BY <1>1, <2>3, <2>4, <2>6 DEF IInv, LastEventIsCurrent
<1>2. IInv => OutdatedIsNoticed
  BY <1>1 DEF OutdatedIsNoticed
<1>. QED
  BY <1>2, Invariance, PTL

\* The timeline of a Case tells of each Signal that joined it, once, and of
\* each revision, in order.
THEOREM TimelinesTell == Spec => []TimelineTellsOfMembers
<1>1. ASSUME IInv, NEW c \in Case, NEW s \in Signal
      PROVE  Cardinality({i \in DOMAIN timeline[c] :
                timeline[c][i].kind = "signal_added" /\ timeline[c][i].about = s})
               = IF links[s] = c THEN 1 ELSE 0
  <2> DEFINE added == {i \in DOMAIN timeline[c] :
                timeline[c][i].kind = "signal_added" /\ timeline[c][i].about = s}
  <2>1. CASE links[s] = c
    <3>1. PICK i \in DOMAIN timeline[c] :
            Tells(c, i, s) /\ \A j \in DOMAIN timeline[c] : Tells(c, j, s) => j = i
      BY <1>1, <2>1 DEF IInv, MembersTold, ToldOnce
    <3>2. added = {i}
      BY <3>1 DEF Tells
    <3>3. Cardinality(added) = 1
      BY <3>2, FS_Singleton
    <3>. QED
      BY <2>1, <3>3
  <2>2. CASE links[s] # c
    <3>1. added = {}
      BY <1>1, <2>2 DEF IInv, MembersTold, ToldOnce, Tells
    <3>2. Cardinality(added) = 0
      BY <3>1, FS_EmptySet
    <3>. QED
      BY <2>2, <3>2
  <2>. QED
    BY <2>1, <2>2
<1>2. IInv => TimelineTellsOfMembers
  BY <1>1 DEF TimelineTellsOfMembers, IInv, AssessmentsCounted, Assessed, Assesses, VersionsOrdered
<1>. QED
  BY <1>2, Invariance, PTL

-----------------------------------------------------------------------------
(* The service implements the log of Cases. *)

logOf == [c \in Case |-> [i \in DOMAIN revisions[c] |-> revisions[c][i].claims]]

\* The claims of a sequence of revisions, when one is appended.
LEMMA ClaimsOfAppended ==
  ASSUME NEW seq \in Seq(Snapshot), NEW snapshot \in Snapshot
  PROVE  [i \in DOMAIN Append(seq, snapshot) |-> Append(seq, snapshot)[i].claims]
           = Append([i \in DOMAIN seq |-> seq[i].claims], snapshot.claims)
<1> DEFINE old == [i \in DOMAIN seq |-> seq[i].claims]
           new == [i \in DOMAIN Append(seq, snapshot) |-> Append(seq, snapshot)[i].claims]
           n == Len(seq)
<1>1. n \in Nat /\ DOMAIN seq = 1..n /\ DOMAIN Append(seq, snapshot) = 1..(n + 1)
  OBVIOUS
<1>2. \A i \in 1..n : seq[i] \in Snapshot /\ Append(seq, snapshot)[i] = seq[i]
  OBVIOUS
<1>3. Append(seq, snapshot)[n + 1] = snapshot
  OBVIOUS
<1>4. old \in Seq(SUBSET Report) /\ Len(old) = n
  BY <1>1, <1>2 DEF Snapshot
<1>5. snapshot.claims \in SUBSET Report
  BY DEF Snapshot
<1>6. Append(old, snapshot.claims) \in Seq(SUBSET Report) /\ Len(Append(old, snapshot.claims)) = n + 1
  BY <1>4, <1>5
<1>7. new \in Seq(SUBSET Report) /\ Len(new) = n + 1
  BY <1>1, <1>2, <1>3 DEF Snapshot
<1>8. \A i \in 1..(n + 1) : new[i] = Append(old, snapshot.claims)[i]
  BY <1>1, <1>2, <1>3, <1>4, <1>5
<1>. QED
  BY <1>6, <1>7, <1>8

\* What the log says of a Case is what the Case is.
LEMMA LogCovers ==
  ASSUME IInv, NEW c \in Case
  PROVE  /\ Log!Covered(c) = cases[c].claims
         /\ logOf[c] = <<>> <=> ~Exists(c)
<1> DEFINE n == cases[c].version
           old == [i \in DOMAIN revisions[c] |-> revisions[c][i].claims]
<1>1. n \in Nat /\ revisions[c] \in Seq(Snapshot) /\ Len(revisions[c]) = n
  BY CaseVersions DEF IInv, TypeOK, RevisionsFit
<1>2. \A i \in 1..n : revisions[c][i].claims \in SUBSET Report
  <2>1. \A i \in 1..n : revisions[c][i] \in Snapshot
    BY <1>1
  <2>. QED
    BY <2>1 DEF Snapshot
<1>3. old \in Seq(SUBSET Report) /\ Len(old) = n
  BY <1>1, <1>2
<1>4. CASE Exists(c)
  <2>1. n > 0 /\ revisions[c][n].claims = cases[c].claims
    BY <1>4 DEF IInv, RevisionsFit, Exists
  <2>2. old # <<>> /\ old[n] = cases[c].claims
    BY <1>1, <1>3, <2>1
  <2>. QED
    BY <1>3, <1>4, <2>2 DEF Log!Covered, logOf
<1>5. CASE ~Exists(c)
  <2>1. n = 0
    BY <1>1, <1>5 DEF Exists
  <2>2. old = <<>>
    BY <1>3, <2>1
  <2>3. cases[c].claims = {}
    <3>1. \A s \in Report : links[s] # c
      BY <1>5 DEF IInv, LinksExist, Report
    <3>. QED
      BY <3>1 DEF IInv, ClaimsOfMembers
  <2>. QED
    BY <1>5, <2>2, <2>3 DEF Log!Covered, logOf
<1>. QED
  BY <1>4, <1>5

\* A saved revision is a revision of the log.
LEMMA SavedIsRevised ==
  ASSUME IInv, NEW c \in Case, NEW snapshot \in Snapshot,
         revisions' = [revisions EXCEPT ![c] = Append(@, snapshot)]
  PROVE  Log!Revised(c, snapshot.claims)
<1>1. revisions \in [Case -> Seq(Snapshot)]
  BY DEF IInv, TypeOK
<1>2. revisions'[c] = Append(revisions[c], snapshot) /\ \A d \in Case : d # c => revisions'[d] = revisions[d]
  BY <1>1
<1>3. [i \in DOMAIN revisions'[c] |-> revisions'[c][i].claims]
        = Append([i \in DOMAIN revisions[c] |-> revisions[c][i].claims], snapshot.claims)
  BY <1>1, <1>2, ClaimsOfAppended
<1>4. logOf'[c] = Append(logOf[c], snapshot.claims)
  BY <1>3 DEF logOf
<1>5. \A d \in Case : d # c => logOf'[d] = logOf[d]
  BY <1>2 DEF logOf
<1>6. logOf' = [d \in Case |-> logOf'[d]] /\ logOf = [d \in Case |-> logOf[d]]
  BY DEF logOf
<1>7. logOf' = [logOf EXCEPT ![c] = Append(@, snapshot.claims)]
  BY <1>4, <1>5, <1>6
<1>. QED
  BY <1>7 DEF Log!Revised, logOf

LEMMA LogInit == Init => Log!Init
<1>. SUFFICES ASSUME Init PROVE Log!Init
  OBVIOUS
<1>1. \A c \in Case : [i \in DOMAIN revisions[c] |-> revisions[c][i].claims] = <<>>
  BY DEF Init
<1>. QED
  BY <1>1 DEF Init, Log!Init

LEMMA LogStep == IInv /\ [Next]_vars => [Log!Next]_(Log!vars)
<1>. SUFFICES ASSUME IInv, [Next]_vars
     PROVE  Log!Next \/ UNCHANGED <<logOf, links>>
  BY DEF Log!vars, logOf
<1>1. CASE UNCHANGED store
  BY <1>1 DEF store, logOf
<1>2. ASSUME NEW k \in Key, NEW s \in Signal, NEW c \in Case, NEW b \in Body, RepostEffect(k, s, c, b)
      PROVE  Log!Attach(s, c)
  <2>1. Original[s] # None /\ UNCHANGED logOf
    BY <1>2 DEF RepostEffect, Report, logOf
  <2>. QED
    BY <1>2, <2>1 DEF RepostEffect, Log!Attach, Log!Joins, logOf
<1>3. ASSUME NEW k \in Key, NEW s \in Signal, NEW c \in Case, NEW b \in Body, NEW snapshot \in Snapshot,
             DispatchEffect(k, s, c, b, snapshot)
      PROVE  Log!Join(s, c)
  <2>1. Original[s] = None /\ Log!Joins(s, c)
    BY <1>3 DEF DispatchEffect, Report, Log!Joins
  <2>2. Log!Revised(c, Log!Covered(c) \cup {s})
    <3>1. snapshot.claims = Log!Covered(c) \cup {s}
      BY <1>3, LogCovers DEF DispatchEffect
    <3>2. Log!Revised(c, snapshot.claims)
      BY <1>3, SavedIsRevised DEF DispatchEffect
    <3>. QED
      BY <3>1, <3>2 DEF Log!Revised
  <2>. QED
    BY <2>1, <2>2 DEF Log!Join
<1>4. ASSUME NEW k \in Key, NEW s \in Signal, NEW c \in Case, NEW b \in Body, NEW snapshot \in Snapshot,
             AdvanceEffect(k, s, c, b, snapshot)
      PROVE  Log!Reassess(c)
  <2>1. logOf[c] # <<>> /\ UNCHANGED links
    BY <1>4, LogCovers DEF AdvanceEffect
  <2>2. Log!Revised(c, Log!Covered(c))
    <3>1. snapshot.claims = Log!Covered(c)
      BY <1>4, LogCovers DEF AdvanceEffect
    <3>2. Log!Revised(c, snapshot.claims)
      BY <1>4, SavedIsRevised DEF AdvanceEffect
    <3>. QED
      BY <3>1, <3>2 DEF Log!Revised
  <2>. QED
    BY <2>1, <2>2 DEF Log!Reassess, logOf
<1>. QED
  BY <1>1, <1>2, <1>3, <1>4, StoreEffects DEF IInv, Log!Next

\* Whatever requests interleave and whatever fails, Cases are append-only, and
\* a Signal joins one Case and stays there.
THEOREM Implementation == Spec => ImplementsCaseLog
  BY LogInit, LogStep, Invariance, PTL DEF Spec, ImplementsCaseLog, Log!Spec
=============================================================================
