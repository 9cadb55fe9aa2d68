----------------------------- MODULE CaseService -----------------------------
(***************************************************************************)
(* POST /api/v1/cases/dispatch, POST /api/v1/cases/{case_id}/advance and   *)
(* the dispatcher that ingestion calls: CaseService (app/case_agent.py)    *)
(* over CaseStore (app/case_store.py).                                     *)
(*                                                                         *)
(* The handlers run on one event loop and await nothing but the model's    *)
(* decision, so an action is all that runs up to that await, or all that   *)
(* runs after it.  Requests interleave while decisions are pending.  A     *)
(* revision and the agent's observation of it are two transactions: the    *)
(* second may fail, or a restart may come between them.  Requests that are *)
(* refused before anything is written (404, 409, 422, 429) change nothing  *)
(* and are no actions.                                                     *)
(***************************************************************************)
EXTENDS Naturals, Sequences, FiniteSetsExt

CONSTANTS Request,     \* the requests that may wait for a decision at the same time
          Key,         \* the Idempotency-Key values
          Signal,      \* the Signals A has completed
          Case,        \* the identities uuid4 may draw for Cases
          Original,    \* the original of each pure repost, None for the others
          Time,        \* the times of events and observations
          Replay,      \* the values of replay_at, None where a client leaves it out
          Verdict,     \* what A can hold of a Claim: its verdict and Evidence
          DailyLimit,  \* model calls allowed in a day
          Faults,      \* which faults may happen: "crash", "status_error"
          None

\* A report has one Claim, named like the report; a pure repost has none, and
\* its original is a report (A's reserve_source).
Report == {s \in Signal : Original[s] = None}

ASSUME OriginalAssumption ==
  /\ Original \in [Signal -> Signal \cup {None}]
  /\ \A s \in Signal : Original[s] # None => Original[s] \in Report

ASSUME TimeAssumption == Time \subseteq Nat /\ Replay \subseteq Time \cup {None}

ASSUME LimitAssumption == DailyLimit \in Nat

VARIABLES cases,       \* the table cases
          revisions,   \* case_revisions, in the order of the versions
          timeline,    \* case_timeline in the order of rowid; the items one
                       \* transaction writes are one entry
          links,       \* case_signal_links
          operations,  \* case_operations
          observed,    \* case_agent_status
          calls,       \* rows of case_model_calls of the present day
          inflight,    \* the requests that await a decision
          answers      \* history: the successful answers given to each key

store == <<cases, revisions, timeline, links, operations>>
vars == <<cases, revisions, timeline, links, operations, observed, calls, inflight, answers>>

\* The request hash: equal bodies, equal hashes.
DispatchBody == [op : {"dispatch"}, signal : Signal, at : Replay]
AdvanceBody == [op : {"advance"}, case : Case, version : Nat, claim : Report,
                verdict : Verdict, at : Replay]
Body == DispatchBody \cup AdvanceBody

\* basis is history: the version of the Case that the model was shown.
Snapshot == [version : Nat, claims : SUBSET Report, basis : Nat]
NoCase == [version |-> 0, claims |-> {}, basis |-> 0]

Operation == [body : Body, case : Case, version : Nat]

ASSUME NoneAssumption == None \notin Signal \cup Case \cup Time /\ None \notin Operation

Event == [kind : {"signal_added", "verification_updated"}, about : Signal,
          version : Nat, at : Time]

\* An observation of the agent.  repeat is history: it is that of a request
\* without replay_at whose revision another request with its key had saved.
Observation == [version : Nat, at : Time \cup {0}, repeat : BOOLEAN]
NoObservation == [version |-> 0, at |-> 0, repeat |-> FALSE]

\* seen is the version of each Case the decision is made from, 0 for a Case
\* the model was not shown; claims are those of the Signal, or of the Case to
\* advance, as they were read before the await.
Waiting == [key : Key, body : Body, seen : [Case -> Nat], claims : SUBSET Report]

TypeOK ==
  /\ cases \in [Case -> Snapshot]
  /\ revisions \in [Case -> Seq(Snapshot)]
  /\ timeline \in [Case -> Seq(Event)]
  /\ links \in [Signal -> Case \cup {None}]
  /\ operations \in [Key -> Operation \cup {None}]
  /\ observed \in [Case -> Observation]
  /\ calls \in 0..DailyLimit
  /\ inflight \in [Request -> Waiting \cup {None}]
  /\ answers \in [Key -> SUBSET Operation]

Init ==
  /\ cases = [c \in Case |-> NoCase]
  /\ revisions = [c \in Case |-> <<>>]
  /\ timeline = [c \in Case |-> <<>>]
  /\ links = [s \in Signal |-> None]
  /\ operations = [k \in Key |-> None]
  /\ observed = [c \in Case |-> NoObservation]
  /\ calls = 0
  /\ inflight = [r \in Request |-> None]
  /\ answers = [k \in Key |-> {}]

-----------------------------------------------------------------------------
\* The store.

Exists(c) == cases[c].version > 0
Recorded(k) == operations[k] # None

\* The checks of save_revision and record_repost: a key that is not recorded
\* yet, a Signal without a Case, a Case still at the version that was read.
\* dispatch and advance make them before they start, too.
\* Mutants: each check dropped or weakened.
NeverRecorded(k) == TRUE
NotRecorded(k) == ~Recorded(k)

MayLinkAgain(s) == s \in Signal
MayLink(s) == links[s] = None

VersionReached(c, version) == cases[c].version >= version
VersionIs(c, version) == cases[c].version = version

\* The Claims of a revision that adds a Signal.
\* Mutant: the Claims of the previous revision are not carried over.
CoversOnly(c, claims) == claims
Covers(c, claims) == cases[c].claims \cup claims

DispatchOf(s, t) == [op |-> "dispatch", signal |-> s, at |-> t]

\* now, the time a request saves at: its replay_at, or else the server's
\* clock after the await, of which nothing is assumed.
IsNow(now, b) == b.at \in {now, None}

\* new_timeline_item and the INSERT of the items of one transaction.
Logs(c, kind, about, version, t) ==
  timeline' = [timeline EXCEPT ![c] =
    Append(@, [kind |-> kind, about |-> about, version |-> version, at |-> t])]

Records(k, b, c, version) ==
  operations' = [operations EXCEPT ![k] = [body |-> b, case |-> c, version |-> version]]

\* save_revision once its checks have passed.
Revises(k, b, c, snapshot) ==
  /\ cases' = [cases EXCEPT ![c] = snapshot]
  /\ revisions' = [revisions EXCEPT ![c] = Append(@, snapshot)]
  /\ Records(k, b, c, snapshot.version)

\* What a request that saves something observes, and what is observed later on.
Observed(version, t) == [version |-> version, at |-> t, repeat |-> FALSE]

Observes(c, observation) == observed' = [observed EXCEPT ![c] = observation]

AnswersWith(k, b, c, version) ==
  answers' = [answers EXCEPT ![k] = @ \cup {[body |-> b, case |-> c, version |-> version]}]

\* _observe_waiting in a transaction of its own, and the answer; or, unless
\* done, an error in between, and no answer.
Finishes(done, k, b, c, observation) ==
  \/ done /\ Observes(c, observation) /\ AnswersWith(k, b, c, observation.version)
  \/ ~done /\ "status_error" \in Faults /\ UNCHANGED <<observed, answers>>

\* _ensure_observation.
\* Mutant: the first event instead of the last one.
EarliestTime(c) == Min({timeline[c][i].at : i \in DOMAIN timeline[c]})
LatestTime(c) == Max({timeline[c][i].at : i \in DOMAIN timeline[c]})

IsOutdated(c) == observed[c].version = 0 \/ observed[c].at < LatestTime(c)

EnsuresObservation(c) ==
  IF IsOutdated(c)
  THEN Observes(c, Observed(cases[c].version, LatestTime(c)))
  ELSE UNCHANGED observed

-----------------------------------------------------------------------------
\* Requests that are answered without a decision.

\* The revision operation_result returns.
\* Mutant: the current one instead of the one recorded.
CurrentVersion(o) == cases[o.case].version
RecordedVersion(o) == o.version

\* operation_result: the key has succeeded before.
Retry(k) ==
  /\ Recorded(k)
  /\ LET o == operations[k] IN
       /\ EnsuresObservation(o.case)
       /\ AnswersWith(k, o.body, o.case, RecordedVersion(o))
  /\ UNCHANGED <<store, calls, inflight>>

\* dispatch of a Signal that has a Case already.
DispatchAssigned(k, s, t) ==
  /\ NotRecorded(k)
  /\ ~MayLink(s)
  /\ EnsuresObservation(links[s])
  /\ AnswersWith(k, DispatchOf(s, t), links[s], cases[links[s]].version)
  /\ UNCHANGED <<store, calls, inflight>>

\* dispatch of a pure repost: record_repost.
AttachRepost(k, s, t, now, done) ==
  /\ NotRecorded(k)
  /\ MayLink(s)
  /\ Original[s] # None
  /\ links[Original[s]] # None
  /\ LET c == links[Original[s]]
         v == cases[c].version
         b == DispatchOf(s, t)
     IN /\ IsNow(now, b)
        /\ links' = [links EXCEPT ![s] = c]
        /\ Logs(c, "signal_added", s, v, now)
        /\ Records(k, b, c, v)
        /\ Finishes(done, k, b, c, Observed(v, now))
  /\ UNCHANGED <<cases, revisions, calls, inflight>>

-----------------------------------------------------------------------------
\* Requests that await the model.

\* Mutant: the daily limit is not checked.
AwaitsUnlimited(r, k, b, seen, claims) ==
  /\ inflight[r] = None
  /\ NotRecorded(k)
  /\ calls' = calls + 1
  /\ inflight' = [inflight EXCEPT ![r] = [key |-> k, body |-> b, seen |-> seen,
                                           claims |-> claims]]
  /\ UNCHANGED <<store, observed, answers>>

\* reserve_model_call, and the call.
Awaits(r, k, b, seen, claims) ==
  /\ inflight[r] = None
  /\ NotRecorded(k)
  /\ calls < DailyLimit
  /\ calls' = calls + 1
  /\ inflight' = [inflight EXCEPT ![r] = [key |-> k, body |-> b, seen |-> seen,
                                           claims |-> claims]]
  /\ UNCHANGED <<store, observed, answers>>

\* dispatch reads the Signal and its Claims, and shows the model every Case.
StartDispatch(r, k, s, claims, t) ==
  /\ MayLink(s)
  /\ s \in Report
  /\ Awaits(r, k, DispatchOf(s, t), [c \in Case |-> cases[c].version], claims)

\* advance shows it the one Case, at the version the client expects; the
\* update is about a Claim of that Case, and is what A holds of it.
StartAdvance(r, k, c, claim, verdict, t) ==
  /\ Exists(c)
  /\ claim \in cases[c].claims
  /\ Awaits(r, k,
            [op |-> "advance", case |-> c, version |-> cases[c].version,
             claim |-> claim, verdict |-> verdict, at |-> t],
            [d \in Case |-> IF d = c THEN cases[c].version ELSE 0],
            cases[c].claims)

Ends(r) == inflight' = [inflight EXCEPT ![r] = None]

\* The decision on a Signal arrives and names a Case that was shown, or none:
\* a Case is drawn.  The Case is read again, and save_revision accepts.
SaveDispatch(r, c, now, done) ==
  /\ inflight[r] # None
  /\ LET w == inflight[r]
         s == w.body.signal
         v == cases[c].version + 1
     IN /\ w.body.op = "dispatch"
        /\ IsNow(now, w.body)
        /\ NotRecorded(w.key)
        /\ MayLink(s)
        /\ w.seen[c] > 0 \/ ~Exists(c)
        /\ Revises(w.key, w.body, c,
                   [version |-> v, claims |-> Covers(c, w.claims), basis |-> w.seen[c]])
        /\ Logs(c, "signal_added", s, v, now)
        /\ links' = [links EXCEPT ![s] = c]
        /\ Finishes(done, w.key, w.body, c, Observed(v, now))
  /\ Ends(r)
  /\ UNCHANGED calls

\* The decision on verification updates arrives, and no other revision has
\* been saved since the Case was read.
SaveAdvance(r, now, done) ==
  /\ inflight[r] # None
  /\ LET w == inflight[r]
         c == w.body.case
         v == w.body.version + 1
     IN /\ w.body.op = "advance"
        /\ IsNow(now, w.body)
        /\ NotRecorded(w.key)
        /\ VersionIs(c, w.body.version)
        /\ Revises(w.key, w.body, c,
                   [version |-> v, claims |-> w.claims, basis |-> w.body.version])
        /\ Logs(c, "verification_updated", w.body.claim, v, now)
        /\ Finishes(done, w.key, w.body, c, Observed(v, now))
  /\ Ends(r)
  /\ UNCHANGED <<links, calls>>

\* Another request with the same key and body has been answered meanwhile:
\* save_revision returns the revision that one saved, which is observed again,
\* at the time of this request: without a replay_at, a later one.
SavedMeanwhile(r, now, done) ==
  /\ inflight[r] # None
  /\ LET w == inflight[r]
         o == operations[w.key]
     IN /\ Recorded(w.key)
        /\ o.body = w.body
        /\ IsNow(now, w.body)
        /\ Finishes(done, w.key, w.body, o.case,
                    [version |-> RecordedVersion(o), at |-> now, repeat |-> w.body.at = None])
  /\ Ends(r)
  /\ UNCHANGED <<store, calls>>

\* The model fails, times out or decides something invalid, or save_revision
\* raises VersionConflict or SignalConflict.
Fail(r) ==
  /\ inflight[r] # None
  /\ Ends(r)
  /\ UNCHANGED <<store, observed, calls, answers>>

\* reserve_model_call counts from midnight.
NewDay ==
  /\ calls > 0
  /\ calls' = 0
  /\ UNCHANGED <<store, observed, inflight, answers>>

\* The process restarts: the pending decisions are lost.
Crash ==
  /\ "crash" \in Faults
  /\ inflight' = [r \in Request |-> None]
  /\ UNCHANGED <<store, observed, calls, answers>>

-----------------------------------------------------------------------------
Next ==
  \/ \E k \in Key :
       \/ Retry(k)
       \/ \E s \in Signal, t \in Replay :
            \/ DispatchAssigned(k, s, t)
            \/ \E now \in Time, done \in BOOLEAN : AttachRepost(k, s, t, now, done)
            \/ \E r \in Request : StartDispatch(r, k, s, {s}, t)
       \/ \E r \in Request, c \in Case, claim \in Report, verdict \in Verdict, t \in Replay :
            StartAdvance(r, k, c, claim, verdict, t)
  \/ \E r \in Request :
       \/ \E now \in Time, done \in BOOLEAN :
            \/ \E c \in Case : SaveDispatch(r, c, now, done)
            \/ SaveAdvance(r, now, done)
            \/ SavedMeanwhile(r, now, done)
       \/ Fail(r)
  \/ NewDay
  \/ Crash

Spec == Init /\ [][Next]_vars

-----------------------------------------------------------------------------
(* Safety. *)

\* Every revision of a Case was asked for by exactly one request that is
\* recorded under its key: no key is worked on twice, though two requests may
\* await decisions for it, and no revision is left unrecorded.
OneOperationPerRevision ==
  \A c \in Case :
    /\ Len(revisions[c]) = cases[c].version
    /\ \A v \in 1..cases[c].version :
         Cardinality({k \in Key :
           /\ Recorded(k)
           /\ operations[k].case = c /\ operations[k].version = v
           /\ \/ operations[k].body.op = "advance"
              \/ operations[k].body.signal \in Report}) = 1

\* The timeline of a Case tells of each Signal that joined it, once; and every
\* event but the arrival of a repost is that of one revision.
TimelineTellsOfMembers ==
  \A c \in Case :
    LET added(s) == {i \in DOMAIN timeline[c] :
                       timeline[c][i].kind = "signal_added" /\ timeline[c][i].about = s}
        assessed == {i \in DOMAIN timeline[c] :
                       timeline[c][i].kind = "signal_added" => timeline[c][i].about \in Report}
    IN /\ \A s \in Signal : Cardinality(added(s)) = IF links[s] = c THEN 1 ELSE 0
       /\ Cardinality(assessed) = cases[c].version
       /\ \A i, j \in DOMAIN timeline[c] : i < j => timeline[c][i].version <= timeline[c][j].version

\* The assessment that stands covers the Claims of exactly the reports that
\* were linked to the Case: a decision that was pending while other Signals
\* joined drops none of them.
ClaimsOfMembers ==
  \A c \in Case : cases[c].claims = {s \in Report : links[s] = c}

\* Once a request has been recorded under its key, every successful answer to
\* it, before or after, names the revision it was recorded with.
AnswersMatchOperation ==
  \A k \in Key : Recorded(k) =>
    \A a \in answers[k] : a.body = operations[k].body => a = operations[k]

\* _ensure_observation recognises an outdated observation by its time alone.
\* As long as the events of a Case carry increasing times, that misses one kind
\* only: a request without replay_at whose revision another request with its
\* key had saved observes that revision at the time it ends itself, which may
\* be after the events of later revisions.  Every other observation that is not
\* older than the last event is of the current version, whether its request
\* came with a replay_at or not.
TimesIncrease(c) ==
  \A i, j \in DOMAIN timeline[c] : i < j => timeline[c][i].at < timeline[c][j].at

OutdatedIsNoticed ==
  \A c \in Case :
    /\ Exists(c) /\ TimesIncrease(c)
    /\ ~IsOutdated(c) /\ observed[c].version # cases[c].version
    => observed[c].repeat

\* The service implements the append-only log of Cases.
Log == INSTANCE CaseLog
  WITH log <- [c \in Case |-> [i \in DOMAIN revisions[c] |-> revisions[c][i].claims]],
       member <- links

ImplementsCaseLog == Log!Spec

-----------------------------------------------------------------------------
(* What the contract says and the code does not keep. *)

\* "Mutable resources carry integer version.  Stale writes return HTTP 409":
\* an assessment replaces the one it was made from.
DecidedFromPrevious ==
  \A c \in Case : \A v \in 2..cases[c].version : revisions[c][v].basis = v - 1

\* "Repeating a successful request with the same key returns the same result".
RetriesRepeatAnswer ==
  \A k \in Key : \A a, b \in answers[k] : a.body = b.body => a = b
=============================================================================
