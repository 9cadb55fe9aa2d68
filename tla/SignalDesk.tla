------------------------------ MODULE SignalDesk ------------------------------
(***************************************************************************)
(* Signals and Cases composed, as create_app composes them (app/main.py):  *)
(* ingestion awaits B's dispatch through InProcessCaseDispatcher, B reads  *)
(* Signals and Claims from A's store, and clients call the Case endpoints  *)
(* directly, at any time.  Every action is one of SignalIngestion, one of  *)
(* CaseService, or one of each in the same step: the Signal is marked in   *)
(* A's table when the dispatch it waits for returns or raises.             *)
(*                                                                         *)
(* A verification is the write that ends one: A holds another verdict and  *)
(* other Evidence for the Claim (ClaimVerification has the rest).          *)
(***************************************************************************)
EXTENDS Naturals, Sequences, FiniteSets

CONSTANTS Ingest,      \* the ingestion requests that may run at the same time
          Client,      \* the requests to the Case endpoints that may
          Key,         \* the Idempotency-Keys of ingestion
          CaseKey,     \* the Idempotency-Keys clients send to the Case endpoints
          Source,      \* the sources clients post; each is also its Signal
          Original,    \* the original of each source posted as a repost, or None
          Case,        \* the identities uuid4 may draw for Cases
          Verdict,     \* what A can hold of a Claim: its verdict and Evidence
          Unverified,  \* what it holds of a Claim that was never verified
          DailyLimit,  \* model calls of the Case service allowed in a day
          Faults,      \* "crash", "store_error" in A, "status_error" in B
          None

ASSUME VerdictAssumption == Unverified \in Verdict

VARIABLES rows, signals, pc, request, extractions, handoffs,    \* SignalIngestion
          cases, revisions, timeline, links, operations,        \* CaseService
          observed, calls, inflight, answers,
          verdict,  \* what A holds of each Claim
          held,     \* history: what it has held of the Claim of a pending advance,
                    \* since the Case was last revised
          early     \* history: the Signals B has read before they were analysed

signalVars == <<rows, signals, pc, request, extractions, handoffs>>
caseVars == <<cases, revisions, timeline, links, operations, observed, calls, inflight, answers>>
vars == <<signalVars, caseVars, verdict, held, early>>

Post(s) ==
  [source |-> s, relation |-> IF Original[s] = None THEN "report" ELSE "repost",
   original |-> Original[s]]

\* The key of InProcessCaseDispatcher.  Clients are assumed not to send it; the
\* code does not refuse it from one.
HandoffKey(s) == [signal_dispatch |-> s]

ASSUME OriginalAssumption == Original \in [Source -> Source \cup {None}]

ASSUME NamesAssumption ==
  /\ None \notin Source \cup Case \cup {Post(s) : s \in Source}
  /\ Ingest \cap Client = {}
  /\ \A s \in Source : HandoffKey(s) \notin CaseKey

ASSUME FaultsAssumption == Faults \subseteq {"crash", "store_error", "status_error"}

\* source.retrieved_at, the replay_at of every handoff; a client may leave its
\* own out.  It is the only time there is: nothing here depends on which
\* version of a Case has been observed, only on whether one has.
RetrievedAt == 1
Replay == {RetrievedAt, None}

A == INSTANCE SignalIngestion
  WITH Request <- Ingest, Body <- {Post(s) : s \in Source},
       Faults <- Faults \ {"status_error"}

B == INSTANCE CaseService
  WITH Request <- Ingest \cup Client, Signal <- Source,
       Key <- CaseKey \cup {HandoffKey(s) : s \in Source},
       Time <- {RetrievedAt}, Replay <- Replay, Faults <- Faults \ {"store_error"}

Report == {s \in Source : Original[s] = None}

Init ==
  /\ A!Init
  /\ B!Init
  /\ verdict = [s \in Source |-> Unverified]
  /\ held = [d \in Client |-> {}]
  /\ early = {}

-----------------------------------------------------------------------------
\* What B reads of A.

IsKnown(s) == signals[s].ingestion # "absent"
IsAnalysed(s) == signals[s].ingestion = "completed"

\* get_signal: a Signal has its Claim as soon as it is completed.
\* Mutant: no Claim before the handoff is done.
ClaimsOnceDispatched(s) == IF s \in Report /\ signals[s].dispatch = "dispatched" THEN {s} ELSE {}
ClaimsOf(s) == IF s \in Report /\ IsAnalysed(s) THEN {s} ELSE {}

\* get_claim: an update must be what A holds of the Claim.
\* Mutant: the comparison is dropped.
AnyUpdate(s, v) == v \in Verdict
Matches(s, v) == verdict[s] = v

IsAdvance(w) == w # None /\ w.body.op = "advance"

Remembers ==
  /\ held' = [d \in Client |->
       LET w == inflight'[d] IN
         IF ~IsAdvance(w) THEN {}
         ELSE IF inflight[d] = None \/ revisions'[w.body.case] # revisions[w.body.case]
         THEN {verdict'[w.body.claim]}
         ELSE held[d] \cup {verdict'[w.body.claim]}]
  /\ early' = early \cup
       {s \in Report : \E r \in DOMAIN inflight' :
          /\ inflight[r] = None /\ inflight'[r] # None
          /\ inflight'[r].body.op = "dispatch" /\ inflight'[r].body.signal = s
          /\ ~IsAnalysed(s)}

-----------------------------------------------------------------------------
\* Ingestion, up to the dispatcher and after it.
Ingests(r) ==
  /\ \/ \E k \in Key :
          A!AnswerFromRegister(r, k) \/ \E s \in Source : A!Begin(r, k, Post(s))
     \/ A!ReserveKnown(r) \/ A!ReserveNew(r) \/ A!ReserveInvalid(r)
     \/ A!ExtractReturns(r) \/ A!ExtractRaises(r)
     \/ A!ClaimDispatch(r) \/ A!AlreadyDispatched(r) \/ A!NotDispatchable(r)
     \/ A!Record(r) \/ A!Abort(r)
     \/ A!StoreError(r) \/ A!StoreErrorInAbort(r)
  /\ UNCHANGED <<caseVars, verdict>>

\* CaseService.dispatch goes on to the model on behalf of ingestion.
Awaits(r) ==
  /\ pc[r] = "dispatching"
  /\ LET s == A!SourceOf(r) IN
       B!StartDispatch(r, HandoffKey(s), s, ClaimsOf(s), RetrievedAt)
  /\ UNCHANGED <<signalVars, verdict>>

\* It raises before: the original of a repost has no Case, the model calls of
\* the day are used up, or its store fails.
RaisesEarly(s) ==
  \/ /\ B!NotRecorded(HandoffKey(s))
     /\ B!MayLink(s)
     /\ IF s \in Report THEN calls = DailyLimit ELSE links[Original[s]] = None
  \/ "status_error" \in Faults

\* The dispatcher raises: at once, when the observation fails, or when the
\* decision does or save_revision refuses it.
Raises(r) ==
  LET s == A!SourceOf(r) IN
    \/ /\ inflight[r] = None
       /\ \/ RaisesEarly(s) /\ UNCHANGED caseVars
          \/ B!AttachRepost(HandoffKey(s), s, RetrievedAt, RetrievedAt, FALSE)
    \/ \E c \in Case : B!SaveDispatch(r, c, RetrievedAt, FALSE)
    \/ B!SavedMeanwhile(r, RetrievedAt, FALSE)
    \/ B!Fail(r)

\* Mutant: the dispatcher returns whatever happens.
ReturnsAnyway(r) ==
  LET s == A!SourceOf(r) IN
    \/ /\ inflight[r] = None
       /\ \/ B!Retry(HandoffKey(s))
          \/ B!DispatchAssigned(HandoffKey(s), s, RetrievedAt)
          \/ B!AttachRepost(HandoffKey(s), s, RetrievedAt, RetrievedAt, TRUE)
    \/ \E c \in Case : B!SaveDispatch(r, c, RetrievedAt, TRUE)
    \/ B!SavedMeanwhile(r, RetrievedAt, TRUE)
    \/ Raises(r)

\* The dispatcher returns: the Signal has a Case, which has been observed.
Returns(r) ==
  LET s == A!SourceOf(r) IN
    \/ /\ inflight[r] = None
       /\ \/ B!Retry(HandoffKey(s))
          \/ B!DispatchAssigned(HandoffKey(s), s, RetrievedAt)
          \/ B!AttachRepost(HandoffKey(s), s, RetrievedAt, RetrievedAt, TRUE)
    \/ \E c \in Case : B!SaveDispatch(r, c, RetrievedAt, TRUE)
    \/ B!SavedMeanwhile(r, RetrievedAt, TRUE)

\* Ingestion notes how the dispatch ended, or fails to.
HandsOver(r) ==
  /\ \/ A!DispatchReturns(r) /\ Returns(r)
     \/ A!DispatchRaises(r) /\ Raises(r)
     \/ A!StoreErrorAfterDispatch(r) /\ handoffs' # handoffs /\ Returns(r)
     \/ A!StoreErrorAfterDispatch(r) /\ handoffs' = handoffs /\ Raises(r)
  /\ UNCHANGED verdict

-----------------------------------------------------------------------------
\* Clients of the Case endpoints.  A Signal A does not know is a 404.
Dispatches(d, k, s, t) ==
  /\ IsKnown(s)
  /\ \/ B!DispatchAssigned(k, s, t)
     \/ \E done \in BOOLEAN : B!AttachRepost(k, s, t, RetrievedAt, done)
     \/ B!StartDispatch(d, k, s, ClaimsOf(s), t)
  /\ UNCHANGED <<signalVars, verdict>>

Advances(d, k, c, s, v, t) ==
  /\ Matches(s, v)
  /\ B!StartAdvance(d, k, c, s, v, t)
  /\ UNCHANGED <<signalVars, verdict>>

Decided(d) ==
  /\ \/ \E done \in BOOLEAN :
          \/ \E c \in Case : B!SaveDispatch(d, c, RetrievedAt, done)
          \/ B!SaveAdvance(d, RetrievedAt, done)
          \/ B!SavedMeanwhile(d, RetrievedAt, done)
     \/ B!Fail(d)
  /\ UNCHANGED <<signalVars, verdict>>

Retries(k) ==
  /\ B!Retry(k)
  /\ UNCHANGED <<signalVars, verdict>>

\* append_verification: A holds something else of a Claim from now on.
Verifies(s, v) ==
  /\ ClaimsOf(s) # {}
  /\ verdict' = [verdict EXCEPT ![s] = v]
  /\ UNCHANGED <<signalVars, caseVars>>

NextDay == B!NewDay /\ UNCHANGED <<signalVars, verdict>>

\* One process runs both.
Crash == A!Crash /\ B!Crash /\ UNCHANGED verdict

Next ==
  /\ \/ \E r \in Ingest : Ingests(r) \/ Awaits(r) \/ HandsOver(r)
     \/ \E d \in Client, k \in CaseKey, s \in Source, t \in Replay :
          \/ Dispatches(d, k, s, t)
          \/ \E c \in Case, v \in Verdict : Advances(d, k, c, s, v, t)
     \/ \E d \in Client : Decided(d)
     \/ \E k \in CaseKey : Retries(k)
     \/ \E s \in Source, v \in Verdict : Verifies(s, v)
     \/ NextDay
     \/ Crash
  /\ Remembers

Spec == Init /\ [][Next]_vars

-----------------------------------------------------------------------------
(* Safety. *)

\* A Signal that A has marked dispatched is in a Case, one that clients can
\* ask the agent's status of, whatever failed between B's transactions and
\* A's: no Signal is lost on the way, and a retry of an ambiguous handoff
\* ends where the first one did (SPEC.md, 10.1; ingest, dispatch).
HandoffIsTrue ==
  \A s \in Source : signals[s].dispatch = "dispatched" =>
    /\ links[s] # None
    /\ cases[links[s]].version > 0
    /\ observed[links[s]].version > 0

\* The Case of an analysed Signal covers its Claim, unless B was made to read
\* the Signal before it was analysed: the handoff, which comes last, repairs
\* nothing then (CaseService.dispatch, main.py's dispatch_case).
MissesOnlyEarly ==
  \A s \in Report :
    IsAnalysed(s) /\ links[s] # None /\ s \notin cases[links[s]].claims => s \in early

\* advance compares an update with A's Claim before it awaits the decision,
\* and the Claim may be verified again meanwhile.  The check of the version
\* bounds how stale the update is that a revision records: A has held it
\* since the revision before.
UpdatesAreRecent ==
  [][\A d \in Client :
       LET w == inflight[d] IN
         /\ IsAdvance(w) /\ inflight'[d] = None
         /\ revisions'[w.body.case] # revisions[w.body.case]
         => w.body.verdict \in held[d]]_vars

-----------------------------------------------------------------------------
(* What the specification says and the code does not keep. *)

\* "A Signal whose extraction failed remains stored and is not dispatched as a
\* normally analyzed Signal" (SPEC.md, 10.1).
FailedStaysOut ==
  \A s \in Source : signals[s].ingestion = "extraction_failed" => links[s] = None
=============================================================================
