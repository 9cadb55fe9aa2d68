--------------------------- MODULE SignalDeskProofs ---------------------------
(***************************************************************************)
(* Proofs about SignalDesk, for every set of requests, keys, sources and   *)
(* Cases.  The composition implements SignalIngestion, so that what is     *)
(* proved of ingestion alone holds in it; it does not implement            *)
(* CaseService, since it shows B Signals before they have Claims, and what *)
(* holds of B in it has an invariant of its own.                           *)
(***************************************************************************)
EXTENDS SignalDesk, TLAPS

\* Ingestion as the composition instantiates it, with its theorems.
IP == INSTANCE SignalIngestionProofs
  WITH Request <- Ingest, Body <- {Post(s) : s \in Source},
       Faults <- Faults \ {"status_error"}

USE NamesAssumption

-----------------------------------------------------------------------------
(* The composition implements ingestion. *)

LEMMA IngestionAssumptions == IP!BodyAssumption /\ IP!FaultsAssumption
  BY OriginalAssumption, FaultsAssumption DEF IP!BodyAssumption, IP!FaultsAssumption, Post

LEMMA IngestionInit == Init => IP!Init
  BY DEF Init, A!Init, IP!Init, A!EmptyRegister, IP!EmptyRegister, A!NoRow, IP!NoRow,
         A!NoSignal, IP!NoSignal, A!NoRequest, IP!NoRequest

\* The actions of the two instances are the same.
LEMMA SameActions ==
  ASSUME NEW r \in Ingest
  PROVE  /\ \A k \in Key : A!AnswerFromRegister(r, k) => IP!AnswerFromRegister(r, k)
         /\ \A k \in Key, b \in {Post(s) : s \in Source} : A!Begin(r, k, b) => IP!Begin(r, k, b)
         /\ A!ReserveKnown(r) => IP!ReserveKnown(r)
         /\ A!ReserveNew(r) => IP!ReserveNew(r)
         /\ A!ReserveInvalid(r) => IP!ReserveInvalid(r)
         /\ A!ExtractReturns(r) => IP!ExtractReturns(r)
         /\ A!ExtractRaises(r) => IP!ExtractRaises(r)
         /\ A!ClaimDispatch(r) => IP!ClaimDispatch(r)
         /\ A!AlreadyDispatched(r) => IP!AlreadyDispatched(r)
         /\ A!NotDispatchable(r) => IP!NotDispatchable(r)
         /\ A!DispatchReturns(r) => IP!DispatchReturns(r)
         /\ A!DispatchRaises(r) => IP!DispatchRaises(r)
         /\ A!Record(r) => IP!Record(r)
         /\ A!Abort(r) => IP!Abort(r)
         /\ A!StoreError(r) => IP!StoreError(r)
         /\ A!StoreErrorAfterDispatch(r) => IP!StoreErrorAfterDispatch(r)
         /\ A!StoreErrorInAbort(r) => IP!StoreErrorInAbort(r)
<1>1. \A k \in Key : A!AnswerFromRegister(r, k) => IP!AnswerFromRegister(r, k)
  BY DEF A!AnswerFromRegister, IP!AnswerFromRegister, A!MayBegin, IP!MayBegin, A!vars,
         IP!vars
<1>2. \A k \in Key, b \in {Post(s) : s \in Source} : A!Begin(r, k, b) => IP!Begin(r, k, b)
  BY DEF A!Begin, IP!Begin, A!MayBegin, IP!MayBegin, A!Begun, IP!Begun, A!Goes, IP!Goes
<1>3. A!ReserveKnown(r) => IP!ReserveKnown(r)
  BY DEF A!ReserveKnown, IP!ReserveKnown, A!IsPresent, IP!IsPresent, A!SourceOf,
         IP!SourceOf, A!BodyOf, IP!BodyOf, A!Goes, IP!Goes
<1>4. A!ReserveNew(r) => IP!ReserveNew(r)
  BY DEF A!ReserveNew, IP!ReserveNew, A!IsPresent, IP!IsPresent, A!ValidRelation,
         IP!ValidRelation, A!Inserted, IP!Inserted, A!SourceOf, IP!SourceOf, A!BodyOf,
         IP!BodyOf, A!Goes, IP!Goes
<1>5. A!ReserveInvalid(r) => IP!ReserveInvalid(r)
  BY DEF A!ReserveInvalid, IP!ReserveInvalid, A!IsPresent, IP!IsPresent, A!ValidRelation,
         IP!ValidRelation, A!SourceOf, IP!SourceOf, A!BodyOf, IP!BodyOf, A!Goes, IP!Goes
<1>6. A!ExtractReturns(r) => IP!ExtractReturns(r)
  BY DEF A!ExtractReturns, IP!ExtractReturns, A!CompletedSignal, IP!CompletedSignal,
         A!MayAnalyse, IP!MayAnalyse, A!SourceOf, IP!SourceOf, A!BodyOf, IP!BodyOf, A!Goes,
         IP!Goes
<1>7. A!ExtractRaises(r) => IP!ExtractRaises(r)
  BY DEF A!ExtractRaises, IP!ExtractRaises, A!FailedExtraction, IP!FailedExtraction,
         A!SourceOf, IP!SourceOf, A!BodyOf, IP!BodyOf, A!Goes, IP!Goes
<1>8. A!ClaimDispatch(r) => IP!ClaimDispatch(r)
  BY DEF A!ClaimDispatch, IP!ClaimDispatch, A!MayDispatch, IP!MayDispatch, A!Claimed,
         IP!Claimed, A!SourceOf, IP!SourceOf, A!BodyOf, IP!BodyOf, A!Goes, IP!Goes
<1>9. A!AlreadyDispatched(r) => IP!AlreadyDispatched(r)
  BY DEF A!AlreadyDispatched, IP!AlreadyDispatched, A!IsDispatched, IP!IsDispatched,
         A!SourceOf, IP!SourceOf, A!BodyOf, IP!BodyOf, A!Goes, IP!Goes
<1>10. A!NotDispatchable(r) => IP!NotDispatchable(r)
  BY DEF A!NotDispatchable, IP!NotDispatchable, A!MayDispatch, IP!MayDispatch,
         A!IsDispatched, IP!IsDispatched, A!SourceOf, IP!SourceOf, A!BodyOf, IP!BodyOf,
         A!Goes, IP!Goes
<1>11. A!DispatchReturns(r) => IP!DispatchReturns(r)
  BY DEF A!DispatchReturns, IP!DispatchReturns, A!Dispatched, IP!Dispatched, A!MayFinish,
         IP!MayFinish, A!SourceOf, IP!SourceOf, A!BodyOf, IP!BodyOf, A!Goes, IP!Goes
<1>12. A!DispatchRaises(r) => IP!DispatchRaises(r)
  BY DEF A!DispatchRaises, IP!DispatchRaises, A!Released, IP!Released, A!SourceOf,
         IP!SourceOf, A!BodyOf, IP!BodyOf, A!Goes, IP!Goes
<1>13. A!Record(r) => IP!Record(r)
  BY DEF A!Record, IP!Record, A!Completed, IP!Completed, A!MayComplete, IP!MayComplete,
         A!KeyOf, IP!KeyOf, A!SourceOf, IP!SourceOf, A!BodyOf, IP!BodyOf, A!Goes, IP!Goes,
         A!Answers, IP!Answers, A!NoRequest, IP!NoRequest
<1>14. A!Abort(r) => IP!Abort(r)
  BY DEF A!Abort, IP!Abort, A!Aborted, IP!Aborted, A!NoRow, IP!NoRow, A!KeyOf, IP!KeyOf,
         A!BodyOf, IP!BodyOf, A!Goes, IP!Goes, A!Answers, IP!Answers, A!NoRequest,
         IP!NoRequest
<1>15. A!StoreError(r) => IP!StoreError(r)
  BY DEF A!StoreError, IP!StoreError, A!Goes, IP!Goes
<1>16. A!StoreErrorAfterDispatch(r) => IP!StoreErrorAfterDispatch(r)
  BY DEF A!StoreErrorAfterDispatch, IP!StoreErrorAfterDispatch, A!SourceOf, IP!SourceOf,
         A!BodyOf, IP!BodyOf, A!Goes, IP!Goes
<1>17. A!StoreErrorInAbort(r) => IP!StoreErrorInAbort(r)
  BY DEF A!StoreErrorInAbort, IP!StoreErrorInAbort, A!Answers, IP!Answers, A!Goes, IP!Goes,
         A!NoRequest, IP!NoRequest
<1>. QED
  BY <1>1, <1>2, <1>3, <1>4, <1>5, <1>6, <1>7, <1>8, <1>9, <1>10, <1>11, <1>12, <1>13,
     <1>14, <1>15, <1>16, <1>17

LEMMA IngestionStep == [Next]_vars => [IP!Next]_IP!vars
<1>1. ASSUME NEW r \in Ingest, Ingests(r) PROVE IP!Next
  <2>1. CASE \E k \in Key : A!AnswerFromRegister(r, k) \/ \E s \in Source : A!Begin(r, k, Post(s))
    BY <2>1, SameActions DEF IP!Next
  <2>2. CASE A!ReserveKnown(r) \/ A!ReserveNew(r) \/ A!ReserveInvalid(r) \/ A!ExtractReturns(r)
             \/ A!ExtractRaises(r) \/ A!ClaimDispatch(r) \/ A!AlreadyDispatched(r)
             \/ A!NotDispatchable(r) \/ A!Record(r) \/ A!Abort(r)
    BY <2>2, SameActions DEF IP!Next, IP!Step
  <2>3. CASE A!StoreError(r) \/ A!StoreErrorInAbort(r)
    BY <2>3, SameActions DEF IP!Next, IP!Fault
  <2>. QED
    BY <1>1, <2>1, <2>2, <2>3 DEF Ingests
<1>2. ASSUME NEW r \in Ingest, HandsOver(r) PROVE IP!Next
  BY <1>2, SameActions DEF HandsOver, IP!Next, IP!Step, IP!Fault
<1>3. ASSUME Crash PROVE IP!Next
  BY <1>3 DEF Crash, A!Crash, IP!Next, IP!Crash, A!NoRequest, IP!NoRequest
<1>4. ASSUME UNCHANGED signalVars PROVE UNCHANGED IP!vars
  BY <1>4 DEF signalVars, IP!vars
<1>5. ASSUME [Next]_vars
      PROVE  \/ \E r \in Ingest : Ingests(r) \/ HandsOver(r)
             \/ Crash
             \/ UNCHANGED signalVars
  <2>1. CASE \E r \in Ingest : Ingests(r) \/ Awaits(r) \/ HandsOver(r)
    BY <2>1 DEF Awaits
  <2>2. CASE \E d \in Client, k \in CaseKey, s \in Source, t \in Replay :
               \/ Dispatches(d, k, s, t)
               \/ \E c \in Case, v \in Verdict : Advances(d, k, c, s, v, t)
    BY <2>2 DEF Dispatches, Advances
  <2>3. CASE \/ \E d \in Client : Decided(d)
             \/ \E k \in CaseKey : Retries(k)
             \/ \E s \in Source, v \in Verdict : Verifies(s, v)
             \/ NextDay
    BY <2>3 DEF Decided, Retries, Verifies, NextDay
  <2>4. CASE UNCHANGED vars
    BY <2>4 DEF vars
  <2>. QED
    BY <1>5, <2>1, <2>2, <2>3, <2>4 DEF Next
<1>. QED
  BY <1>1, <1>2, <1>3, <1>4, <1>5

\* The Case service and its clients make A do nothing that A alone does not.
THEOREM ImplementsIngestion == Spec => IP!Spec
  BY IngestionInit, IngestionStep, PTL DEF Spec, IP!Spec

\* So the theorems of SignalIngestionProofs hold of the composition: among
\* them, that each Signal is handed over once, whatever fails in A or in B.
THEOREM HandoffsStayUnique == Spec => [](IP!TypeOK /\ IP!OneDispatcher /\ IP!HandedOverOnce)
<1>1. /\ IP!Spec => []IP!TypeOK
      /\ IP!Spec => []IP!OneDispatcher
      /\ IP!Spec => []IP!HandedOverOnce
  BY IngestionAssumptions, IP!TypeCorrect, IP!DispatchOwnership, IP!OneHandoff
<1>. QED
  BY ImplementsIngestion, <1>1, PTL

-----------------------------------------------------------------------------
(* The steps of the Case service in the composition. *)

CaseRequest == Ingest \cup Client
AnyKey == CaseKey \cup {HandoffKey(s) : s \in Source}

\* A key of ingestion is used for its own Signal.
Fitting(k, s) == \A x \in Source : k = HandoffKey(x) => x = s

\* What B does before a decision, or without one.
Answering(k, s) ==
  \E t \in Replay :
    \/ B!DispatchAssigned(k, s, t)
    \/ \E done \in BOOLEAN : B!AttachRepost(k, s, t, RetrievedAt, done)
Starting(r, k) ==
  \/ \E s \in Source, t \in Replay :
       Fitting(k, s) /\ B!StartDispatch(r, k, s, ClaimsOf(s), t)
  \/ /\ r \in Client /\ k \in CaseKey
     /\ \E c \in Case, s \in Source, v \in Verdict, t \in Replay :
          Matches(s, v) /\ B!StartAdvance(r, k, c, s, v, t)
     /\ UNCHANGED verdict

\* What it does after one.
Saving(r) ==
  \E done \in BOOLEAN :
    (\E c \in Case : B!SaveDispatch(r, c, RetrievedAt, done)) \/ B!SaveAdvance(r, RetrievedAt, done)
Ending(r) == (\E done \in BOOLEAN : B!SavedMeanwhile(r, RetrievedAt, done)) \/ B!Fail(r)

CaseStep ==
  \/ UNCHANGED caseVars
  \/ \E k \in AnyKey : B!Retry(k)
  \/ \E k \in AnyKey, s \in Source : Fitting(k, s) /\ Answering(k, s)
  \/ \E r \in CaseRequest, k \in AnyKey : Starting(r, k)
  \/ \E r \in CaseRequest : Saving(r)
  \/ \E r \in CaseRequest : Ending(r)
  \/ B!NewDay
  \/ B!Crash

LEMMA HandoffKeys ==
  ASSUME NEW s \in Source
  PROVE  HandoffKey(s) \in AnyKey /\ HandoffKey(s) \notin CaseKey /\ Fitting(HandoffKey(s), s)
  BY DEF AnyKey, Fitting, HandoffKey

LEMMA ClientKeys ==
  ASSUME NEW k \in CaseKey
  PROVE  k \in AnyKey /\ \A s \in Source : Fitting(k, s)
  BY DEF AnyKey, Fitting

\* The source of a request at the dispatcher.
LEMMA SourceType ==
  ASSUME IP!TypeOK, NEW r \in Ingest, pc[r] # "idle"
  PROVE  A!SourceOf(r) \in Source
<1>1. request[r] \in [key : Key, body : {Post(s) : s \in Source}]
  BY DEF IP!TypeOK
<1>2. request[r].body \in {Post(s) : s \in Source}
  BY <1>1
<1>. QED
  BY <1>2 DEF Post, A!SourceOf, A!BodyOf

LEMMA HandoffSteps ==
  ASSUME IP!TypeOK, NEW r \in Ingest, pc[r] = "dispatching", Returns(r) \/ Raises(r)
  PROVE  CaseStep
<1> DEFINE s == A!SourceOf(r)
           k == HandoffKey(s)
<1>1. s \in Source /\ k \in AnyKey /\ Fitting(k, s) /\ r \in CaseRequest
  BY SourceType, HandoffKeys DEF CaseRequest
<1>2. CASE UNCHANGED caseVars
  BY <1>2 DEF CaseStep
<1>3. CASE B!Retry(k)
  BY <1>1, <1>3 DEF CaseStep
<1>4. CASE \/ B!DispatchAssigned(k, s, RetrievedAt)
           \/ B!AttachRepost(k, s, RetrievedAt, RetrievedAt, TRUE)
           \/ B!AttachRepost(k, s, RetrievedAt, RetrievedAt, FALSE)
  <2>1. Answering(k, s)
    BY <1>4 DEF Answering, Replay
  <2>. QED
    BY <1>1, <2>1 DEF CaseStep
<1>5. CASE \E c \in Case : B!SaveDispatch(r, c, RetrievedAt, TRUE) \/ B!SaveDispatch(r, c, RetrievedAt, FALSE)
  BY <1>1, <1>5 DEF CaseStep, Saving
<1>6. CASE B!SavedMeanwhile(r, RetrievedAt, TRUE) \/ B!SavedMeanwhile(r, RetrievedAt, FALSE) \/ B!Fail(r)
  BY <1>1, <1>6 DEF CaseStep, Ending
<1>. QED
  BY <1>2, <1>3, <1>4, <1>5, <1>6 DEF Returns, Raises

LEMMA CaseSteps == IP!TypeOK /\ [Next]_vars => CaseStep
<1>. SUFFICES ASSUME IP!TypeOK, [Next]_vars PROVE CaseStep
  OBVIOUS
<1>1. ASSUME NEW r \in Ingest, Ingests(r) PROVE CaseStep
  BY <1>1 DEF Ingests, CaseStep
<1>2. ASSUME NEW r \in Ingest, Awaits(r) PROVE CaseStep
  <2>1. A!SourceOf(r) \in Source /\ r \in CaseRequest
    BY <1>2, SourceType DEF Awaits, CaseRequest
  <2>2. Starting(r, HandoffKey(A!SourceOf(r))) /\ HandoffKey(A!SourceOf(r)) \in AnyKey
    BY <1>2, <2>1, HandoffKeys DEF Awaits, Starting, Replay
  <2>. QED
    BY <2>1, <2>2 DEF CaseStep
<1>3. ASSUME NEW r \in Ingest, HandsOver(r) PROVE CaseStep
  <2>1. pc[r] = "dispatching" /\ (Returns(r) \/ Raises(r))
    BY <1>3 DEF HandsOver, A!DispatchReturns, A!DispatchRaises, A!StoreErrorAfterDispatch
  <2>. QED
    BY <2>1, HandoffSteps
<1>4. ASSUME NEW d \in Client, NEW k \in CaseKey, NEW s \in Source, NEW t \in Replay,
             Dispatches(d, k, s, t)
      PROVE  CaseStep
  <2>1. k \in AnyKey /\ Fitting(k, s) /\ d \in CaseRequest
    BY ClientKeys DEF CaseRequest
  <2>2. Answering(k, s) \/ Starting(d, k)
    BY <1>4, <2>1 DEF Dispatches, Answering, Starting
  <2>. QED
    BY <2>1, <2>2 DEF CaseStep
<1>5. ASSUME NEW d \in Client, NEW k \in CaseKey, NEW s \in Source, NEW c \in Case, NEW v \in Verdict,
             NEW t \in Replay, Advances(d, k, c, s, v, t)
      PROVE  CaseStep
  <2>1. k \in AnyKey /\ d \in CaseRequest
    BY ClientKeys DEF CaseRequest
  <2>2. Starting(d, k)
    BY <1>5 DEF Advances, Starting
  <2>. QED
    BY <2>1, <2>2 DEF CaseStep
<1>6. ASSUME NEW d \in Client, Decided(d) PROVE CaseStep
  <2>1. d \in CaseRequest
    BY DEF CaseRequest
  <2>2. Saving(d) \/ Ending(d)
    BY <1>6 DEF Decided, Saving, Ending
  <2>. QED
    BY <2>1, <2>2 DEF CaseStep
<1>7. ASSUME NEW k \in CaseKey, Retries(k) PROVE CaseStep
  BY <1>7, ClientKeys DEF Retries, CaseStep
<1>8. CASE (\E s \in Source, v \in Verdict : Verifies(s, v)) \/ UNCHANGED vars
  BY <1>8 DEF Verifies, vars, CaseStep
<1>9. CASE NextDay \/ Crash
  BY <1>9 DEF NextDay, Crash, CaseStep
<1>10. CASE \E r \in Ingest : Ingests(r) \/ Awaits(r) \/ HandsOver(r)
  BY <1>1, <1>2, <1>3, <1>10
<1>11. CASE \E d \in Client, k \in CaseKey, s \in Source, t \in Replay :
              \/ Dispatches(d, k, s, t)
              \/ \E c \in Case, v \in Verdict : Advances(d, k, c, s, v, t)
  BY <1>4, <1>5, <1>11
<1>12. CASE (\E d \in Client : Decided(d)) \/ (\E k \in CaseKey : Retries(k))
  BY <1>6, <1>7, <1>12
<1>. QED
  BY <1>8, <1>9, <1>10, <1>11, <1>12 DEF Next

-----------------------------------------------------------------------------
(* What the tables of B hold in the composition. *)

StoreFits ==
  /\ links \in [Source -> Case \cup {None}]
  /\ DOMAIN cases = Case /\ \A c \in Case : cases[c].version \in Nat
  /\ DOMAIN observed = Case /\ \A c \in Case : observed[c].version \in Nat
  /\ DOMAIN operations = AnyKey /\ DOMAIN inflight = CaseRequest

LinksExist == \A s \in Source : links[s] # None => cases[links[s]].version > 0

OperationsExist ==
  \A k \in AnyKey : operations[k] # None =>
    /\ operations[k].case \in Case /\ operations[k].version \in Nat \ {0}
    /\ cases[operations[k].case].version > 0

\* What is recorded under the key of a handoff is where its Signal has gone.
HandoffsRecorded ==
  \A s \in Source : operations[HandoffKey(s)] # None =>
    links[s] = operations[HandoffKey(s)].case

\* A key of ingestion is only waited with for its own Signal.
WaitsFor(w) ==
  /\ w.key \in AnyKey
  /\ w.body.op = "dispatch" => w.body.signal \in Source /\ Fitting(w.key, w.body.signal)
  /\ w.body.op = "advance" => w.key \in CaseKey /\ w.body.case \in Case
WaitingFits == \A r \in CaseRequest : inflight[r] # None => WaitsFor(inflight[r])

CaseInv == StoreFits /\ LinksExist /\ OperationsExist /\ HandoffsRecorded /\ WaitingFits

\* Links stay, and so does the existence of Cases and observations.
ObservedGrows ==
  /\ DOMAIN observed' = Case
  /\ \A c \in Case : /\ observed'[c].version \in Nat
                     /\ observed[c].version > 0 => observed'[c].version > 0
Grows ==
  /\ \A s \in Source : links[s] # None => links'[s] = links[s]
  /\ \A c \in Case : cases[c].version > 0 => cases'[c].version > 0
  /\ ObservedGrows

LEMMA CaseInit == Init => CaseInv
<1>. SUFFICES ASSUME Init PROVE CaseInv
  OBVIOUS
<1>1. B!Init
  BY DEF Init
<1>2. StoreFits
  BY <1>1 DEF B!Init, B!NoCase, B!NoObservation, StoreFits, AnyKey, CaseRequest
<1>3. (\A k \in AnyKey : operations[k] = None) /\ (\A s \in Source : links[s] = None)
      /\ (\A r \in CaseRequest : inflight[r] = None)
  BY <1>1 DEF B!Init, AnyKey, CaseRequest
<1>. QED
  BY <1>2, <1>3, HandoffKeys DEF CaseInv, LinksExist, OperationsExist, HandoffsRecorded, WaitingFits

LEMMA EnsuringGrows ==
  ASSUME CaseInv, NEW c \in Case, cases[c].version > 0, B!EnsuresObservation(c)
  PROVE  ObservedGrows /\ observed'[c].version > 0
<1>1. CASE B!IsOutdated(c)
  <2>1. observed' = [observed EXCEPT ![c] =
            [version |-> cases[c].version, at |-> B!LatestTime(c), repeat |-> FALSE]]
    BY <1>1 DEF B!EnsuresObservation, B!Observes, B!Observed
  <2>2. /\ DOMAIN observed' = Case /\ observed'[c].version = cases[c].version
        /\ \A d \in Case : d # c => observed'[d] = observed[d]
    BY <2>1 DEF CaseInv, StoreFits
  <2>. QED
    BY <2>2 DEF ObservedGrows, CaseInv, StoreFits
<1>2. CASE ~B!IsOutdated(c)
  <2>1. observed' = observed /\ observed[c].version # 0
    BY <1>2 DEF B!EnsuresObservation, B!IsOutdated
  <2>. QED
    BY <2>1 DEF ObservedGrows, CaseInv, StoreFits
<1>. QED
  BY <1>1, <1>2

LEMMA FinishingGrows ==
  ASSUME CaseInv, NEW c \in Case, NEW done \in BOOLEAN, NEW k, NEW b, NEW observation,
         observation.version \in Nat \ {0}, B!Finishes(done, k, b, c, observation)
  PROVE  ObservedGrows /\ (done => observed'[c].version > 0)
<1>1. CASE done
  <2>1. observed' = [observed EXCEPT ![c] = observation]
    BY <1>1 DEF B!Finishes, B!Observes
  <2>2. /\ DOMAIN observed' = Case /\ observed'[c] = observation
        /\ \A d \in Case : d # c => observed'[d] = observed[d]
    BY <2>1 DEF CaseInv, StoreFits
  <2>. QED
    BY <2>2 DEF ObservedGrows, CaseInv, StoreFits
<1>2. CASE ~done
  <2>1. observed' = observed
    BY <1>2 DEF B!Finishes
  <2>. QED
    BY <1>2, <2>1 DEF ObservedGrows, CaseInv, StoreFits
<1>. QED
  BY <1>1, <1>2

\* Steps that write no Case: requests begin to wait, or end.
LEMMA QuietFits ==
  ASSUME CaseInv, UNCHANGED <<cases, links, operations>>, ObservedGrows, DOMAIN inflight' = CaseRequest,
         \A r \in CaseRequest :
           inflight'[r] = inflight[r] \/ inflight'[r] = None \/ WaitsFor(inflight'[r])
  PROVE  CaseInv' /\ Grows
<1>1. StoreFits' /\ LinksExist' /\ OperationsExist' /\ HandoffsRecorded'
  BY DEF CaseInv, StoreFits, LinksExist, OperationsExist, HandoffsRecorded, ObservedGrows
<1>2. WaitingFits'
  BY DEF CaseInv, WaitingFits
<1>3. Grows
  BY DEF Grows
<1>. QED
  BY <1>1, <1>2, <1>3 DEF CaseInv

\* Steps that record an operation, with the Case it is about.
LEMMA WriteFits ==
  ASSUME CaseInv, NEW k \in AnyKey, NEW c \in Case, NEW v \in Nat \ {0}, NEW b,
         operations[k] = None,
         operations' = [operations EXCEPT ![k] = [body |-> b, case |-> c, version |-> v]],
         DOMAIN cases' = Case, cases'[c].version \in Nat \ {0},
         \A d \in Case : d # c => cases'[d] = cases[d],
         \/ UNCHANGED links /\ k \in CaseKey
         \/ \E s \in Source : /\ links[s] = None /\ Fitting(k, s)
                              /\ links' = [links EXCEPT ![s] = c],
         ObservedGrows, DOMAIN inflight' = CaseRequest,
         \A r \in CaseRequest : inflight'[r] = inflight[r] \/ inflight'[r] = None
  PROVE  CaseInv' /\ Grows
<1>1. \A d \in Case : cases'[d].version \in Nat /\ (cases[d].version > 0 => cases'[d].version > 0)
  BY DEF CaseInv, StoreFits
<1>2. /\ links' \in [Source -> Case \cup {None}]
      /\ \A s \in Source : links[s] # None => links'[s] = links[s]
      /\ \A s \in Source : links'[s] # links[s] => links'[s] = c
      /\ \A s \in Source : k = HandoffKey(s) => links'[s] = c
  <2>1. CASE UNCHANGED links /\ k \in CaseKey
    BY <2>1, HandoffKeys DEF CaseInv, StoreFits
  <2>2. CASE \E s \in Source : /\ links[s] = None /\ Fitting(k, s)
                               /\ links' = [links EXCEPT ![s] = c]
    <3>1. PICK s \in Source : /\ links[s] = None /\ Fitting(k, s)
                              /\ links' = [links EXCEPT ![s] = c]
      BY <2>2
    <3>2. links'[s] = c /\ \A x \in Source : x # s => links'[x] = links[x]
      BY <3>1 DEF CaseInv, StoreFits
    <3>3. \A x \in Source : k = HandoffKey(x) => x = s
      BY <3>1 DEF Fitting
    <3>. QED
      BY <3>1, <3>2, <3>3 DEF CaseInv, StoreFits
  <2>. QED
    BY <2>1, <2>2
<1>3. /\ DOMAIN operations' = AnyKey
      /\ operations'[k] = [body |-> b, case |-> c, version |-> v]
      /\ \A j \in AnyKey : j # k => operations'[j] = operations[j]
  BY DEF CaseInv, StoreFits
<1>4. StoreFits'
  BY <1>1, <1>2, <1>3 DEF StoreFits, ObservedGrows
<1>5. LinksExist'
  <2>1. ASSUME NEW s \in Source, links'[s] # None PROVE cases'[links'[s]].version > 0
    <3>1. CASE links'[s] = links[s]
      BY <1>1, <2>1, <3>1 DEF CaseInv, LinksExist, StoreFits
    <3>2. CASE links'[s] # links[s]
      BY <1>2, <3>2
    <3>. QED
      BY <3>1, <3>2
  <2>. QED
    BY <2>1 DEF LinksExist
<1>6. OperationsExist'
  <2>1. ASSUME NEW j \in AnyKey, operations'[j] # None
        PROVE  /\ operations'[j].case \in Case /\ operations'[j].version \in Nat \ {0}
               /\ cases'[operations'[j].case].version > 0
    <3>1. CASE j = k
      BY <1>3, <3>1
    <3>2. CASE j # k
      BY <1>1, <1>3, <2>1, <3>2 DEF CaseInv, OperationsExist
    <3>. QED
      BY <3>1, <3>2
  <2>. QED
    BY <2>1 DEF OperationsExist
<1>7. HandoffsRecorded'
  <2>1. ASSUME NEW s \in Source, operations'[HandoffKey(s)] # None
        PROVE  links'[s] = operations'[HandoffKey(s)].case
    <3>1. CASE HandoffKey(s) = k
      BY <1>2, <1>3, <3>1
    <3>2. CASE HandoffKey(s) # k
      <4>1. operations[HandoffKey(s)] # None /\ operations'[HandoffKey(s)] = operations[HandoffKey(s)]
        BY <1>3, <2>1, <3>2, HandoffKeys
      <4>2. links[s] = operations[HandoffKey(s)].case /\ operations[HandoffKey(s)].case \in Case
        BY <4>1, HandoffKeys DEF CaseInv, HandoffsRecorded, OperationsExist
      <4>. QED
        BY <1>2, <4>1, <4>2
    <3>. QED
      BY <3>1, <3>2
  <2>. QED
    BY <2>1 DEF HandoffsRecorded
<1>8. WaitingFits'
  BY DEF CaseInv, WaitingFits
<1>9. Grows
  BY <1>1, <1>2 DEF Grows
<1>. QED
  BY <1>4, <1>5, <1>6, <1>7, <1>8, <1>9 DEF CaseInv

-----------------------------------------------------------------------------
(* Each step of B keeps that. *)

LEMMA RetryFits ==
  ASSUME CaseInv, NEW k \in AnyKey, B!Retry(k)
  PROVE  CaseInv' /\ Grows /\ observed'[operations[k].case].version > 0
<1> DEFINE c == operations[k].case
<1>1. operations[k] # None /\ B!EnsuresObservation(c) /\ UNCHANGED <<cases, links, operations, inflight>>
  BY DEF B!Retry, B!Recorded, B!store
<1>2. c \in Case /\ cases[c].version > 0
  BY <1>1 DEF CaseInv, OperationsExist
<1>3. ObservedGrows /\ observed'[c].version > 0
  BY <1>1, <1>2, EnsuringGrows
<1>. QED
  BY <1>1, <1>3, QuietFits DEF CaseInv, StoreFits

LEMMA AssignedFits ==
  ASSUME CaseInv, NEW k \in AnyKey, NEW s \in Source, NEW t \in Replay,
         B!DispatchAssigned(k, s, t)
  PROVE  CaseInv' /\ Grows /\ links'[s] # None /\ observed'[links'[s]].version > 0
<1>1. links[s] # None /\ B!EnsuresObservation(links[s]) /\ UNCHANGED <<cases, links, operations, inflight>>
  BY DEF B!DispatchAssigned, B!MayLink, B!store
<1>2. links[s] \in Case /\ cases[links[s]].version > 0
  BY <1>1 DEF CaseInv, LinksExist, StoreFits
<1>3. ObservedGrows /\ observed'[links[s]].version > 0
  BY <1>1, <1>2, EnsuringGrows
<1>. QED
  BY <1>1, <1>3, QuietFits DEF CaseInv, StoreFits

LEMMA RepostFits ==
  ASSUME CaseInv, NEW k \in AnyKey, NEW s \in Source, Fitting(k, s), NEW t \in Replay,
         NEW done \in BOOLEAN, B!AttachRepost(k, s, t, RetrievedAt, done)
  PROVE  CaseInv' /\ Grows /\ links'[s] # None /\ (done => observed'[links'[s]].version > 0)
<1> DEFINE c == links[Original[s]]
           v == cases[c].version
<1>1. /\ operations[k] = None /\ links[s] = None /\ Original[s] # None /\ c # None
      /\ links' = [links EXCEPT ![s] = c]
      /\ operations' = [operations EXCEPT ![k] =
           [body |-> B!DispatchOf(s, t), case |-> c, version |-> v]]
      /\ B!Finishes(done, k, B!DispatchOf(s, t), c, B!Observed(v, RetrievedAt))
      /\ UNCHANGED <<cases, inflight>>
  BY DEF B!AttachRepost, B!NotRecorded, B!Recorded, B!MayLink, B!Records
<1>2. c \in Case /\ v \in Nat \ {0}
  <2>1. Original[s] \in Source
    BY <1>1, OriginalAssumption
  <2>. QED
    BY <1>1, <2>1 DEF CaseInv, LinksExist, StoreFits
<1>3. ObservedGrows /\ (done => observed'[c].version > 0)
  BY <1>1, <1>2, FinishingGrows DEF B!Observed
<1>4. links'[s] = c
  BY <1>1 DEF CaseInv, StoreFits
<1>5. CaseInv' /\ Grows
  BY <1>1, <1>2, <1>3, WriteFits DEF CaseInv, StoreFits
<1>. QED
  BY <1>2, <1>3, <1>4, <1>5

LEMMA StartFits ==
  ASSUME CaseInv, NEW r \in CaseRequest, NEW k \in AnyKey, Starting(r, k)
  PROVE  CaseInv' /\ Grows /\ \A q \in CaseRequest : q # r => inflight'[q] = inflight[q]
<1>1. UNCHANGED <<cases, links, operations, observed>>
  BY DEF Starting, B!StartDispatch, B!StartAdvance, B!Awaits, B!store
<1>2. /\ DOMAIN inflight' = CaseRequest
      /\ \A q \in CaseRequest : q # r => inflight'[q] = inflight[q]
  BY DEF Starting, B!StartDispatch, B!StartAdvance, B!Awaits, CaseInv, StoreFits
<1>3. WaitsFor(inflight'[r])
  <2>1. CASE \E s \in Source, t \in Replay :
               Fitting(k, s) /\ B!StartDispatch(r, k, s, ClaimsOf(s), t)
    <3>1. PICK s \in Source, t \in Replay :
            Fitting(k, s) /\ B!StartDispatch(r, k, s, ClaimsOf(s), t)
      BY <2>1
    <3>2. inflight'[r].key = k /\ inflight'[r].body = [op |-> "dispatch", signal |-> s, at |-> t]
      BY <3>1 DEF B!StartDispatch, B!Awaits, B!DispatchOf, CaseInv, StoreFits
    <3>. QED
      BY <3>1, <3>2 DEF WaitsFor
  <2>2. CASE /\ r \in Client /\ k \in CaseKey
             /\ \E c \in Case, s \in Source, v \in Verdict, t \in Replay :
                  Matches(s, v) /\ B!StartAdvance(r, k, c, s, v, t)
    <3>1. PICK c \in Case, s \in Source, v \in Verdict, t \in Replay :
            B!StartAdvance(r, k, c, s, v, t)
      BY <2>2
    <3>2. /\ inflight'[r].key = k
          /\ inflight'[r].body = [op |-> "advance", case |-> c, version |-> cases[c].version,
                                  claim |-> s, verdict |-> v, at |-> t]
      BY <3>1 DEF B!StartAdvance, B!Awaits, CaseInv, StoreFits
    <3>. QED
      BY <2>2, <3>2 DEF WaitsFor
  <2>. QED
    BY <2>1, <2>2 DEF Starting
<1>4. ObservedGrows
  BY <1>1 DEF ObservedGrows, CaseInv, StoreFits
<1>5. CaseInv' /\ Grows
  BY <1>1, <1>2, <1>3, <1>4, QuietFits
<1>. QED
  BY <1>2, <1>5

\* A request that ends leaves the others waiting.
EndsOnly(r) ==
  /\ DOMAIN inflight' = CaseRequest /\ inflight'[r] = None
  /\ \A q \in CaseRequest : q # r => inflight'[q] = inflight[q]

LEMMA SavedDispatchFits ==
  ASSUME CaseInv, NEW r \in CaseRequest, NEW c \in Case,
                  NEW done \in BOOLEAN, B!SaveDispatch(r, c, RetrievedAt, done)
  PROVE  /\ CaseInv' /\ Grows /\ EndsOnly(r)
         /\ links'[inflight[r].body.signal] = c
         /\ done => observed'[c].version > 0
<1> DEFINE w == inflight[r]
           s == w.body.signal
           v == cases[c].version + 1
<1>1. /\ w # None /\ w.body.op = "dispatch" /\ operations[w.key] = None /\ links[s] = None
      /\ cases' = [cases EXCEPT ![c] =
           [version |-> v, claims |-> B!Covers(c, w.claims), basis |-> w.seen[c]]]
      /\ operations' = [operations EXCEPT ![w.key] = [body |-> w.body, case |-> c, version |-> v]]
      /\ links' = [links EXCEPT ![s] = c]
      /\ B!Finishes(done, w.key, w.body, c, B!Observed(v, RetrievedAt))
      /\ inflight' = [inflight EXCEPT ![r] = None]
  BY DEF B!SaveDispatch, B!NotRecorded, B!Recorded, B!MayLink, B!Revises, B!Records, B!Ends
<1>2. w.key \in AnyKey /\ s \in Source /\ Fitting(w.key, s)
  BY <1>1 DEF CaseInv, WaitingFits, WaitsFor
<1>3. v \in Nat \ {0}
  BY DEF CaseInv, StoreFits
<1>4. /\ DOMAIN cases' = Case /\ cases'[c].version = v
      /\ \A d \in Case : d # c => cases'[d] = cases[d]
  BY <1>1 DEF CaseInv, StoreFits
<1>5. ObservedGrows /\ (done => observed'[c].version > 0)
  BY <1>1, <1>3, FinishingGrows DEF B!Observed
<1>6. EndsOnly(r)
  BY <1>1 DEF EndsOnly, CaseInv, StoreFits
<1>7. links'[s] = c
  BY <1>1, <1>2 DEF CaseInv, StoreFits
<1>8. CaseInv' /\ Grows
  <2>1. \A q \in CaseRequest : inflight'[q] = inflight[q] \/ inflight'[q] = None
    BY <1>6 DEF EndsOnly
  <2>2. DOMAIN inflight' = CaseRequest /\ cases'[c].version \in Nat \ {0}
    BY <1>3, <1>4, <1>6 DEF EndsOnly
  <2> DEFINE k == w.key
             b == w.body
  <2>3. /\ k \in AnyKey /\ operations[k] = None
        /\ operations' = [operations EXCEPT ![k] = [body |-> b, case |-> c, version |-> v]]
    BY <1>1, <1>2
  <2>4. \E x \in Source : /\ links[x] = None /\ Fitting(k, x)
                         /\ links' = [links EXCEPT ![x] = c]
    BY <1>1, <1>2
  <2>. HIDE DEF k, b, w, s, v
  <2>. QED
    BY <1>3, <1>4, <1>5, <2>1, <2>2, <2>3, <2>4, WriteFits
<1>. QED
  BY <1>5, <1>6, <1>7, <1>8

LEMMA SavedAdvanceFits ==
  ASSUME CaseInv, NEW r \in CaseRequest, NEW done \in BOOLEAN, B!SaveAdvance(r, RetrievedAt, done)
  PROVE  CaseInv' /\ Grows /\ EndsOnly(r)
<1> DEFINE w == inflight[r]
           c == w.body.case
           v == w.body.version + 1
<1>1. /\ w # None /\ w.body.op = "advance" /\ operations[w.key] = None
      /\ cases[c].version = w.body.version
      /\ cases' = [cases EXCEPT ![c] =
           [version |-> v, claims |-> w.claims, basis |-> w.body.version]]
      /\ operations' = [operations EXCEPT ![w.key] = [body |-> w.body, case |-> c, version |-> v]]
      /\ UNCHANGED links
      /\ B!Finishes(done, w.key, w.body, c, B!Observed(v, RetrievedAt))
      /\ inflight' = [inflight EXCEPT ![r] = None]
  BY DEF B!SaveAdvance, B!NotRecorded, B!Recorded, B!VersionIs, B!Revises, B!Records, B!Ends
<1>2. w.key \in CaseKey /\ w.key \in AnyKey /\ c \in Case
  BY <1>1 DEF CaseInv, WaitingFits, WaitsFor
<1>3. v \in Nat \ {0}
  BY <1>1, <1>2 DEF CaseInv, StoreFits
<1>4. /\ DOMAIN cases' = Case /\ cases'[c].version = v
      /\ \A d \in Case : d # c => cases'[d] = cases[d]
  BY <1>1, <1>2 DEF CaseInv, StoreFits
<1>5. ObservedGrows
  BY <1>1, <1>2, <1>3, FinishingGrows DEF B!Observed
<1>6. EndsOnly(r)
  BY <1>1 DEF EndsOnly, CaseInv, StoreFits
<1>7. \A q \in CaseRequest : inflight'[q] = inflight[q] \/ inflight'[q] = None
  BY <1>6 DEF EndsOnly
<1>8. CaseInv' /\ Grows
  <2>1. DOMAIN inflight' = CaseRequest /\ cases'[c].version \in Nat \ {0}
    BY <1>3, <1>4, <1>6 DEF EndsOnly
  <2>2. UNCHANGED links /\ w.key \in CaseKey
    BY <1>1, <1>2
  <2>3. /\ operations[w.key] = None
        /\ operations' = [operations EXCEPT ![w.key] = [body |-> w.body, case |-> c, version |-> v]]
    BY <1>1
  <2> DEFINE k == w.key
             b == w.body
  <2>4. /\ k \in AnyKey /\ operations[k] = None
        /\ operations' = [operations EXCEPT ![k] = [body |-> b, case |-> c, version |-> v]]
    BY <1>2, <2>3
  <2>5. \/ UNCHANGED links /\ k \in CaseKey
        \/ \E s \in Source : /\ links[s] = None /\ Fitting(k, s)
                             /\ links' = [links EXCEPT ![s] = c]
    BY <2>2
  <2>6. c \in Case
    BY <1>2
  <2>. HIDE DEF k, b, w, c, v
  <2>. QED
    BY <1>3, <1>4, <1>5, <1>7, <2>1, <2>4, <2>5, <2>6, WriteFits
<1>. QED
  BY <1>6, <1>8

LEMMA EndFits ==
  ASSUME CaseInv, NEW r \in CaseRequest, Ending(r)
  PROVE  /\ CaseInv' /\ Grows /\ EndsOnly(r) /\ UNCHANGED links
         /\ B!SavedMeanwhile(r, RetrievedAt, TRUE) =>
              /\ operations[inflight[r].key] # None
              /\ observed'[operations[inflight[r].key].case].version > 0
<1> DEFINE w == inflight[r]
           o == operations[w.key]
<1>1. w # None /\ inflight' = [inflight EXCEPT ![r] = None] /\ UNCHANGED <<cases, links, operations>>
  BY DEF Ending, B!SavedMeanwhile, B!Fail, B!Ends, B!store
<1>2. EndsOnly(r)
  BY <1>1 DEF EndsOnly, CaseInv, StoreFits
<1>3. ASSUME NEW done \in BOOLEAN, B!SavedMeanwhile(r, RetrievedAt, done)
      PROVE  o # None /\ ObservedGrows /\ (done => observed'[o.case].version > 0)
  <2>1. /\ o # None
        /\ B!Finishes(done, w.key, w.body, o.case,
                      [version |-> o.version, at |-> RetrievedAt, repeat |-> w.body.at = None])
    BY <1>3 DEF B!SavedMeanwhile, B!Recorded, B!RecordedVersion
  <2>2. w.key \in AnyKey
    BY <1>1 DEF CaseInv, WaitingFits, WaitsFor
  <2>3. o.case \in Case /\ o.version \in Nat \ {0}
    BY <2>1, <2>2 DEF CaseInv, OperationsExist
  <2>. QED
    BY <2>1, <2>3, FinishingGrows
<1>4. ObservedGrows
  <2>1. CASE \E done \in BOOLEAN : B!SavedMeanwhile(r, RetrievedAt, done)
    BY <1>3, <2>1
  <2>2. CASE B!Fail(r)
    BY <2>2 DEF B!Fail, ObservedGrows, CaseInv, StoreFits
  <2>. QED
    BY <2>1, <2>2 DEF Ending
<1>5. CaseInv' /\ Grows
  BY <1>1, <1>2, <1>4, QuietFits DEF EndsOnly
<1>. QED
  BY <1>1, <1>2, <1>3, <1>5

LEMMA CaseFits == CaseInv /\ CaseStep => CaseInv' /\ Grows
<1>. SUFFICES ASSUME CaseInv, CaseStep PROVE CaseInv' /\ Grows
  OBVIOUS
<1>1. CASE UNCHANGED caseVars
  <2>1. UNCHANGED <<cases, links, operations, observed, inflight>>
    BY <1>1 DEF caseVars
  <2>2. ObservedGrows /\ DOMAIN inflight' = CaseRequest
    BY <2>1 DEF ObservedGrows, CaseInv, StoreFits
  <2>. QED
    BY <2>1, <2>2, QuietFits
<1>2. CASE \E k \in AnyKey : B!Retry(k)
  BY <1>2, RetryFits
<1>3. ASSUME NEW k \in AnyKey, NEW s \in Source, Fitting(k, s), Answering(k, s)
      PROVE  CaseInv' /\ Grows
  BY <1>3, AssignedFits, RepostFits DEF Answering
<1>4. CASE \E r \in CaseRequest, k \in AnyKey : Starting(r, k)
  BY <1>4, StartFits
<1>5. CASE \E r \in CaseRequest : Saving(r)
  BY <1>5, SavedDispatchFits, SavedAdvanceFits DEF Saving
<1>6. CASE \E r \in CaseRequest : Ending(r)
  BY <1>6, EndFits
<1>7. CASE B!NewDay \/ B!Crash
  <2>1. UNCHANGED <<cases, links, operations, observed>>
    BY <1>7 DEF B!NewDay, B!Crash, B!store
  <2>2. /\ ObservedGrows /\ DOMAIN inflight' = CaseRequest
        /\ \A r \in CaseRequest : inflight'[r] = inflight[r] \/ inflight'[r] = None
    BY <1>7, <2>1 DEF B!NewDay, B!Crash, ObservedGrows, CaseInv, StoreFits, CaseRequest
  <2>. QED
    BY <2>1, <2>2, QuietFits
<1>. QED
  BY <1>1, <1>2, <1>3, <1>4, <1>5, <1>6, <1>7 DEF CaseStep

-----------------------------------------------------------------------------
(* What a request of ingestion waits for. *)

HandoffsWait ==
  \A r \in Ingest : inflight[r] # None =>
    /\ pc[r] = "dispatching"
    /\ inflight[r].key = HandoffKey(A!SourceOf(r))
    /\ inflight[r].body = B!DispatchOf(A!SourceOf(r), RetrievedAt)

\* A step of one request leaves the others where they are, and only the return
\* of the dispatcher marks a Signal as dispatched.
Elsewhere(q) ==
  \A r \in Ingest : r # q => pc'[r] = pc[r] /\ A!SourceOf(r)' = A!SourceOf(r)
NewlyDispatched(s) == signals'[s].dispatch = "dispatched" /\ signals[s].dispatch # "dispatched"

LEMMA IngestsLocally ==
  ASSUME IP!TypeOK, NEW q \in Ingest, Ingests(q)
  PROVE  /\ Elsewhere(q) /\ UNCHANGED caseVars
         /\ pc[q] = "dispatching" => UNCHANGED <<pc, request>>
         /\ \A s \in Source : ~NewlyDispatched(s)
<1>. USE DEF IP!TypeOK, Elsewhere, NewlyDispatched, A!Goes, A!SourceOf, A!BodyOf
<1>1. CASE \E k \in Key : A!AnswerFromRegister(q, k) \/ \E s \in Source : A!Begin(q, k, Post(s))
  BY <1>1 DEF Ingests, A!AnswerFromRegister, A!Begin, A!vars
<1>2. CASE A!ReserveKnown(q) \/ A!ReserveInvalid(q) \/ A!AlreadyDispatched(q) \/ A!NotDispatchable(q)
  BY <1>2 DEF Ingests, A!ReserveKnown, A!ReserveInvalid, A!AlreadyDispatched, A!NotDispatchable
<1>3. CASE A!ReserveNew(q)
  BY <1>3 DEF Ingests, A!ReserveNew, A!Inserted
<1>4. CASE A!ExtractReturns(q) \/ A!ExtractRaises(q)
  <2>1. Elsewhere(q) /\ pc[q] # "dispatching"
    BY <1>4 DEF A!ExtractReturns, A!ExtractRaises
  <2>2. ASSUME NEW s \in Source PROVE ~NewlyDispatched(s)
    <3>1. signals[s] \in IP!SignalRow
      OBVIOUS
    <3>2. CASE signals' = [signals EXCEPT ![A!SourceOf(q)] = A!CompletedSignal(@)]
      BY <3>1, <3>2 DEF A!CompletedSignal, IP!SignalRow
    <3>3. CASE signals' = [signals EXCEPT ![A!SourceOf(q)] = A!FailedExtraction(@)]
      BY <3>1, <3>3 DEF A!FailedExtraction, IP!SignalRow
    <3>. QED
      BY <1>4, <3>2, <3>3 DEF A!ExtractReturns, A!ExtractRaises
  <2>. QED
    BY <1>4, <2>1, <2>2 DEF Ingests
<1>5. CASE A!ClaimDispatch(q)
  BY <1>5 DEF Ingests, A!ClaimDispatch, A!Claimed
<1>6. CASE A!Record(q) \/ A!Abort(q)
  BY <1>6 DEF Ingests, A!Record, A!Abort, A!Answers
<1>7. CASE A!StoreError(q) \/ A!StoreErrorInAbort(q)
  BY <1>7 DEF Ingests, A!StoreError, A!StoreErrorInAbort, A!Answers
<1>. QED
  BY <1>1, <1>2, <1>3, <1>4, <1>5, <1>6, <1>7 DEF Ingests

LEMMA HandsOverLocally ==
  ASSUME IP!TypeOK, NEW q \in Ingest, HandsOver(q)
  PROVE  /\ Elsewhere(q) /\ pc[q] = "dispatching"
         /\ Returns(q) \/ Raises(q)
         /\ \A s \in Source : NewlyDispatched(s) => s = A!SourceOf(q) /\ Returns(q)
<1>. USE DEF IP!TypeOK, Elsewhere, NewlyDispatched, A!Goes, A!SourceOf, A!BodyOf
<1>1. CASE A!DispatchReturns(q) /\ Returns(q)
  BY <1>1 DEF A!DispatchReturns, A!Dispatched
<1>2. CASE A!DispatchRaises(q) /\ Raises(q)
  BY <1>2 DEF A!DispatchRaises, A!Released
<1>3. CASE A!StoreErrorAfterDispatch(q) /\ (Returns(q) \/ Raises(q))
  BY <1>3 DEF A!StoreErrorAfterDispatch
<1>. QED
  BY <1>1, <1>2, <1>3 DEF HandsOver

LEMMA WaitInit == Init => HandoffsWait
  BY DEF Init, B!Init, HandoffsWait

LEMMA WaitStep == IP!TypeOK /\ CaseInv /\ HandoffsWait /\ [Next]_vars => HandoffsWait'
<1>. SUFFICES ASSUME IP!TypeOK, CaseInv, HandoffsWait, [Next]_vars PROVE HandoffsWait'
  OBVIOUS
<1>. USE DEF HandoffsWait
<1>1. ASSUME NEW q \in Ingest, Ingests(q) PROVE HandoffsWait'
  <2>1. UNCHANGED inflight /\ Elsewhere(q)
    BY <1>1, IngestsLocally DEF caseVars
  <2>2. pc[q] = "dispatching" => UNCHANGED pc /\ A!SourceOf(q)' = A!SourceOf(q)
    BY <1>1, IngestsLocally DEF A!SourceOf, A!BodyOf
  <2>. QED
    BY <2>1, <2>2 DEF Elsewhere, B!DispatchOf
<1>2. ASSUME NEW q \in Ingest, Awaits(q) PROVE HandoffsWait'
  <2>1. UNCHANGED pc /\ \A r \in Ingest : A!SourceOf(r)' = A!SourceOf(r)
    BY <1>2 DEF Awaits, signalVars, A!SourceOf, A!BodyOf
  <2>2. /\ pc[q] = "dispatching"
        /\ inflight'[q].key = HandoffKey(A!SourceOf(q))
        /\ inflight'[q].body = B!DispatchOf(A!SourceOf(q), RetrievedAt)
        /\ \A r \in Ingest : r # q => inflight'[r] = inflight[r]
    BY <1>2 DEF Awaits, B!StartDispatch, B!Awaits, CaseInv, StoreFits, CaseRequest
  <2>. QED
    BY <2>1, <2>2 DEF B!DispatchOf
<1>3. ASSUME NEW q \in Ingest, HandsOver(q) PROVE HandoffsWait'
  <2>1. Elsewhere(q) /\ (Returns(q) \/ Raises(q))
    BY <1>3, HandsOverLocally
  <2>2. inflight'[q] = None /\ \A r \in Ingest : r # q => inflight'[r] = inflight[r]
    <3>1. CASE inflight[q] = None /\ UNCHANGED inflight
      BY <3>1
    <3>2. CASE inflight' = [inflight EXCEPT ![q] = None]
      BY <3>2 DEF CaseInv, StoreFits, CaseRequest
    <3>. QED
      BY <2>1, <3>1, <3>2
      DEF Returns, Raises, caseVars, B!Retry, B!DispatchAssigned, B!AttachRepost, B!SaveDispatch,
          B!SavedMeanwhile, B!Fail, B!Ends
  <2>. QED
    BY <2>1, <2>2 DEF Elsewhere, B!DispatchOf
<1>4. CASE Crash
  BY <1>4 DEF Crash, B!Crash, CaseRequest
<1>5. ASSUME UNCHANGED signalVars, \A r \in Ingest : inflight'[r] = inflight[r] PROVE HandoffsWait'
  BY <1>5 DEF signalVars, A!SourceOf, A!BodyOf, B!DispatchOf
<1>6. ASSUME NEW d \in Client, inflight' = inflight \/ \E w : inflight' = [inflight EXCEPT ![d] = w]
      PROVE  \A r \in Ingest : inflight'[r] = inflight[r]
  BY <1>6 DEF CaseInv, StoreFits, CaseRequest
<1>7. ASSUME NEW d \in Client, NEW k \in CaseKey, NEW s \in Source,
             NEW t \in Replay,
             \/ Dispatches(d, k, s, t)
             \/ \E c \in Case, v \in Verdict : Advances(d, k, c, s, v, t)
      PROVE  HandoffsWait'
  <2>1. inflight' = inflight \/ \E w : inflight' = [inflight EXCEPT ![d] = w]
    BY <1>7 DEF Dispatches, Advances, B!DispatchAssigned, B!AttachRepost, B!StartDispatch,
                B!StartAdvance, B!Awaits
  <2>2. UNCHANGED signalVars
    BY <1>7 DEF Dispatches, Advances
  <2>. QED
    BY <1>5, <1>6, <2>1, <2>2
<1>8. ASSUME NEW d \in Client, Decided(d) PROVE HandoffsWait'
  <2>1. inflight' = [inflight EXCEPT ![d] = None]
    BY <1>8 DEF Decided, B!SaveDispatch, B!SaveAdvance, B!SavedMeanwhile, B!Fail, B!Ends
  <2>2. UNCHANGED signalVars
    BY <1>8 DEF Decided
  <2>. QED
    BY <1>5, <1>6, <2>1, <2>2
<1>9. CASE \/ \E k \in CaseKey : Retries(k)
           \/ \E s \in Source, v \in Verdict : Verifies(s, v)
           \/ NextDay
           \/ UNCHANGED vars
  BY <1>5, <1>9 DEF Retries, Verifies, NextDay, vars, caseVars, B!Retry, B!NewDay
<1>. QED
  BY <1>1, <1>2, <1>3, <1>4, <1>7, <1>8, <1>9 DEF Next

-----------------------------------------------------------------------------
(* A Signal is dispatched only when its Case exists and has been observed. *)

LEMMA ReturnsDeliver ==
  ASSUME IP!TypeOK, CaseInv, HandoffsWait, NEW r \in Ingest, pc[r] = "dispatching", Returns(r),
         NEW s \in Source, s = A!SourceOf(r)
  PROVE  links'[s] # None /\ cases'[links'[s]].version > 0 /\ observed'[links'[s]].version > 0
<1>1. HandoffKey(s) \in AnyKey /\ Fitting(HandoffKey(s), s) /\ r \in CaseRequest
  BY HandoffKeys DEF CaseRequest
<1>2. CaseInv'
  <2>1. CaseStep
    BY HandoffSteps
  <2>. QED
    BY <2>1, CaseFits
<1>3. links'[s] # None /\ observed'[links'[s]].version > 0
  <2>1. CASE B!Retry(HandoffKey(s))
    <3>1. links[s] = operations[HandoffKey(s)].case /\ links[s] \in Case /\ UNCHANGED links
      BY <1>1, <2>1 DEF B!Retry, B!Recorded, B!store, CaseInv, HandoffsRecorded, OperationsExist
    <3>. QED
      BY <1>1, <2>1, <3>1, RetryFits
  <2>2. CASE B!DispatchAssigned(HandoffKey(s), s, RetrievedAt)
    BY <1>1, <2>2, AssignedFits DEF Replay
  <2>3. CASE B!AttachRepost(HandoffKey(s), s, RetrievedAt, RetrievedAt, TRUE)
    BY <1>1, <2>3, RepostFits DEF Replay
  <2>4. ASSUME NEW c \in Case, B!SaveDispatch(r, c, RetrievedAt, TRUE)
        PROVE  links'[s] # None /\ observed'[links'[s]].version > 0
    <3>1. inflight[r].body.signal = s
      <4>1. inflight[r] # None
        BY <2>4 DEF B!SaveDispatch
      <4>2. inflight[r].body = B!DispatchOf(s, RetrievedAt)
        BY <4>1 DEF HandoffsWait
      <4>. QED
        BY <4>2 DEF B!DispatchOf
    <3>. QED
      BY <1>1, <2>4, <3>1, SavedDispatchFits
  <2>5. CASE B!SavedMeanwhile(r, RetrievedAt, TRUE)
    <3>1. inflight[r].key = HandoffKey(s)
      BY <2>5 DEF B!SavedMeanwhile, HandoffsWait
    <3>2. Ending(r)
      BY <2>5 DEF Ending
    <3>3. /\ operations[HandoffKey(s)] # None /\ UNCHANGED links
          /\ observed'[operations[HandoffKey(s)].case].version > 0
      BY <1>1, <2>5, <3>1, <3>2, EndFits
    <3>4. links[s] = operations[HandoffKey(s)].case /\ links[s] \in Case
      BY <1>1, <3>3 DEF CaseInv, HandoffsRecorded, OperationsExist
    <3>. QED
      BY <3>3, <3>4
  <2>. QED
    BY <2>1, <2>2, <2>3, <2>4, <2>5 DEF Returns
<1>. QED
  BY <1>2, <1>3 DEF CaseInv, LinksExist

DeskInv == IP!TypeOK /\ CaseInv /\ HandoffsWait /\ HandoffIsTrue

LEMMA DeskInit == Init => CaseInv /\ HandoffsWait /\ HandoffIsTrue
  BY CaseInit, WaitInit DEF Init, A!Init, A!NoSignal, HandoffIsTrue

LEMMA DeskStep == DeskInv /\ [Next]_vars => CaseInv' /\ HandoffsWait' /\ HandoffIsTrue'
<1>. SUFFICES ASSUME DeskInv, [Next]_vars PROVE CaseInv' /\ HandoffsWait' /\ HandoffIsTrue'
  OBVIOUS
<1>1. CaseInv' /\ Grows
  BY CaseSteps, CaseFits DEF DeskInv
<1>2. HandoffsWait'
  BY WaitStep DEF DeskInv
<1>3. ASSUME NEW s \in Source, signals'[s].dispatch = "dispatched"
      PROVE  links'[s] # None /\ cases'[links'[s]].version > 0 /\ observed'[links'[s]].version > 0
  <2>1. CASE signals[s].dispatch = "dispatched"
    <3>1. links[s] # None /\ cases[links[s]].version > 0 /\ observed[links[s]].version > 0
      BY <2>1 DEF DeskInv, HandoffIsTrue
    <3>. QED
      BY <1>1, <3>1 DEF Grows, ObservedGrows, DeskInv, CaseInv, StoreFits
  <2>2. CASE NewlyDispatched(s)
    <3>1. PICK q \in Ingest : Ingests(q) \/ HandsOver(q)
      <4>1. UNCHANGED signals => FALSE
        BY <2>2 DEF NewlyDispatched
      <4>. QED
        BY <4>1 DEF Next, vars, signalVars, Awaits, Dispatches, Advances, Decided, Retries,
                    Verifies, NextDay, Crash, A!Crash
    <3>2. HandsOver(q)
      BY <2>2, <3>1, IngestsLocally DEF DeskInv
    <3>3. pc[q] = "dispatching" /\ s = A!SourceOf(q) /\ Returns(q)
      BY <2>2, <3>2, HandsOverLocally DEF DeskInv
    <3>. QED
      BY <3>3, ReturnsDeliver DEF DeskInv
  <2>. QED
    BY <1>3, <2>1, <2>2 DEF NewlyDispatched
<1>. QED
  BY <1>1, <1>2, <1>3 DEF HandoffIsTrue

\* A Signal that A has marked dispatched is in a Case that exists and has been
\* observed, whatever fails in A, in B or in between, and whatever clients of
\* the Case endpoints do meanwhile.
THEOREM HandoffsAreTrue == Spec => []HandoffIsTrue
<1>1. Spec => []IP!TypeOK
  BY HandoffsStayUnique, PTL
<1>. QED
  BY <1>1, DeskInit, DeskStep, PTL DEF Spec, DeskInv

-----------------------------------------------------------------------------
(* What a pending decision is made from, compared with what stands. *)

PendingKnown ==
  \A r \in CaseRequest :
    LET w == inflight[r] IN
      w # None =>
        /\ w.body.op = "dispatch" => w.body.signal \in w.claims \cup early
        /\ w.body.op = "advance" =>
             /\ w.body.version \in Nat /\ w.body.version <= cases[w.body.case].version
             /\ w.body.version = cases[w.body.case].version => w.claims = cases[w.body.case].claims

\* Either the Case has been revised since an update was read, or A has held
\* the update since the Case was last revised.
VerdictKnown ==
  \A d \in Client :
    LET w == inflight[d] IN
      IsAdvance(w) => w.body.version < cases[w.body.case].version \/ w.body.verdict \in held[d]

ClaimsKnown == \A s \in Report : links[s] # None => s \in cases[links[s]].claims \cup early

RecordInv == DOMAIN revisions = Case /\ PendingKnown /\ VerdictKnown /\ ClaimsKnown

\* What a step remembers.
Recall ==
  /\ early \subseteq early'
  /\ \A r \in CaseRequest : inflight[r] = None /\ inflight'[r] # None =>
       LET b == inflight'[r].body IN
         b.op = "dispatch" /\ b.signal \in Report /\ ~IsAnalysed(b.signal) => b.signal \in early'
  /\ \A d \in Client : IsAdvance(inflight'[d]) =>
       LET b == inflight'[d].body IN
         /\ inflight[d] = None => verdict'[b.claim] \in held'[d]
         /\ inflight[d] # None /\ revisions'[b.case] = revisions[b.case] => held[d] \subseteq held'[d]

LEMMA Recalls == DOMAIN inflight' = CaseRequest /\ [Next]_vars => Recall
<1>. SUFFICES ASSUME DOMAIN inflight' = CaseRequest, [Next]_vars PROVE Recall
  OBVIOUS
<1>1. CASE Remembers
  <2>1. /\ early \subseteq early'
        /\ \A r \in CaseRequest : inflight[r] = None /\ inflight'[r] # None =>
             LET b == inflight'[r].body IN
               b.op = "dispatch" /\ b.signal \in Report /\ ~IsAnalysed(b.signal) => b.signal \in early'
    BY <1>1 DEF Remembers
  <2>2. ASSUME NEW d \in Client, IsAdvance(inflight'[d])
        PROVE  LET b == inflight'[d].body IN
                 /\ inflight[d] = None => verdict'[b.claim] \in held'[d]
                 /\ inflight[d] # None /\ revisions'[b.case] = revisions[b.case] => held[d] \subseteq held'[d]
    <3>1. held'[d] = IF inflight[d] = None \/ revisions'[inflight'[d].body.case] # revisions[inflight'[d].body.case]
                     THEN {verdict'[inflight'[d].body.claim]}
                     ELSE held[d] \cup {verdict'[inflight'[d].body.claim]}
      BY <1>1, <2>2 DEF Remembers
    <3>. QED
      BY <3>1
  <2>. QED
    BY <2>1, <2>2 DEF Recall
<1>2. CASE UNCHANGED vars
  BY <1>2 DEF vars, caseVars, Recall, IsAdvance
<1>. QED
  BY <1>1, <1>2 DEF Next

\* A request begins to wait, waits or ends.
LEMMA Waits ==
  ASSUME CaseInv, CaseStep, NEW r \in CaseRequest
  PROVE  \/ inflight'[r] = inflight[r]
         \/ inflight'[r] = None
         \/ inflight[r] = None /\ \E k \in AnyKey : Starting(r, k)
<1>1. CASE \/ UNCHANGED caseVars
           \/ \E k \in AnyKey : B!Retry(k)
           \/ \E k \in AnyKey, s \in Source : Fitting(k, s) /\ Answering(k, s)
           \/ B!NewDay
  <2>1. UNCHANGED inflight
    BY <1>1 DEF caseVars, B!Retry, Answering, B!DispatchAssigned, B!AttachRepost, B!NewDay
  <2>. QED
    BY <2>1
<1>2. ASSUME NEW q \in CaseRequest, NEW k \in AnyKey, Starting(q, k)
      PROVE  inflight'[r] = inflight[r] \/ (inflight[r] = None /\ Starting(r, k))
  <2>1. CASE q = r
    BY <1>2, <2>1 DEF Starting, B!StartDispatch, B!StartAdvance, B!Awaits
  <2>2. CASE q # r
    BY <1>2, <2>2, StartFits
  <2>. QED
    BY <2>1, <2>2
<1>3. CASE \E q \in CaseRequest : Saving(q) \/ Ending(q)
  BY <1>3, SavedDispatchFits, SavedAdvanceFits, EndFits DEF Saving, EndsOnly
<1>4. CASE B!Crash
  BY <1>4 DEF B!Crash, CaseRequest
<1>. QED
  BY <1>1, <1>2, <1>3, <1>4 DEF CaseStep

\* Cases are revised, and reports linked, when a decision is saved.
LEMMA Changes ==
  ASSUME CaseInv, CaseStep
  PROVE  \/ UNCHANGED <<cases, revisions>> /\ \A s \in Report : links'[s] = links[s]
         \/ \E r \in CaseRequest : Saving(r) /\ EndsOnly(r)
<1>1. CASE \/ UNCHANGED caseVars
           \/ \E k \in AnyKey : B!Retry(k)
           \/ \E r \in CaseRequest, k \in AnyKey : Starting(r, k)
           \/ \E r \in CaseRequest : Ending(r)
           \/ B!NewDay
           \/ B!Crash
  <2>1. CASE \E r \in CaseRequest : Ending(r)
    BY <2>1 DEF Ending, B!SavedMeanwhile, B!Fail, B!store
  <2>2. CASE \E r \in CaseRequest, k \in AnyKey : Starting(r, k)
    BY <2>2 DEF Starting, B!StartDispatch, B!StartAdvance, B!Awaits, B!store
  <2>3. CASE UNCHANGED caseVars \/ B!NewDay \/ B!Crash \/ \E k \in AnyKey : B!Retry(k)
    BY <2>3 DEF caseVars, B!Retry, B!NewDay, B!Crash, B!store
  <2>. QED
    BY <1>1, <2>1, <2>2, <2>3
<1>2. ASSUME NEW k \in AnyKey, NEW s \in Source, Answering(k, s)
      PROVE  UNCHANGED <<cases, revisions>> /\ \A x \in Report : links'[x] = links[x]
  <2>1. CASE \E t \in Replay : B!DispatchAssigned(k, s, t)
    BY <2>1 DEF B!DispatchAssigned, B!store
  <2>2. CASE \E t \in Replay, done \in BOOLEAN : B!AttachRepost(k, s, t, RetrievedAt, done)
    <3>1. /\ UNCHANGED <<cases, revisions>> /\ Original[s] # None
          /\ links' = [links EXCEPT ![s] = links[Original[s]]]
      BY <2>2 DEF B!AttachRepost
    <3>. QED
      BY <3>1 DEF Report, CaseInv, StoreFits
  <2>. QED
    BY <1>2, <2>1, <2>2 DEF Answering
<1>3. CASE \E r \in CaseRequest : Saving(r)
  BY <1>3, SavedDispatchFits, SavedAdvanceFits DEF Saving
<1>. QED
  BY <1>1, <1>2, <1>3 DEF CaseStep

\* A saved decision revises one Case, which loses no Claim.
RevisesOne(c) ==
  /\ DOMAIN revisions' = Case
  /\ cases'[c].version = cases[c].version + 1
  /\ cases[c].claims \subseteq cases'[c].claims
  /\ \A d \in Case : d # c => cases'[d] = cases[d] /\ revisions'[d] = revisions[d]
  /\ \A s \in Source : links'[s] = links[s] \/ (links'[s] = c /\ s \in cases'[c].claims \cup early)

LEMMA SavesOne ==
  ASSUME CaseInv, RecordInv, NEW r \in CaseRequest, Saving(r)
  PROVE  \E c \in Case : RevisesOne(c)
<1> DEFINE w == inflight[r]
<1>1. ASSUME NEW c \in Case,
             NEW done \in BOOLEAN, B!SaveDispatch(r, c, RetrievedAt, done) PROVE RevisesOne(c)
  <2> DEFINE new == [version |-> cases[c].version + 1, claims |-> cases[c].claims \cup w.claims,
                     basis |-> w.seen[c]]
  <2>1. /\ w # None /\ w.body.op = "dispatch"
        /\ cases' = [cases EXCEPT ![c] = new]
        /\ revisions' = [revisions EXCEPT ![c] = Append(@, new)]
        /\ links' = [links EXCEPT ![w.body.signal] = c]
    BY <1>1 DEF B!SaveDispatch, B!Revises, B!Covers
  <2>2. w.body.signal \in w.claims \cup early
    BY <2>1 DEF RecordInv, PendingKnown
  <2>3. cases'[c] = new /\ \A d \in Case : d # c => cases'[d] = cases[d] /\ revisions'[d] = revisions[d]
    BY <2>1 DEF RecordInv, CaseInv, StoreFits
  <2>4. \A s \in Source : links'[s] = links[s] \/ (links'[s] = c /\ s = w.body.signal)
    BY <2>1 DEF CaseInv, StoreFits
  <2>5. DOMAIN revisions' = Case
    BY <2>1 DEF RecordInv
  <2>. QED
    BY <2>2, <2>3, <2>4, <2>5 DEF RevisesOne
<1>2. ASSUME NEW done \in BOOLEAN, B!SaveAdvance(r, RetrievedAt, done) PROVE \E c \in Case : RevisesOne(c)
  <2> DEFINE c == w.body.case
             new == [version |-> w.body.version + 1, claims |-> w.claims, basis |-> w.body.version]
  <2>1. /\ w # None /\ w.body.op = "advance" /\ cases[c].version = w.body.version
        /\ cases' = [cases EXCEPT ![c] = new]
        /\ revisions' = [revisions EXCEPT ![c] = Append(@, new)]
        /\ UNCHANGED links
    BY <1>2 DEF B!SaveAdvance, B!Revises, B!VersionIs
  <2>2. c \in Case /\ w.claims = cases[c].claims
    BY <2>1 DEF RecordInv, PendingKnown, CaseInv, WaitingFits, WaitsFor
  <2>3. cases'[c] = new /\ \A d \in Case : d # c => cases'[d] = cases[d] /\ revisions'[d] = revisions[d]
    BY <2>1, <2>2 DEF RecordInv, CaseInv, StoreFits
  <2>4. DOMAIN revisions' = Case
    BY <2>1 DEF RecordInv
  <2>5. cases'[c].version = cases[c].version + 1 /\ cases'[c].claims = cases[c].claims
    <3>1. new.version = cases[c].version + 1 /\ new.claims = cases[c].claims
      BY <2>1, <2>2
    <3>. HIDE DEF new, c
    <3>. QED
      BY <3>1, <2>3
  <2>6. links' = links
    BY <2>1
  <2>. HIDE DEF c, new
  <2>7. RevisesOne(c)
    BY <2>3, <2>4, <2>5, <2>6 DEF RevisesOne
  <2>. QED
    BY <2>2, <2>7
<1>. QED
  BY <1>1, <1>2 DEF Saving

\* How a step changes what is waited for and what stands, as far as the
\* invariant tells.
LEMMA Revising ==
  ASSUME CaseInv, RecordInv, CaseStep
  PROVE  /\ DOMAIN revisions' = Case
         /\ \A c \in Case : \/ cases'[c] = cases[c] /\ revisions'[c] = revisions[c]
                            \/ cases'[c].version = cases[c].version + 1
         /\ \A c \in Case : cases[c].claims \subseteq cases'[c].claims
         /\ \A s \in Report : \/ links'[s] = links[s]
                              \/ links'[s] \in Case /\ s \in cases'[links'[s]].claims \cup early
<1>1. CASE UNCHANGED <<cases, revisions>> /\ \A s \in Report : links'[s] = links[s]
  BY <1>1 DEF RecordInv
<1>2. CASE \E c \in Case : RevisesOne(c)
  BY <1>2 DEF RevisesOne, Report
<1>. QED
  BY <1>1, <1>2, Changes, SavesOne

LEMMA RecordInit == Init => RecordInv
<1>. SUFFICES ASSUME Init PROVE RecordInv
  OBVIOUS
<1>1. /\ DOMAIN revisions = Case
      /\ \A r \in CaseRequest : inflight[r] = None
      /\ \A s \in Source : links[s] = None
  BY DEF Init, B!Init, CaseRequest
<1>. QED
  BY <1>1 DEF RecordInv, PendingKnown, VerdictKnown, ClaimsKnown, IsAdvance, CaseRequest, Report

LEMMA RecordStep ==
  ASSUME CaseInv, CaseInv', RecordInv, CaseStep, Recall
  PROVE  RecordInv'
<1>1. early \subseteq early'
  BY DEF Recall
<1>2. ClaimsKnown'
  <2>1. ASSUME NEW s \in Report, links'[s] # None
        PROVE  s \in cases'[links'[s]].claims \cup early'
    <3>1. CASE links'[s] = links[s]
      <4>1. links[s] \in Case /\ s \in cases[links[s]].claims \cup early
        BY <2>1, <3>1 DEF RecordInv, ClaimsKnown, CaseInv, StoreFits, Report
      <4>. QED
        BY <1>1, <3>1, <4>1, Revising
    <3>2. CASE links'[s] # links[s]
      BY <1>1, <3>2, Revising
    <3>. QED
      BY <3>1, <3>2
  <2>. QED
    BY <2>1 DEF ClaimsKnown
<1>3. ASSUME NEW r \in CaseRequest, inflight[r] = None, inflight'[r] # None
      PROVE  LET w == inflight'[r] IN
               /\ UNCHANGED cases
               /\ w.body.op = "dispatch" => w.body.signal \in w.claims \cup early'
               /\ w.body.op = "advance" =>
                    /\ w.body.version = cases[w.body.case].version
                    /\ w.claims = cases[w.body.case].claims
                    /\ verdict'[w.body.claim] = w.body.verdict
  <2>1. PICK k \in AnyKey : Starting(r, k)
    BY <1>3, Waits
  <2>2. UNCHANGED cases
    BY <2>1 DEF Starting, B!StartDispatch, B!StartAdvance, B!Awaits, B!store
  <2>3. CASE \E s \in Source, t \in Replay : B!StartDispatch(r, k, s, ClaimsOf(s), t)
    <3>1. PICK s \in Source, t \in Replay : B!StartDispatch(r, k, s, ClaimsOf(s), t)
      BY <2>3
    <3>2. /\ s \in Report /\ inflight'[r].claims = ClaimsOf(s)
          /\ inflight'[r].body = [op |-> "dispatch", signal |-> s, at |-> t]
      BY <3>1 DEF B!StartDispatch, B!Awaits, B!DispatchOf, Report, CaseInv, StoreFits, B!Report
    <3>3. IsAnalysed(s) => s \in inflight'[r].claims
      BY <3>2 DEF ClaimsOf
    <3>4. ~IsAnalysed(s) => s \in early'
      BY <1>3, <3>2 DEF Recall
    <3>. QED
      BY <2>2, <3>2, <3>3, <3>4
  <2>4. CASE /\ \E c \in Case, s \in Source, v \in Verdict, t \in Replay :
                  Matches(s, v) /\ B!StartAdvance(r, k, c, s, v, t)
             /\ UNCHANGED verdict
    <3>1. PICK c \in Case, s \in Source, v \in Verdict, t \in Replay :
            Matches(s, v) /\ B!StartAdvance(r, k, c, s, v, t)
      BY <2>4
    <3>2. /\ inflight'[r].claims = cases[c].claims
          /\ inflight'[r].body = [op |-> "advance", case |-> c, version |-> cases[c].version,
                                  claim |-> s, verdict |-> v, at |-> t]
      BY <3>1 DEF B!StartAdvance, B!Awaits, CaseInv, StoreFits
    <3>3. verdict'[s] = v
      BY <2>4, <3>1 DEF Matches
    <3>. QED
      BY <2>2, <3>2, <3>3
  <2>. QED
    BY <2>1, <2>3, <2>4 DEF Starting
<1>4. ASSUME NEW r \in CaseRequest, inflight'[r] # None, inflight'[r].body.op = "advance"
      PROVE  inflight'[r].body.case \in Case
  BY <1>4 DEF CaseInv, WaitingFits, WaitsFor
<1>5. PendingKnown'
  <2>1. ASSUME NEW r \in CaseRequest, inflight'[r] # None
        PROVE  LET w == inflight'[r] IN
                 /\ w.body.op = "dispatch" => w.body.signal \in w.claims \cup early'
                 /\ w.body.op = "advance" =>
                      /\ w.body.version \in Nat /\ w.body.version <= cases'[w.body.case].version
                      /\ w.body.version = cases'[w.body.case].version =>
                           w.claims = cases'[w.body.case].claims
    <3> DEFINE w == inflight'[r]
    <3>1. CASE inflight[r] = None
      <4>1. w.body.op = "advance" => cases[w.body.case].version \in Nat
        BY <1>4, <2>1 DEF CaseInv, StoreFits
      <4>. QED
        BY <1>3, <2>1, <3>1, <4>1
    <3>2. CASE w = inflight[r]
      <4>1. w.body.op = "dispatch" => w.body.signal \in w.claims \cup early'
        BY <1>1, <2>1, <3>2 DEF RecordInv, PendingKnown
      <4>2. ASSUME w.body.op = "advance"
            PROVE  /\ w.body.version \in Nat /\ w.body.version <= cases'[w.body.case].version
                   /\ w.body.version = cases'[w.body.case].version =>
                        w.claims = cases'[w.body.case].claims
        <5>1. w.body.case \in Case
          BY <1>4, <2>1, <4>2
        <5>2. /\ w.body.version \in Nat /\ w.body.version <= cases[w.body.case].version
              /\ w.body.version = cases[w.body.case].version => w.claims = cases[w.body.case].claims
          BY <2>1, <3>2, <4>2 DEF RecordInv, PendingKnown
        <5>3. \/ cases'[w.body.case] = cases[w.body.case]
              \/ cases'[w.body.case].version = cases[w.body.case].version + 1
          BY <5>1, Revising
        <5>4. cases[w.body.case].version \in Nat
          BY <5>1 DEF CaseInv, StoreFits
        <5>. HIDE DEF w
        <5>. QED
          BY <5>2, <5>3, <5>4
      <4>. QED
        BY <4>1, <4>2
    <3>. QED
      BY <2>1, <3>1, <3>2, Waits
  <2>. QED
    BY <2>1 DEF PendingKnown
<1>6. VerdictKnown'
  <2>1. ASSUME NEW d \in Client, IsAdvance(inflight'[d])
        PROVE  LET w == inflight'[d] IN
                 w.body.version < cases'[w.body.case].version \/ w.body.verdict \in held'[d]
    <3> DEFINE w == inflight'[d]
    <3>1. w # None /\ w.body.op = "advance" /\ d \in CaseRequest
      BY <2>1 DEF IsAdvance, CaseRequest
    <3>2. CASE inflight[d] = None
      BY <1>3, <2>1, <3>1, <3>2 DEF Recall
    <3>3. CASE w = inflight[d]
      <4> DEFINE c == w.body.case
      <4>1. c \in Case
        BY <1>4, <3>1
      <4>2. /\ w.body.version < cases[c].version \/ w.body.verdict \in held[d]
            /\ w.body.version \in Nat /\ w.body.version <= cases[c].version
        BY <2>1, <3>1, <3>3 DEF RecordInv, VerdictKnown, PendingKnown
      <4>3. \/ cases'[c] = cases[c] /\ revisions'[c] = revisions[c]
            \/ cases'[c].version = cases[c].version + 1
        BY <4>1, Revising
      <4>4. revisions'[c] = revisions[c] => held[d] \subseteq held'[d]
        BY <2>1, <3>1, <3>3 DEF Recall
      <4>5. cases[c].version \in Nat
        BY <4>1 DEF CaseInv, StoreFits
      <4>. HIDE DEF w, c
      <4>6. w.body.version < cases'[c].version \/ w.body.verdict \in held'[d]
        BY <4>2, <4>3, <4>4, <4>5
      <4>. QED
        BY <4>6 DEF w, c
    <3>. QED
      BY <3>1, <3>2, <3>3, Waits
  <2>. QED
    BY <2>1 DEF VerdictKnown
<1>. QED
  BY <1>2, <1>5, <1>6, Revising DEF RecordInv

-----------------------------------------------------------------------------
FullInv == IP!TypeOK /\ CaseInv /\ RecordInv

LEMMA FullStep == FullInv /\ [Next]_vars => CaseInv' /\ RecordInv'
<1>. SUFFICES ASSUME FullInv, [Next]_vars PROVE CaseInv' /\ RecordInv'
  OBVIOUS
<1>1. CaseStep /\ CaseInv'
  BY CaseSteps, CaseFits DEF FullInv
<1>2. Recall
  BY <1>1, Recalls DEF CaseInv, StoreFits
<1>. QED
  BY <1>1, <1>2, RecordStep DEF FullInv

LEMMA FullInvariant == Spec => []FullInv
<1>1. Spec => []IP!TypeOK
  BY HandoffsStayUnique, PTL
<1>. QED
  BY <1>1, CaseInit, RecordInit, FullStep, PTL DEF Spec, FullInv

\* An analysed Signal's Case covers its Claim unless B read the Signal before
\* it was analysed: no decision that was pending meanwhile drops a Claim.
THEOREM MissesAreEarly == Spec => []MissesOnlyEarly
<1>1. FullInv => MissesOnlyEarly
  BY DEF FullInv, RecordInv, ClaimsKnown, MissesOnlyEarly
<1>. QED
  BY <1>1, FullInvariant, PTL

\* An advance that revises a Case records an update that A has held since the
\* Case was last revised, though the Claim may be verified during the await.
THEOREM UpdatesStayRecent == Spec => UpdatesAreRecent
<1> DEFINE Recent ==
      \A d \in Client :
        LET w == inflight[d] IN
          /\ IsAdvance(w) /\ inflight'[d] = None
          /\ revisions'[w.body.case] # revisions[w.body.case]
          => w.body.verdict \in held[d]
<1>1. FullInv /\ [Next]_vars => Recent
  <2>. SUFFICES ASSUME FullInv, [Next]_vars, NEW d \in Client, IsAdvance(inflight[d]),
                       inflight'[d] = None,
                       revisions'[inflight[d].body.case] # revisions[inflight[d].body.case]
                PROVE  inflight[d].body.verdict \in held[d]
    OBVIOUS
  <2>1. PICK r \in CaseRequest : Saving(r) /\ EndsOnly(r)
    BY CaseSteps, Changes DEF FullInv
  <2>2. d \in CaseRequest /\ inflight[d] # None /\ inflight[d].body.op = "advance"
    BY DEF IsAdvance, CaseRequest
  <2>3. r = d
    BY <2>1, <2>2 DEF EndsOnly
  <2>4. cases[inflight[d].body.case].version = inflight[d].body.version
    BY <2>1, <2>2, <2>3 DEF Saving, B!SaveDispatch, B!SaveAdvance, B!VersionIs
  <2>5. inflight[d].body.version \in Nat
    BY <2>2 DEF FullInv, RecordInv, PendingKnown
  <2>6. \/ inflight[d].body.version < cases[inflight[d].body.case].version
        \/ inflight[d].body.verdict \in held[d]
    BY DEF FullInv, RecordInv, VerdictKnown
  <2>. QED
    BY <2>4, <2>5, <2>6
<1>2. FullInv /\ [Next]_vars => [Recent]_vars
  BY <1>1
<1>3. Spec => [][Recent]_vars
  BY <1>2, FullInvariant, PTL DEF Spec
<1>. QED
  BY <1>3 DEF UpdatesAreRecent
=============================================================================
