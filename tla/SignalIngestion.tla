--------------------------- MODULE SignalIngestion ---------------------------
(***************************************************************************)
(* POST /api/v1/signals/ingest: SignalAPI.ingest (app/signal_api.py) over  *)
(* SQLiteSignalStore (app/signal_store.py).                                *)
(*                                                                         *)
(* A request is a coroutine.  One action is one database transaction with  *)
(* the code around it up to the next one, so requests interleave between   *)
(* any two transactions, and while one awaits the extractor or the Case    *)
(* dispatcher.  (One event loop interleaves them only at the awaits; the   *)
(* store's BEGIN IMMEDIATE is what serialises callers, and several         *)
(* processes may share the file.)  A database error may end any            *)
(* transaction; a restart loses every request and keeps the tables.        *)
(***************************************************************************)
EXTENDS Naturals, RequestIdempotency

CONSTANTS Request,   \* the ingestion requests that may run at the same time
          Source,    \* (provider, source_id) pairs; each is also its Signal's identity
          Body,      \* the request bodies clients send
          Faults     \* which faults may happen: "crash", "store_error"

\* "report" stands for original, independent_report and unknown, which the
\* code does not tell apart.
ASSUME BodyAssumption ==
  /\ Body \subseteq [source : Source, relation : {"report", "repost"},
                     original : Source \cup {None}]
  /\ None \notin Source \cup Body

ASSUME FaultsAssumption == Faults \subseteq {"crash", "store_error"}

VARIABLES rows,         \* request_idempotency, operation "signals.ingest"
          signals,      \* the tables signals and source_idempotency
          pc,           \* what each request does next
          request,      \* the key and body each running request was sent with
          extractions,  \* history: extractor calls made for each source
          handoffs      \* history: dispatcher calls that returned normally

store == <<rows, signals>>
vars == <<rows, signals, pc, request, extractions, handoffs>>

Ingestion == {"absent", "reserved", "completed", "extraction_failed"}
Dispatch == {"not_ready", "pending", "in_progress", "dispatched"}

Place == {"idle", "reserving", "extracting", "claiming", "dispatching",
          "recording", "aborting"}

SignalRow == [ingestion : Ingestion, dispatch : Dispatch, original : Source \cup {None}]

NoSignal == [ingestion |-> "absent", dispatch |-> "not_ready", original |-> None]

NoRequest == [key |-> None, body |-> None]

TypeOK ==
  /\ rows \in RegisterOver(Body, Source)
  /\ signals \in [Source -> SignalRow]
  /\ pc \in [Request -> Place]
  /\ request \in [Request -> [key : Key \cup {None}, body : Body \cup {None}]]
  /\ \A r \in Request : pc[r] # "idle" => request[r] \in [key : Key, body : Body]
  /\ extractions \in [Source -> Nat]
  /\ handoffs \in [Source -> Nat]

Init ==
  /\ rows = EmptyRegister
  /\ signals = [s \in Source |-> NoSignal]
  /\ pc = [r \in Request |-> "idle"]
  /\ request = [r \in Request |-> NoRequest]
  /\ extractions = [s \in Source |-> 0]
  /\ handoffs = [s \in Source |-> 0]

-----------------------------------------------------------------------------
\* Helpers.

KeyOf(r) == request[r].key
BodyOf(r) == request[r].body
SourceOf(r) == BodyOf(r).source

Goes(r, place) == pc' = [pc EXCEPT ![r] = place]

\* The request is answered and its coroutine ends.
Answers(r) ==
  /\ Goes(r, "idle")
  /\ request' = [request EXCEPT ![r] = NoRequest]

\* Mutant: a source whose extraction failed is taken for a new one.
IsAnalysedOrReserved(s) == signals[s].ingestion \in {"reserved", "completed"}

\* The lookup of reserve_source in source_idempotency.
IsPresent(s) == signals[s].ingestion # "absent"

\* Mutant: the repost's target is not checked to be an original.
AnyKnownTarget(b) ==
  IF b.relation = "repost"
  THEN b.original # None /\ IsPresent(b.original)
  ELSE b.original = None

\* reserve_source: a repost must name an original that is already known and
\* is not itself a repost, and nothing else may name one.
ValidRelation(b) ==
  IF b.relation = "repost"
  THEN /\ b.original # None
       /\ IsPresent(b.original)
       /\ signals[b.original].original = None
  ELSE b.original = None

\* The row reserve_source inserts.
Inserted(b) ==
  IF b.relation = "repost"
  THEN [ingestion |-> "completed", dispatch |-> "pending", original |-> b.original]
  ELSE [ingestion |-> "reserved", dispatch |-> "not_ready", original |-> None]

\* The effect of complete_signal and fail_extraction on the signal row; each
\* raises for a row outside the states it names.
MayAnalyse(row) == row.ingestion \in {"reserved", "completed"}

CompletedSignal(row) ==
  IF row.ingestion = "reserved"
  THEN [row EXCEPT !.ingestion = "completed", !.dispatch = "pending"]
  ELSE row

FailedExtraction(row) ==
  IF row.ingestion = "reserved"
  THEN [row EXCEPT !.ingestion = "extraction_failed"]
  ELSE row

\* Mutants: a handoff that another caller has claimed is claimed again; the
\* ingestion status is not checked.
MayDispatchClaimed(row) ==
  row.ingestion = "completed" /\ row.dispatch \in {"pending", "in_progress"}
MayDispatchUnanalysed(row) == row.dispatch \in {"not_ready", "pending"}

\* begin_dispatch gives the handoff to this caller.
MayDispatch(row) == row.ingestion = "completed" /\ row.dispatch = "pending"

\* Mutant: a handoff under way counts as done.
IsDispatchedOrClaimed(row) ==
  row.ingestion = "completed" /\ row.dispatch \in {"in_progress", "dispatched"}

Claimed(row) == [row EXCEPT !.dispatch = "in_progress"]

\* begin_dispatch finds nothing left to do.
IsDispatched(row) == row.ingestion = "completed" /\ row.dispatch = "dispatched"

\* complete_dispatch and abort_dispatch; complete_dispatch raises for a row
\* nobody is dispatching.
MayFinish(row) == row.dispatch \in {"in_progress", "dispatched"}

\* Mutant: complete_dispatch writes the word of the other status column.
DispatchedMisspelt(row) ==
  IF row.dispatch = "in_progress" THEN [row EXCEPT !.dispatch = "completed"] ELSE row

Dispatched(row) ==
  IF row.dispatch = "in_progress" THEN [row EXCEPT !.dispatch = "dispatched"] ELSE row

Released(row) ==
  IF row.dispatch = "in_progress" THEN [row EXCEPT !.dispatch = "pending"] ELSE row

-----------------------------------------------------------------------------
\* SignalAPI.ingest, in the order of its transactions.

\* _begin reserves the key for this body.
Begin(r, k, b) ==
  /\ pc[r] = "idle"
  /\ MayBegin(rows, k)
  /\ rows' = Begun(rows, k, b)
  /\ request' = [request EXCEPT ![r] = [key |-> k, body |-> b]]
  /\ Goes(r, "reserving")
  /\ UNCHANGED <<signals, extractions, handoffs>>

\* _begin finds the key in use: the stored answer, idempotency_in_progress or
\* idempotency_key_reused, and nothing is written.
AnswerFromRegister(r, k) ==
  /\ pc[r] = "idle"
  /\ ~MayBegin(rows, k)
  /\ UNCHANGED vars

\* reserve_source: the source is known already, and is left as it is.
ReserveKnown(r) ==
  /\ pc[r] = "reserving"
  /\ IsPresent(SourceOf(r))
  /\ Goes(r, "claiming")
  /\ UNCHANGED <<rows, signals, request, extractions, handoffs>>

\* reserve_source inserts the Signal; the extractor is called unless it is a
\* pure repost.
ReserveNew(r) ==
  /\ pc[r] = "reserving"
  /\ ~IsPresent(SourceOf(r))
  /\ ValidRelation(BodyOf(r))
  /\ signals' = [signals EXCEPT ![SourceOf(r)] = Inserted(BodyOf(r))]
  /\ IF BodyOf(r).relation = "repost"
     THEN Goes(r, "claiming") /\ UNCHANGED extractions
     ELSE /\ Goes(r, "extracting")
          /\ extractions' = [extractions EXCEPT ![SourceOf(r)] = @ + 1]
  /\ UNCHANGED <<rows, request, handoffs>>

\* reserve_source raises InvalidIngestionState.
ReserveInvalid(r) ==
  /\ pc[r] = "reserving"
  /\ ~IsPresent(SourceOf(r))
  /\ ~ValidRelation(BodyOf(r))
  /\ Goes(r, "aborting")
  /\ UNCHANGED <<rows, signals, request, extractions, handoffs>>

\* The extractor returns Claims, and complete_signal stores them.
ExtractReturns(r) ==
  /\ pc[r] = "extracting"
  /\ signals' = [signals EXCEPT ![SourceOf(r)] = CompletedSignal(@)]
  /\ Goes(r, IF MayAnalyse(signals[SourceOf(r)]) THEN "claiming" ELSE "aborting")
  /\ UNCHANGED <<rows, request, extractions, handoffs>>

\* Mutant: the failure of the extractor is not recorded.
ExtractRaisesUnrecorded(r) ==
  /\ pc[r] = "extracting"
  /\ Goes(r, "aborting")
  /\ UNCHANGED <<rows, signals, request, extractions, handoffs>>

\* The extractor raises, and fail_extraction retains the Signal.
ExtractRaises(r) ==
  /\ pc[r] = "extracting"
  /\ signals' = [signals EXCEPT ![SourceOf(r)] = FailedExtraction(@)]
  /\ Goes(r, "aborting")
  /\ UNCHANGED <<rows, request, extractions, handoffs>>

\* begin_dispatch claims the handoff, and the dispatcher is called.
ClaimDispatch(r) ==
  /\ pc[r] = "claiming"
  /\ MayDispatch(signals[SourceOf(r)])
  /\ signals' = [signals EXCEPT ![SourceOf(r)] = Claimed(@)]
  /\ Goes(r, "dispatching")
  /\ UNCHANGED <<rows, request, extractions, handoffs>>

\* begin_dispatch finds the Signal dispatched: only the answer is left to store.
AlreadyDispatched(r) ==
  /\ pc[r] = "claiming"
  /\ IsDispatched(signals[SourceOf(r)])
  /\ Goes(r, "recording")
  /\ UNCHANGED <<rows, signals, request, extractions, handoffs>>

\* begin_dispatch raises DispatchInProgress or InvalidDispatchState.
NotDispatchable(r) ==
  /\ pc[r] = "claiming"
  /\ ~MayDispatch(signals[SourceOf(r)])
  /\ ~IsDispatched(signals[SourceOf(r)])
  /\ Goes(r, "aborting")
  /\ UNCHANGED <<rows, signals, request, extractions, handoffs>>

\* The dispatcher returns, and complete_dispatch makes the handoff final.
DispatchReturns(r) ==
  /\ pc[r] = "dispatching"
  /\ handoffs' = [handoffs EXCEPT ![SourceOf(r)] = @ + 1]
  /\ signals' = [signals EXCEPT ![SourceOf(r)] = Dispatched(@)]
  /\ Goes(r, IF MayFinish(signals[SourceOf(r)]) THEN "recording" ELSE "aborting")
  /\ UNCHANGED <<rows, request, extractions>>

\* Mutant: the Signal of a failed dispatch is not released.
DispatchRaisesHeld(r) ==
  /\ pc[r] = "dispatching"
  /\ Goes(r, "aborting")
  /\ UNCHANGED <<rows, signals, request, extractions, handoffs>>

\* The dispatcher raises, and abort_dispatch releases the Signal for a retry.
DispatchRaises(r) ==
  /\ pc[r] = "dispatching"
  /\ signals' = [signals EXCEPT ![SourceOf(r)] = Released(@)]
  /\ Goes(r, "aborting")
  /\ UNCHANGED <<rows, request, extractions, handoffs>>

\* _complete stores the answer, which names the Signal.
Record(r) ==
  /\ pc[r] = "recording"
  /\ rows' = Completed(rows, KeyOf(r), BodyOf(r), SourceOf(r))
  /\ IF MayComplete(rows, KeyOf(r), BodyOf(r))
     THEN Answers(r)
     ELSE Goes(r, "aborting") /\ UNCHANGED request
  /\ UNCHANGED <<signals, extractions, handoffs>>

\* _abort frees the key, and the error is answered.
Abort(r) ==
  /\ pc[r] = "aborting"
  /\ rows' = Aborted(rows, KeyOf(r), BodyOf(r))
  /\ Answers(r)
  /\ UNCHANGED <<signals, extractions, handoffs>>

-----------------------------------------------------------------------------
\* Faults.

\* SQLite raises in the next transaction, which is rolled back: the request
\* goes on to _abort.
StoreError(r) ==
  /\ "store_error" \in Faults
  /\ pc[r] \in {"reserving", "extracting", "claiming", "recording"}
  /\ Goes(r, "aborting")
  /\ UNCHANGED <<rows, signals, request, extractions, handoffs>>

\* Mutant: an error while noting a handoff releases the Signal.
ReleasedOnStoreError(r) ==
  /\ "store_error" \in Faults
  /\ pc[r] = "dispatching"
  /\ handoffs' = [handoffs EXCEPT ![SourceOf(r)] = @ + 1]
  /\ signals' = [signals EXCEPT ![SourceOf(r)] = Released(@)]
  /\ Goes(r, "aborting")
  /\ UNCHANGED <<rows, request, extractions>>

\* SQLite raises in complete_dispatch, after the handoff, or in
\* abort_dispatch: either way the Signal stays in_progress.
StoreErrorAfterDispatch(r) ==
  /\ "store_error" \in Faults
  /\ pc[r] = "dispatching"
  /\ \E accepted \in {0, 1} :
       handoffs' = [handoffs EXCEPT ![SourceOf(r)] = @ + accepted]
  /\ Goes(r, "aborting")
  /\ UNCHANGED <<rows, signals, request, extractions>>

\* _abort swallows an error: the answer is sent and the row stays pending.
StoreErrorInAbort(r) ==
  /\ "store_error" \in Faults
  /\ pc[r] = "aborting"
  /\ Answers(r)
  /\ UNCHANGED <<rows, signals, extractions, handoffs>>

\* The process restarts.  Nothing at startup repairs these tables.
Crash ==
  /\ "crash" \in Faults
  /\ pc' = [r \in Request |-> "idle"]
  /\ request' = [r \in Request |-> NoRequest]
  /\ UNCHANGED <<rows, signals, extractions, handoffs>>

-----------------------------------------------------------------------------
\* What the coroutine does once it has begun, and what may befall it.
Step(r) ==
  \/ ReserveKnown(r) \/ ReserveNew(r) \/ ReserveInvalid(r)
  \/ ExtractReturns(r) \/ ExtractRaises(r)
  \/ ClaimDispatch(r) \/ AlreadyDispatched(r) \/ NotDispatchable(r)
  \/ DispatchReturns(r) \/ DispatchRaises(r)
  \/ Record(r) \/ Abort(r)

Fault(r) == StoreError(r) \/ StoreErrorAfterDispatch(r) \/ StoreErrorInAbort(r)

Next ==
  \/ \E r \in Request :
       \/ \E k \in Key : AnswerFromRegister(r, k) \/ \E b \in Body : Begin(r, k, b)
       \/ Step(r)
       \/ Fault(r)
  \/ Crash

Spec == Init /\ [][Next]_vars

\* The event loop runs every coroutine that can go on, and each await ends:
\* the extractor and the Case agent bound their model calls with a timeout.
FairSpec == Spec /\ \A r \in Request : WF_vars(Step(r))

-----------------------------------------------------------------------------
(* Safety. *)

Running(r) == pc[r] # "idle"

\* A running request is the only owner of the reservation of its key: no
\* request can complete or abort the row of another (signal_api.py, _begin,
\* _complete and _abort).
OneOwnerPerKey ==
  \A r \in Request : Running(r) =>
    /\ rows[KeyOf(r)].status = "pending"
    /\ rows[KeyOf(r)].body = BodyOf(r)
    /\ \A q \in Request : Running(q) /\ KeyOf(q) = KeyOf(r) => q = r

\* At most one request is at the Case dispatcher for a Signal, and the Signal
\* is marked in_progress as long as one is (begin_dispatch).
OneDispatcher ==
  \A r \in Request : pc[r] = "dispatching" =>
    /\ signals[SourceOf(r)].dispatch = "in_progress"
    /\ \A q \in Request :
         pc[q] = "dispatching" /\ SourceOf(q) = SourceOf(r) => q = r

\* An answer that can be replayed is true for ever: the Signal it names is
\* the one of the request's body, and it has been handed over (ingest stores
\* the answer after complete_dispatch).
StoredAnswerIsDispatched ==
  \A k \in Key : rows[k].status = "completed" =>
    /\ rows[k].answer = rows[k].body.source
    /\ signals[rows[k].answer].dispatch = "dispatched"

\* One durable successful handoff (SPEC.md, 10.1): the Case service accepts a
\* Signal at most once through ingestion, and a Signal counts as dispatched
\* only when it did.
HandedOverOnce ==
  \A s \in Source :
    /\ handoffs[s] <= 1
    /\ signals[s].dispatch = "dispatched" => handoffs[s] = 1

\* No retry, of whatever failed, repeats the extraction of a source, and what
\* reaches the dispatcher is a repost or has been analysed.
AnalysedOnce ==
  \A s \in Source :
    /\ extractions[s] <= 1
    /\ signals[s].dispatch # "not_ready" =>
         \/ signals[s].original # None
         \/ extractions[s] = 1 /\ signals[s].ingestion = "completed"

\* Reposts never form a chain or a cycle: each one leads to an original in
\* one step (reserve_source).
RepostsNameOriginals ==
  \A s \in Source : signals[s].original # None =>
    /\ IsPresent(signals[s].original)
    /\ signals[signals[s].original].original = None

\* Repeating a request that succeeded gives the same answer: once stored, an
\* answer is neither replaced nor forgotten.
AnswersAreFinal ==
  [][\A k \in Key : rows[k].status = "completed" => rows'[k] = rows[k]]_vars

\* Ingestion implements the lifecycle A promises for a Signal.
StageOf(row) ==
  IF row.ingestion = "absent" THEN "unknown"
  ELSE IF row.ingestion = "reserved" THEN "reserved"
  ELSE IF row.ingestion = "extraction_failed" THEN "rejected"
  ELSE IF row.dispatch = "pending" THEN "ready"
  ELSE IF row.dispatch = "in_progress" THEN "claimed"
  ELSE "delivered"

Lifecycle == INSTANCE SignalLifecycle
  WITH stage <- [s \in Source |-> StageOf(signals[s])], accepted <- handoffs

ImplementsLifecycle == Lifecycle!Spec

-----------------------------------------------------------------------------
(* Liveness, under FairSpec and without faults. *)

\* A reserved key is always freed or answered, so that the client's next
\* retry of it is not refused with idempotency_in_progress for ever.
KeysAreResolved ==
  \A k \in Key : rows[k].status = "pending" ~> rows[k].status # "pending"

\* A reserved Signal is always analysed, or kept with its failure recorded.
ReservationsAreResolved ==
  \A s \in Source :
    signals[s].ingestion = "reserved" ~> signals[s].ingestion # "reserved"

\* A claimed handoff is always finished, or released for a retry.
DispatchesAreResolved ==
  \A s \in Source :
    signals[s].dispatch = "in_progress" ~> signals[s].dispatch # "in_progress"

-----------------------------------------------------------------------------
(* What the code says of itself and does not keep. *)

\* "Another caller currently owns this Signal's dispatch attempt." is what
\* DispatchInProgress says of every Signal it is raised for.
InProgressIsOwned ==
  \A s \in Source : signals[s].dispatch = "in_progress" =>
    \E r \in Request : pc[r] = "dispatching" /\ SourceOf(r) = s
=============================================================================
