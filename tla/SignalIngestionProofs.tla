------------------------ MODULE SignalIngestionProofs ------------------------
(***************************************************************************)
(* Proofs about SignalIngestion, for every set of requests, keys, sources  *)
(* and bodies, and whatever faults happen.                                 *)
(***************************************************************************)
EXTENDS SignalIngestion, TLAPS

USE BodyAssumption

\* The three transactions on the register keep its type.
LEMMA RegisterType ==
  ASSUME NEW r0 \in RegisterOver(Body, Source), NEW k \in Key, NEW b \in Body,
         NEW a \in Source
  PROVE  /\ EmptyRegister \in RegisterOver(Body, Source)
         /\ Begun(r0, k, b) \in RegisterOver(Body, Source)
         /\ Completed(r0, k, b, a) \in RegisterOver(Body, Source)
         /\ Aborted(r0, k, b) \in RegisterOver(Body, Source)
<1>1. EmptyRegister \in RegisterOver(Body, Source)
  BY DEF EmptyRegister, NoRow, RegisterOver, RowOver
<1>2. Begun(r0, k, b) \in RegisterOver(Body, Source)
  BY DEF Begun, RegisterOver, RowOver
<1>3. Completed(r0, k, b, a) \in RegisterOver(Body, Source)
  BY DEF Completed, MayComplete, RegisterOver, RowOver
<1>4. Aborted(r0, k, b) \in RegisterOver(Body, Source)
  BY DEF Aborted, NoRow, RegisterOver, RowOver
<1>. QED  BY <1>1, <1>2, <1>3, <1>4

\* What a body says is well typed.
LEMMA BodyType ==
  ASSUME NEW b \in Body
  PROVE  /\ b.source \in Source
         /\ b.relation \in {"report", "repost"}
         /\ b.original \in Source \cup {None}
         /\ b # None
  OBVIOUS

\* Every update of a signal row yields a signal row.
LEMMA RowType ==
  ASSUME NEW row \in SignalRow, NEW b \in Body
  PROVE  /\ NoSignal \in SignalRow
         /\ Inserted(b) \in SignalRow
         /\ CompletedSignal(row) \in SignalRow
         /\ FailedExtraction(row) \in SignalRow
         /\ Claimed(row) \in SignalRow
         /\ Dispatched(row) \in SignalRow
         /\ Released(row) \in SignalRow
  BY BodyType DEF SignalRow, NoSignal, Inserted, CompletedSignal, FailedExtraction, Claimed,
                  Dispatched, Released, Ingestion, Dispatch

-----------------------------------------------------------------------------
LEMMA InitType == Init => TypeOK
<1>. SUFFICES ASSUME Init PROVE TypeOK
  OBVIOUS
<1>1. rows \in RegisterOver(Body, Source)
  BY DEF Init, EmptyRegister, NoRow, RegisterOver, RowOver
<1>. QED
  BY <1>1 DEF Init, TypeOK, SignalRow, NoSignal, NoRequest, Ingestion, Dispatch, Place

\* The types of the coroutine's own variables, kept by the end of a request.
RequestsTyped ==
  /\ pc \in [Request -> Place]
  /\ request \in [Request -> [key : Key \cup {None}, body : Body \cup {None}]]
  /\ \A r \in Request : pc[r] # "idle" => request[r] \in [key : Key, body : Body]

LEMMA AnswersType ==
  ASSUME RequestsTyped, NEW r \in Request, Answers(r)
  PROVE  RequestsTyped'
  BY DEF RequestsTyped, Answers, Goes, NoRequest, Place

LEMMA GoesType ==
  ASSUME RequestsTyped, NEW r \in Request, pc[r] # "idle",
         NEW place \in Place, Goes(r, place), UNCHANGED request
  PROVE  RequestsTyped'
  BY DEF RequestsTyped, Goes, Place

LEMMA StepType ==
  ASSUME TypeOK, NEW r \in Request, Step(r)
  PROVE  TypeOK'
<1>. USE DEF TypeOK, Goes, KeyOf, BodyOf, SourceOf, Place
<1>1. pc[r] # "idle"
  BY DEF Step, ReserveKnown, ReserveNew, ReserveInvalid, ExtractReturns,
         ExtractRaises, ClaimDispatch, AlreadyDispatched, NotDispatchable,
         DispatchReturns, DispatchRaises, Record, Abort
<1>2. /\ KeyOf(r) \in Key /\ BodyOf(r) \in Body /\ SourceOf(r) \in Source
      /\ signals[SourceOf(r)] \in SignalRow
  BY <1>1, BodyType
<1>3. CASE ReserveKnown(r) \/ ReserveInvalid(r) \/ AlreadyDispatched(r) \/ NotDispatchable(r)
  BY <1>2, <1>3 DEF ReserveKnown, ReserveInvalid, AlreadyDispatched, NotDispatchable
<1>4. CASE ReserveNew(r)
  <2>1. signals' \in [Source -> SignalRow]
    BY <1>2, <1>4, RowType DEF ReserveNew
  <2>2. extractions' \in [Source -> Nat]
    BY <1>2, <1>4 DEF ReserveNew
  <2>3. pc' \in [Request -> Place]
    BY <1>4 DEF ReserveNew
  <2>4. \A q \in Request : pc'[q] # "idle" => request'[q] \in [key : Key, body : Body]
    BY <1>1, <1>4 DEF ReserveNew
  <2>. QED
    BY <2>1, <2>2, <2>3, <2>4, <1>4 DEF ReserveNew
<1>5. CASE ExtractReturns(r)
  BY <1>2, <1>5, RowType DEF ExtractReturns
<1>6. CASE ExtractRaises(r)
  BY <1>2, <1>6, RowType DEF ExtractRaises
<1>7. CASE ClaimDispatch(r)
  BY <1>2, <1>7, RowType DEF ClaimDispatch
<1>8. CASE DispatchReturns(r)
  BY <1>2, <1>8, RowType DEF DispatchReturns
<1>9. CASE DispatchRaises(r)
  BY <1>2, <1>9, RowType DEF DispatchRaises
<1>10. CASE Record(r)
  <2>1. rows' \in RegisterOver(Body, Source)
    BY <1>2, <1>10, RegisterType DEF Record
  <2>2. RequestsTyped
    BY DEF RequestsTyped
  <2>3. RequestsTyped'
    BY <1>1, <1>10, <2>2, AnswersType, GoesType DEF Record
  <2>. QED
    BY <2>1, <2>3, <1>10 DEF Record, RequestsTyped
<1>11. CASE Abort(r)
  <2>1. rows' \in RegisterOver(Body, Source)
    BY <1>2, <1>11, RegisterType DEF Abort
  <2>2. RequestsTyped
    BY DEF RequestsTyped
  <2>3. RequestsTyped'
    BY <1>11, <2>2, AnswersType DEF Abort
  <2>. QED
    BY <2>1, <2>3, <1>11 DEF Abort, RequestsTyped
<1>. QED
  BY <1>3, <1>4, <1>5, <1>6, <1>7, <1>8, <1>9, <1>10, <1>11 DEF Step

LEMMA FaultType ==
  ASSUME TypeOK, NEW r \in Request, Fault(r)
  PROVE  TypeOK'
<1>. USE DEF TypeOK
<1>1. RequestsTyped
  BY DEF RequestsTyped
<1>2. CASE StoreError(r)
  <2>1. RequestsTyped'
    BY <1>1, <1>2, GoesType DEF StoreError, Place
  <2>. QED
    BY <2>1, <1>2 DEF StoreError, RequestsTyped
<1>3. CASE StoreErrorAfterDispatch(r)
  <2>1. RequestsTyped'
    BY <1>1, <1>3, GoesType DEF StoreErrorAfterDispatch, Place
  <2>2. handoffs' \in [Source -> Nat]
    <3>1. PICK accepted \in {0, 1} :
            handoffs' = [handoffs EXCEPT ![SourceOf(r)] = @ + accepted]
      BY <1>3 DEF StoreErrorAfterDispatch
    <3>2. \A s \in Source : handoffs[s] + accepted \in Nat
      OBVIOUS
    <3>. QED
      BY <3>1, <3>2
  <2>. QED
    BY <2>1, <2>2, <1>3 DEF StoreErrorAfterDispatch, RequestsTyped
<1>4. CASE StoreErrorInAbort(r)
  <2>1. RequestsTyped'
    BY <1>1, <1>4, AnswersType DEF StoreErrorInAbort
  <2>. QED
    BY <2>1, <1>4 DEF StoreErrorInAbort, RequestsTyped
<1>. QED
  BY <1>2, <1>3, <1>4 DEF Fault

LEMMA BeginType ==
  ASSUME TypeOK, NEW r \in Request, NEW k \in Key, NEW b \in Body, Begin(r, k, b)
  PROVE  TypeOK'
<1>. USE DEF TypeOK
<1>1. rows' \in RegisterOver(Body, Source)
  BY DEF Begin, Begun, RegisterOver, RowOver
<1>2. RequestsTyped'
  BY DEF Begin, Goes, RequestsTyped, Place
<1>. QED
  BY <1>1, <1>2 DEF Begin, RequestsTyped

LEMMA NextType == TypeOK /\ [Next]_vars => TypeOK'
<1>. SUFFICES ASSUME TypeOK, [Next]_vars PROVE TypeOK'
  OBVIOUS
<1>1. ASSUME NEW r \in Request, NEW k \in Key, AnswerFromRegister(r, k)
      PROVE  TypeOK'
  BY <1>1 DEF AnswerFromRegister, vars, TypeOK
<1>2. CASE Crash
  BY <1>2 DEF Crash, TypeOK, NoRequest, Place
<1>3. CASE UNCHANGED vars
  BY <1>3 DEF vars, TypeOK
<1>. QED
  BY <1>1, <1>2, <1>3, BeginType, StepType, FaultType DEF Next

\* The tables and the running requests always have the types the code gives
\* them, whatever fails and however often the process restarts.
THEOREM TypeCorrect == Spec => []TypeOK
  BY InitType, NextType, PTL DEF Spec

-----------------------------------------------------------------------------
(***************************************************************************)
(* The inductive invariant.  OneOwnerPerKey is inductive by itself; the    *)
(* rest ties each place of a request to the row of its Signal, and the     *)
(* columns of that row to each other and to the history of calls.          *)
(***************************************************************************)

\* What a request knows of its Signal at each place of the handler, though
\* others have run since it looked.
PlaceOK(r) ==
  /\ pc[r] = "extracting" => signals[SourceOf(r)].ingestion = "reserved"
  /\ pc[r] = "claiming" => IsPresent(SourceOf(r))
  /\ pc[r] = "dispatching" =>
       /\ signals[SourceOf(r)].ingestion = "completed"
       /\ signals[SourceOf(r)].dispatch = "in_progress"
       /\ handoffs[SourceOf(r)] = 0
  /\ pc[r] = "recording" => signals[SourceOf(r)].dispatch = "dispatched"

PlaceInv == \A r \in Request : PlaceOK(r)

\* No two requests are at the extractor, or at the dispatcher, for one Signal.
SoleCaller ==
  \A r, q \in Request :
    /\ pc[r] \in {"extracting", "dispatching"}
    /\ pc[q] = pc[r]
    /\ SourceOf(q) = SourceOf(r)
    => q = r

\* The columns of a signal row, and the calls made for it.
RowOK(s) ==
  /\ signals[s].dispatch # "not_ready" <=> signals[s].ingestion = "completed"
  /\ signals[s].original # None => signals[s].ingestion = "completed"
  /\ extractions[s] = IF IsPresent(s) /\ signals[s].original = None THEN 1 ELSE 0
  /\ signals[s].dispatch \in {"not_ready", "pending"} => handoffs[s] = 0
  /\ signals[s].dispatch = "dispatched" => handoffs[s] = 1
  /\ handoffs[s] <= 1

SignalInv == \A s \in Source : RowOK(s)

IInv ==
  /\ TypeOK
  /\ OneOwnerPerKey
  /\ PlaceInv
  /\ SoleCaller
  /\ SignalInv
  /\ RepostsNameOriginals
  /\ StoredAnswerIsDispatched

LEMMA InitInv == Init => IInv
<1>. SUFFICES ASSUME Init PROVE IInv
  OBVIOUS
<1>1. TypeOK
  BY InitType
<1>2. OneOwnerPerKey
  BY DEF Init, OneOwnerPerKey, Running
<1>3. PlaceInv /\ SoleCaller
  BY DEF Init, PlaceInv, PlaceOK, SoleCaller
<1>4. SignalInv /\ RepostsNameOriginals
  BY DEF Init, SignalInv, RowOK, RepostsNameOriginals, IsPresent, NoSignal
<1>5. StoredAnswerIsDispatched
  BY DEF Init, StoredAnswerIsDispatched, EmptyRegister, NoRow
<1>. QED
  BY <1>1, <1>2, <1>3, <1>4, <1>5 DEF IInv

\* A step of one request leaves the others where they are; its own key and
\* body change only when it ends.
OthersStay(r) ==
  /\ \A q \in Request \ {r} : pc'[q] = pc[q] /\ request'[q] = request[q]
  /\ pc'[r] # "idle" => request'[r] = request[r]

LEMMA StepIsLocal ==
  ASSUME TypeOK, NEW r \in Request, Step(r) \/ Fault(r)
  PROVE  OthersStay(r) /\ pc[r] # "idle"
  BY DEF TypeOK, OthersStay, Step, Fault, Goes, Answers, Place,
         ReserveKnown, ReserveNew, ReserveInvalid, ExtractReturns, ExtractRaises,
         ClaimDispatch, AlreadyDispatched, NotDispatchable, DispatchReturns,
         DispatchRaises, Record, Abort, StoreError, StoreErrorAfterDispatch,
         StoreErrorInAbort

\* The register changes only at the key of the request that takes the step.
LEMMA StepOwnsKey ==
  ASSUME TypeOK, NEW r \in Request, Step(r) \/ Fault(r)
  PROVE  /\ \A k \in Key : k # KeyOf(r) => rows'[k] = rows[k]
         /\ pc'[r] # "idle" /\ OneOwnerPerKey => rows' = rows
<1>. USE DEF OneOwnerPerKey, Running
<1>2. CASE Record(r)
  <2>1. MayComplete(rows, KeyOf(r), BodyOf(r)) => pc'[r] = "idle"
    BY <1>2 DEF Record, Answers, Goes, TypeOK
  <2>2. OneOwnerPerKey => MayComplete(rows, KeyOf(r), BodyOf(r))
    BY <1>2 DEF Record, MayComplete
  <2>3. \A k \in Key : k # KeyOf(r) => rows'[k] = rows[k]
    BY <1>2 DEF Record, Completed, TypeOK, RegisterOver
  <2>. QED
    BY <2>1, <2>2, <2>3
<1>3. CASE Abort(r)
  BY <1>3 DEF Abort, Aborted, Answers, Goes, TypeOK, RegisterOver
<1>. QED
  BY <1>2, <1>3 DEF Step, Fault,
         ReserveKnown, ReserveNew, ReserveInvalid, ExtractReturns, ExtractRaises,
         ClaimDispatch, AlreadyDispatched, NotDispatchable, DispatchReturns,
         DispatchRaises, StoreError, StoreErrorAfterDispatch, StoreErrorInAbort

LEMMA StepOwner ==
  ASSUME TypeOK, OneOwnerPerKey, NEW r \in Request, Step(r) \/ Fault(r)
  PROVE  OneOwnerPerKey'
<1>1. OthersStay(r) /\ pc[r] # "idle"
  BY StepIsLocal
<1>2. /\ \A k \in Key : k # KeyOf(r) => rows'[k] = rows[k]
      /\ pc'[r] # "idle" => rows' = rows
  BY StepOwnsKey
<1>. SUFFICES ASSUME NEW q \in Request, pc'[q] # "idle"
              PROVE  /\ rows'[request'[q].key].status = "pending"
                     /\ rows'[request'[q].key].body = request'[q].body
                     /\ \A p \in Request :
                          pc'[p] # "idle" /\ request'[p].key = request'[q].key => p = q
  BY DEF OneOwnerPerKey, Running, KeyOf, BodyOf
<1>. QED
  BY <1>1, <1>2 DEF OthersStay, OneOwnerPerKey, Running, KeyOf, BodyOf, TypeOK

LEMMA BeginOwner ==
  ASSUME TypeOK, OneOwnerPerKey, NEW r \in Request, NEW k \in Key, NEW b \in Body,
         Begin(r, k, b)
  PROVE  OneOwnerPerKey'
  BY DEF Begin, Begun, MayBegin, Goes, OneOwnerPerKey, Running, KeyOf, BodyOf,
         TypeOK, RegisterOver

\* The keys and the requests that own them, over any step.
LEMMA NextOwner == TypeOK /\ OneOwnerPerKey /\ [Next]_vars => OneOwnerPerKey'
<1>. SUFFICES ASSUME TypeOK, OneOwnerPerKey, [Next]_vars PROVE OneOwnerPerKey'
  OBVIOUS
<1>1. ASSUME NEW r \in Request, NEW k \in Key, AnswerFromRegister(r, k)
      PROVE  OneOwnerPerKey'
  BY <1>1 DEF AnswerFromRegister, vars, OneOwnerPerKey, Running, KeyOf, BodyOf
<1>2. CASE Crash
  BY <1>2 DEF Crash, OneOwnerPerKey, Running
<1>3. CASE UNCHANGED vars
  BY <1>3 DEF vars, OneOwnerPerKey, Running, KeyOf, BodyOf
<1>. QED
  BY <1>1, <1>2, <1>3, BeginOwner, StepOwner DEF Next

-----------------------------------------------------------------------------
\* The rest of the invariant, action by action.
Signals == PlaceInv /\ SoleCaller /\ SignalInv /\ RepostsNameOriginals

\* A step that leaves the Signals and the history alone can only break what
\* the place it goes to requires.
LEMMA MoveKeeps ==
  ASSUME TypeOK, Signals, NEW r \in Request, OthersStay(r), pc[r] # "idle",
         UNCHANGED <<signals, extractions, handoffs>>,
         \/ pc'[r] \in {"idle", "aborting"}
         \/ pc'[r] = "claiming" /\ IsPresent(SourceOf(r))
         \/ pc'[r] = "recording" /\ signals[SourceOf(r)].dispatch = "dispatched"
  PROVE  Signals'
<1>. USE DEF OthersStay, SourceOf, BodyOf, IsPresent
<1>1. PlaceInv'
  BY DEF Signals, PlaceInv, PlaceOK
<1>2. SoleCaller'
  BY DEF Signals, SoleCaller
<1>3. SignalInv' /\ RepostsNameOriginals'
  BY DEF Signals, SignalInv, RowOK, RepostsNameOriginals
<1>. QED
  BY <1>1, <1>2, <1>3 DEF Signals

LEMMA ReserveNewKeeps ==
  ASSUME TypeOK, Signals, NEW r \in Request, ReserveNew(r)
  PROVE  Signals'
<1>1. OthersStay(r) /\ pc[r] # "idle"
  BY StepIsLocal DEF Step
<1>2. BodyOf(r) \in Body /\ SourceOf(r) \in Source
  BY <1>1, BodyType DEF TypeOK, BodyOf, SourceOf
<1>. DEFINE s == SourceOf(r)
<1>3. /\ signals' = [signals EXCEPT ![s] = Inserted(BodyOf(r))]
      /\ UNCHANGED handoffs
      /\ \A x \in Source : extractions'[x] =
           IF x = s /\ BodyOf(r).relation # "repost" THEN extractions[x] + 1 ELSE extractions[x]
      /\ ~IsPresent(s) /\ ValidRelation(BodyOf(r))
      /\ pc'[r] = IF BodyOf(r).relation = "repost" THEN "claiming" ELSE "extracting"
      /\ request' = request
  BY <1>2 DEF ReserveNew, TypeOK, Goes
<1>4. PlaceInv'
  <2>. SUFFICES ASSUME NEW q \in Request PROVE PlaceOK(q)'
    BY DEF PlaceInv
  <2>1. CASE q = r
    BY <1>1, <1>2, <1>3, <2>1 DEF PlaceOK, OthersStay, SourceOf, BodyOf, IsPresent, Inserted, TypeOK
  <2>2. CASE q # r
    <3>1. pc'[q] = pc[q] /\ request'[q] = request[q]
      BY <1>1, <2>2 DEF OthersStay
    <3>2. pc[q] # "idle" => SourceOf(q) \in Source
      BY BodyType DEF TypeOK, SourceOf, BodyOf
    <3>3. pc[q] \in {"extracting", "claiming", "dispatching", "recording"} => IsPresent(SourceOf(q))
      BY <3>2 DEF Signals, PlaceInv, PlaceOK, SignalInv, RowOK, IsPresent
    <3>. QED
      BY <1>2, <1>3, <3>1, <3>2, <3>3 DEF Signals, PlaceInv, PlaceOK, SourceOf, BodyOf, IsPresent, TypeOK
  <2>. QED
    BY <2>1, <2>2
<1>5. SoleCaller'
  BY <1>1, <1>2, <1>3 DEF Signals, SoleCaller, PlaceInv, PlaceOK, SignalInv, RowOK, OthersStay, SourceOf, BodyOf, IsPresent, TypeOK
<1>6. SignalInv'
  BY <1>1, <1>2, <1>3, BodyType DEF Signals, SignalInv, RowOK, SourceOf, BodyOf, IsPresent, Inserted, ValidRelation, TypeOK, SignalRow
<1>7. RepostsNameOriginals'
  BY <1>1, <1>2, <1>3, BodyType DEF Signals, SignalInv, RowOK, RepostsNameOriginals, IsPresent, Inserted, ValidRelation, TypeOK, SignalRow
<1>. QED
  BY <1>4, <1>5, <1>6, <1>7 DEF Signals

\* No other request is at the extractor or at the dispatcher for r's Signal.
Alone(r) ==
  \A q \in Request \ {r} :
    pc[q] \in {"extracting", "dispatching"} => SourceOf(q) # SourceOf(r)

\* A step that rewrites the row of r's Signal, which is known and not yet
\* dispatched, keeps what the other requests know if r is alone there.
LEMMA RewriteKeeps ==
  ASSUME TypeOK, Signals, NEW r \in Request, OthersStay(r), pc[r] # "idle",
         Alone(r), IsPresent(SourceOf(r)),
         signals[SourceOf(r)].dispatch # "dispatched",
         NEW row \in SignalRow, signals' = [signals EXCEPT ![SourceOf(r)] = row],
         row.ingestion # "absent", row.original = signals[SourceOf(r)].original,
         UNCHANGED <<request, extractions>>, pc'[r] # "extracting",
         \A s \in Source : s # SourceOf(r) => handoffs'[s] = handoffs[s],
         PlaceOK(r)', RowOK(SourceOf(r))'
  PROVE  Signals'
<1>1. SourceOf(r) \in Source /\ SourceOf(r)' = SourceOf(r)
  BY BodyType DEF TypeOK, SourceOf, BodyOf
<1>2. \A s \in Source : signals'[s] = IF s = SourceOf(r) THEN row ELSE signals[s]
  BY <1>1 DEF TypeOK
<1>3. \A s \in Source : signals'[s].original = signals[s].original /\ (IsPresent(s)' <=> IsPresent(s))
  BY <1>1, <1>2 DEF IsPresent
<1>4. PlaceInv'
  <2>. SUFFICES ASSUME NEW q \in Request, q # r PROVE PlaceOK(q)'
    BY DEF PlaceInv
  <2>1. pc'[q] = pc[q] /\ SourceOf(q)' = SourceOf(q)
    BY DEF OthersStay, SourceOf, BodyOf
  <2>2. pc[q] # "idle" => SourceOf(q) \in Source
    BY BodyType DEF TypeOK, SourceOf, BodyOf
  <2>3. PlaceOK(q)
    BY DEF Signals, PlaceInv
  <2>4. CASE SourceOf(q) # SourceOf(r)
    BY <1>2, <2>1, <2>2, <2>3, <2>4 DEF PlaceOK, IsPresent
  <2>5. CASE SourceOf(q) = SourceOf(r)
    BY <1>1, <1>2, <2>1, <2>2, <2>3, <2>5 DEF PlaceOK, IsPresent, Alone
  <2>. QED
    BY <2>4, <2>5
<1>5. SoleCaller'
  BY <1>1 DEF Signals, SoleCaller, OthersStay, Alone, SourceOf, BodyOf
<1>6. SignalInv'
  <2>. SUFFICES ASSUME NEW s \in Source, s # SourceOf(r) PROVE RowOK(s)'
    BY <1>1 DEF SignalInv
  <2>. QED
    BY <1>2, <1>3 DEF Signals, SignalInv, RowOK
<1>7. RepostsNameOriginals'
  BY <1>3 DEF Signals, RepostsNameOriginals, TypeOK, SignalRow
<1>. QED
  BY <1>4, <1>5, <1>6, <1>7 DEF Signals

\* The same for a step at the extractor, at the dispatcher or on the way to it.
LEMMA AtSignal ==
  ASSUME TypeOK, Signals, NEW r \in Request,
         \/ pc[r] \in {"extracting", "dispatching"}
         \/ pc[r] = "claiming" /\ MayDispatch(signals[SourceOf(r)])
  PROVE  /\ SourceOf(r) \in Source /\ signals[SourceOf(r)] \in SignalRow
         /\ PlaceOK(r) /\ RowOK(SourceOf(r))
         /\ IsPresent(SourceOf(r)) /\ signals[SourceOf(r)].dispatch # "dispatched"
         /\ Alone(r)
<1>1. SourceOf(r) \in Source /\ signals[SourceOf(r)] \in SignalRow
  BY BodyType DEF TypeOK, SourceOf, BodyOf
<1>2. PlaceOK(r) /\ RowOK(SourceOf(r))
  BY <1>1 DEF Signals, PlaceInv, SignalInv
<1>3. IsPresent(SourceOf(r)) /\ signals[SourceOf(r)].dispatch # "dispatched"
  BY <1>2 DEF PlaceOK, RowOK, IsPresent, MayDispatch
<1>4. ASSUME NEW q \in Request \ {r}, pc[q] \in {"extracting", "dispatching"},
             SourceOf(q) = SourceOf(r)
      PROVE  FALSE
  <2>1. PlaceOK(q)
    BY DEF Signals, PlaceInv
  <2>2. pc[q] = pc[r]
    BY <1>2, <1>4, <2>1 DEF PlaceOK, RowOK, MayDispatch
  <2>. QED
    BY <1>4, <2>2 DEF Signals, SoleCaller
<1>. QED
  BY <1>1, <1>2, <1>3, <1>4 DEF Alone

LEMMA ExtractReturnsKeeps ==
  ASSUME TypeOK, Signals, NEW r \in Request, ExtractReturns(r)
  PROVE  Signals'
<1>. DEFINE s == SourceOf(r)
            row == CompletedSignal(signals[s])
<1>1. pc[r] = "extracting" /\ OthersStay(r)
  BY StepIsLocal DEF ExtractReturns, Step
<1>2. s \in Source /\ signals[s] \in SignalRow /\ PlaceOK(r) /\ RowOK(s)
  BY <1>1, AtSignal
<1>3. /\ row \in SignalRow /\ row.ingestion = "completed" /\ row.dispatch = "pending"
      /\ row.original = signals[s].original
      /\ MayAnalyse(signals[s])
  BY <1>1, <1>2 DEF PlaceOK, CompletedSignal, MayAnalyse, SignalRow, Ingestion, Dispatch
<1>4. /\ signals' = [signals EXCEPT ![s] = row] /\ pc'[r] = "claiming"
      /\ UNCHANGED <<request, extractions, handoffs>>
  BY <1>1, <1>3 DEF ExtractReturns, Goes, TypeOK
<1>5. PlaceOK(r)' /\ RowOK(s)'
  BY <1>1, <1>2, <1>3, <1>4 DEF PlaceOK, RowOK, IsPresent, TypeOK, SourceOf, BodyOf
<1>. QED
  BY <1>1, <1>3, <1>4, <1>5, AtSignal, RewriteKeeps

LEMMA ExtractRaisesKeeps ==
  ASSUME TypeOK, Signals, NEW r \in Request, ExtractRaises(r)
  PROVE  Signals'
<1>. DEFINE s == SourceOf(r)
            row == FailedExtraction(signals[s])
<1>1. pc[r] = "extracting" /\ OthersStay(r)
  BY StepIsLocal DEF ExtractRaises, Step
<1>2. s \in Source /\ signals[s] \in SignalRow /\ PlaceOK(r) /\ RowOK(s)
  BY <1>1, AtSignal
<1>3. /\ row \in SignalRow /\ row.ingestion = "extraction_failed"
      /\ row.dispatch = signals[s].dispatch /\ row.original = signals[s].original
  BY <1>1, <1>2 DEF PlaceOK, FailedExtraction, SignalRow, Ingestion, Dispatch
<1>4. /\ signals' = [signals EXCEPT ![s] = row] /\ pc'[r] = "aborting"
      /\ UNCHANGED <<request, extractions, handoffs>>
  BY <1>1 DEF ExtractRaises, Goes, TypeOK
<1>5. PlaceOK(r)' /\ RowOK(s)'
  BY <1>1, <1>2, <1>3, <1>4 DEF PlaceOK, RowOK, IsPresent, TypeOK, SourceOf, BodyOf
<1>. QED
  BY <1>1, <1>3, <1>4, <1>5, AtSignal, RewriteKeeps

LEMMA ClaimDispatchKeeps ==
  ASSUME TypeOK, Signals, NEW r \in Request, ClaimDispatch(r)
  PROVE  Signals'
<1>. DEFINE s == SourceOf(r)
            row == Claimed(signals[s])
<1>1. pc[r] = "claiming" /\ OthersStay(r) /\ MayDispatch(signals[s])
  BY StepIsLocal DEF ClaimDispatch, Step
<1>2. s \in Source /\ signals[s] \in SignalRow /\ PlaceOK(r) /\ RowOK(s)
  BY <1>1, AtSignal
<1>3. /\ row \in SignalRow /\ row.ingestion = "completed"
      /\ row.dispatch = "in_progress" /\ row.original = signals[s].original
  BY <1>1, <1>2 DEF Claimed, MayDispatch, SignalRow, Ingestion, Dispatch
<1>4. /\ signals' = [signals EXCEPT ![s] = row] /\ pc'[r] = "dispatching"
      /\ UNCHANGED <<request, extractions, handoffs>>
  BY <1>1 DEF ClaimDispatch, Goes, TypeOK
<1>5. PlaceOK(r)' /\ RowOK(s)'
  BY <1>1, <1>2, <1>3, <1>4 DEF MayDispatch, PlaceOK, RowOK, IsPresent, TypeOK, SourceOf, BodyOf
<1>. QED
  BY <1>1, <1>3, <1>4, <1>5, AtSignal, RewriteKeeps

LEMMA DispatchReturnsKeeps ==
  ASSUME TypeOK, Signals, NEW r \in Request, DispatchReturns(r)
  PROVE  Signals'
<1>. DEFINE s == SourceOf(r)
            row == Dispatched(signals[s])
<1>1. pc[r] = "dispatching" /\ OthersStay(r)
  BY StepIsLocal DEF DispatchReturns, Step
<1>2. s \in Source /\ signals[s] \in SignalRow /\ PlaceOK(r) /\ RowOK(s)
  BY <1>1, AtSignal
<1>3. /\ row \in SignalRow /\ row.ingestion = "completed"
      /\ row.dispatch = "dispatched" /\ row.original = signals[s].original
      /\ MayFinish(signals[s]) /\ handoffs[s] = 0
  BY <1>1, <1>2 DEF PlaceOK, Dispatched, MayFinish, SignalRow, Ingestion, Dispatch
<1>4. /\ signals' = [signals EXCEPT ![s] = row] /\ pc'[r] = "recording"
      /\ UNCHANGED <<request, extractions>>
      /\ \A x \in Source : handoffs'[x] = IF x = s THEN 1 ELSE handoffs[x]
  BY <1>1, <1>2, <1>3 DEF DispatchReturns, Goes, TypeOK
<1>5. PlaceOK(r)' /\ RowOK(s)'
  <2>1. PlaceOK(r)'
    BY <1>1, <1>2, <1>3, <1>4 DEF PlaceOK, IsPresent, TypeOK, SourceOf, BodyOf
  <2>2. RowOK(s)'
    <3>1. signals'[s] = row /\ handoffs'[s] = 1 /\ extractions'[s] = extractions[s]
      BY <1>2, <1>4 DEF TypeOK
    <3>2. SourceOf(r)' = SourceOf(r)
      BY <1>4 DEF SourceOf, BodyOf
    <3>3. signals[s].ingestion = "completed" /\ IsPresent(s) /\ IsPresent(s)'
      BY <1>1, <1>2, <1>3, <3>1, <3>2 DEF PlaceOK, IsPresent
    <3>4. extractions[s] = IF row.original = None THEN 1 ELSE 0
      BY <1>2, <1>3, <3>3 DEF RowOK
    <3>. QED
      BY <1>3, <3>1, <3>2, <3>3, <3>4 DEF RowOK
  <2>. QED
    BY <2>1, <2>2
<1>. QED
  BY <1>1, <1>3, <1>4, <1>5, AtSignal, RewriteKeeps

LEMMA DispatchRaisesKeeps ==
  ASSUME TypeOK, Signals, NEW r \in Request, DispatchRaises(r)
  PROVE  Signals'
<1>. DEFINE s == SourceOf(r)
            row == Released(signals[s])
<1>1. pc[r] = "dispatching" /\ OthersStay(r)
  BY StepIsLocal DEF DispatchRaises, Step
<1>2. s \in Source /\ signals[s] \in SignalRow /\ PlaceOK(r) /\ RowOK(s)
  BY <1>1, AtSignal
<1>3. /\ row \in SignalRow /\ row.ingestion = "completed"
      /\ row.dispatch = "pending" /\ row.original = signals[s].original
  BY <1>1, <1>2 DEF PlaceOK, Released, SignalRow, Ingestion, Dispatch
<1>4. /\ signals' = [signals EXCEPT ![s] = row] /\ pc'[r] = "aborting"
      /\ UNCHANGED <<request, extractions, handoffs>>
  BY <1>1 DEF DispatchRaises, Goes, TypeOK
<1>5. PlaceOK(r)' /\ RowOK(s)'
  BY <1>1, <1>2, <1>3, <1>4 DEF PlaceOK, RowOK, IsPresent, TypeOK, SourceOf, BodyOf
<1>. QED
  BY <1>1, <1>3, <1>4, <1>5, AtSignal, RewriteKeeps

\* The error after a handoff leaves the row as it is, whether or not the
\* dispatcher had accepted the Signal.
LEMMA StoreErrorAfterDispatchKeeps ==
  ASSUME TypeOK, Signals, NEW r \in Request, StoreErrorAfterDispatch(r)
  PROVE  Signals'
<1>. DEFINE s == SourceOf(r)
            row == signals[s]
<1>1. pc[r] = "dispatching" /\ OthersStay(r)
  BY StepIsLocal DEF StoreErrorAfterDispatch, Fault
<1>2. s \in Source /\ row \in SignalRow /\ PlaceOK(r) /\ RowOK(s)
  BY <1>1, AtSignal
<1>3. row.ingestion = "completed" /\ row.dispatch = "in_progress" /\ handoffs[s] = 0
  BY <1>1, <1>2 DEF PlaceOK
<1>4. PICK accepted \in {0, 1} : handoffs' = [handoffs EXCEPT ![s] = @ + accepted]
  BY DEF StoreErrorAfterDispatch
<1>5. /\ signals' = [signals EXCEPT ![s] = row] /\ pc'[r] = "aborting"
      /\ UNCHANGED <<request, extractions>>
      /\ \A x \in Source : handoffs'[x] = IF x = s THEN accepted ELSE handoffs[x]
  BY <1>1, <1>2, <1>3, <1>4 DEF StoreErrorAfterDispatch, Goes, TypeOK
<1>6. PlaceOK(r)' /\ RowOK(s)'
  BY <1>1, <1>2, <1>3, <1>5 DEF PlaceOK, RowOK, IsPresent, TypeOK, SourceOf, BodyOf
<1>. QED
  BY <1>1, <1>2, <1>3, <1>5, <1>6, AtSignal, RewriteKeeps

\* Every other step of a request moves it on and leaves the Signals alone.
LEMMA StepKeeps ==
  ASSUME TypeOK, OneOwnerPerKey, Signals, NEW r \in Request, Step(r) \/ Fault(r)
  PROVE  Signals'
<1>1. OthersStay(r) /\ pc[r] # "idle"
  BY StepIsLocal
<1>2. SourceOf(r) \in Source
  BY <1>1, BodyType DEF TypeOK, SourceOf, BodyOf
<1>3. CASE ReserveKnown(r)
  BY <1>1, <1>3, MoveKeeps DEF ReserveKnown, Goes, TypeOK
<1>4. CASE AlreadyDispatched(r)
  BY <1>1, <1>4, MoveKeeps DEF AlreadyDispatched, IsDispatched, Goes, TypeOK
<1>5. CASE ReserveInvalid(r) \/ NotDispatchable(r) \/ StoreError(r)
  <2>1. pc'[r] = "aborting" /\ UNCHANGED <<signals, extractions, handoffs>>
    BY <1>5 DEF ReserveInvalid, NotDispatchable, StoreError, Goes, TypeOK
  <2>. QED
    BY <1>1, <2>1, MoveKeeps
<1>6. CASE Record(r) \/ Abort(r) \/ StoreErrorInAbort(r)
  <2>1. pc'[r] \in {"idle", "aborting"} /\ UNCHANGED <<signals, extractions, handoffs>>
    BY <1>6 DEF Record, Abort, StoreErrorInAbort, Answers, Goes, TypeOK
  <2>. QED
    BY <1>1, <2>1, MoveKeeps
<1>. QED
  BY <1>3, <1>4, <1>5, <1>6, ReserveNewKeeps, ExtractReturnsKeeps, ExtractRaisesKeeps,
     ClaimDispatchKeeps, DispatchReturnsKeeps, DispatchRaisesKeeps,
     StoreErrorAfterDispatchKeeps
     DEF Step, Fault

LEMMA BeginKeeps ==
  ASSUME TypeOK, Signals, NEW r \in Request, NEW k \in Key, NEW b \in Body,
         Begin(r, k, b)
  PROVE  Signals'
<1>1. /\ pc'[r] = "reserving" /\ UNCHANGED <<signals, extractions, handoffs>>
      /\ \A q \in Request \ {r} : pc'[q] = pc[q] /\ request'[q] = request[q]
  BY DEF Begin, Goes, TypeOK
<1>2. PlaceInv'
  BY <1>1 DEF Signals, PlaceInv, PlaceOK, SourceOf, BodyOf, IsPresent
<1>3. SoleCaller'
  BY <1>1 DEF Signals, SoleCaller, SourceOf, BodyOf
<1>4. SignalInv' /\ RepostsNameOriginals'
  BY <1>1 DEF Signals, SignalInv, RowOK, RepostsNameOriginals, IsPresent
<1>. QED
  BY <1>2, <1>3, <1>4 DEF Signals

\* Once dispatched, a Signal stays so.
LEMMA DispatchedStays ==
  ASSUME TypeOK, Signals, NEW r \in Request, Step(r) \/ Fault(r),
         NEW s \in Source, signals[s].dispatch = "dispatched"
  PROVE  signals'[s].dispatch = "dispatched"
<1>1. pc[r] # "idle" /\ SourceOf(r) \in Source
  BY StepIsLocal, BodyType DEF TypeOK, SourceOf, BodyOf
<1>2. RowOK(s)
  BY DEF Signals, SignalInv
<1>3. CASE ReserveNew(r)
  BY <1>1, <1>2, <1>3 DEF ReserveNew, RowOK, IsPresent, TypeOK
<1>4. CASE ExtractReturns(r) \/ ExtractRaises(r) \/ DispatchReturns(r) \/ DispatchRaises(r)
           \/ ClaimDispatch(r)
  <2>1. SourceOf(r) # s
    BY <1>4, AtSignal DEF ExtractReturns, ExtractRaises, DispatchReturns, DispatchRaises, ClaimDispatch
  <2>. QED
    BY <1>1, <1>4, <2>1 DEF ExtractReturns, ExtractRaises, DispatchReturns, DispatchRaises,
                            ClaimDispatch, TypeOK
<1>. QED
  BY <1>3, <1>4 DEF Step, Fault, ReserveKnown, ReserveInvalid, AlreadyDispatched,
       NotDispatchable, Record, Abort, StoreError, StoreErrorAfterDispatch, StoreErrorInAbort

\* Only Record completes a row, and with an answer that holds by then.
LEMMA StepAnswers ==
  ASSUME TypeOK, OneOwnerPerKey, Signals, StoredAnswerIsDispatched,
         NEW r \in Request, Step(r) \/ Fault(r)
  PROVE  StoredAnswerIsDispatched'
<1>. SUFFICES ASSUME NEW k \in Key, rows'[k].status = "completed"
              PROVE  /\ rows'[k].answer = rows'[k].body.source
                     /\ signals'[rows'[k].answer].dispatch = "dispatched"
  BY DEF StoredAnswerIsDispatched
<1>1. CASE rows'[k] = rows[k]
  <2>1. rows[k].answer \in Source
    BY <1>1 DEF TypeOK, RegisterOver, RowOver
  <2>. QED
    BY <1>1, <2>1, DispatchedStays DEF StoredAnswerIsDispatched
<1>2. CASE Record(r) /\ k = KeyOf(r)
  <2>1. /\ BodyOf(r) \in Body /\ SourceOf(r) \in Source
        /\ rows[k].status = "pending" /\ rows[k].body = BodyOf(r)
    BY <1>2, BodyType DEF Record, TypeOK, BodyOf, SourceOf, OneOwnerPerKey, Running
  <2>2. rows'[k] = [status |-> "completed", body |-> BodyOf(r), answer |-> SourceOf(r)]
    BY <1>2, <2>1 DEF Record, Completed, MayComplete, TypeOK, RegisterOver
  <2>3. signals'[SourceOf(r)].dispatch = "dispatched"
    BY <1>2 DEF Record, Signals, PlaceInv, PlaceOK
  <2>. QED
    BY <2>2, <2>3 DEF SourceOf
<1>3. CASE Abort(r) /\ k = KeyOf(r)
  <2>1. rows[k].status = "pending" /\ rows[k].body = BodyOf(r)
    BY <1>3 DEF Abort, OneOwnerPerKey, Running
  <2>2. rows'[k] = NoRow
    BY <1>3, <2>1 DEF Abort, Aborted, TypeOK, RegisterOver
  <2>. QED
    BY <2>2 DEF NoRow
<1>. QED
  BY <1>1, <1>2, <1>3, StepOwnsKey DEF Step, Fault,
     ReserveKnown, ReserveNew, ReserveInvalid, ExtractReturns, ExtractRaises,
     ClaimDispatch, AlreadyDispatched, NotDispatchable, DispatchReturns,
     DispatchRaises, StoreError, StoreErrorAfterDispatch, StoreErrorInAbort

LEMMA BeginAnswers ==
  ASSUME TypeOK, StoredAnswerIsDispatched, NEW r \in Request, NEW k \in Key,
         NEW b \in Body, Begin(r, k, b)
  PROVE  StoredAnswerIsDispatched'
  BY DEF Begin, Begun, StoredAnswerIsDispatched, TypeOK, RegisterOver

LEMMA NextInv == IInv /\ [Next]_vars => IInv'
<1>. SUFFICES ASSUME IInv, [Next]_vars PROVE IInv'
  OBVIOUS
<1>1. TypeOK' /\ OneOwnerPerKey'
  BY NextType, NextOwner DEF IInv
<1>2. Signals' /\ StoredAnswerIsDispatched'
  <2>0. TypeOK /\ OneOwnerPerKey /\ Signals /\ StoredAnswerIsDispatched
    BY DEF IInv, Signals
  <2>1. ASSUME NEW r \in Request, Step(r) \/ Fault(r)
        PROVE  Signals' /\ StoredAnswerIsDispatched'
    BY <2>0, <2>1, StepKeeps, StepAnswers
  <2>2. ASSUME NEW r \in Request, NEW k \in Key, NEW b \in Body, Begin(r, k, b)
        PROVE  Signals' /\ StoredAnswerIsDispatched'
    BY <2>0, <2>2, BeginKeeps, BeginAnswers
  <2>3. CASE Crash
    BY <2>0, <2>3 DEF Crash, Signals, PlaceInv, PlaceOK, SoleCaller, SignalInv, RowOK,
         RepostsNameOriginals, StoredAnswerIsDispatched, IsPresent
  <2>4. CASE UNCHANGED vars
    BY <2>0, <2>4 DEF vars, Signals, PlaceInv, PlaceOK, SoleCaller, SignalInv, RowOK,
         RepostsNameOriginals, StoredAnswerIsDispatched, IsPresent, SourceOf, BodyOf
  <2>5. ASSUME NEW r \in Request, NEW k \in Key, AnswerFromRegister(r, k)
        PROVE  UNCHANGED vars
    BY <2>5 DEF AnswerFromRegister
  <2>. QED
    BY <2>1, <2>2, <2>3, <2>4, <2>5 DEF Next
<1>. QED
  BY <1>1, <1>2 DEF IInv, Signals

THEOREM Invariance == Spec => []IInv
  BY InitInv, NextInv, PTL DEF Spec

\* A running request is the only owner of its key's reservation.
THEOREM KeyOwnership == Spec => []OneOwnerPerKey
  BY Invariance, PTL DEF IInv

\* At most one request is at the dispatcher for a Signal.
THEOREM DispatchOwnership == Spec => []OneDispatcher
<1>1. IInv => OneDispatcher
  BY DEF IInv, OneDispatcher, PlaceInv, PlaceOK, SoleCaller
<1>. QED
  BY <1>1, Invariance, PTL

\* An answer that can be replayed names a Signal that has been handed over.
THEOREM AnswersAreTrue == Spec => []StoredAnswerIsDispatched
  BY Invariance, PTL DEF IInv

\* One durable successful handoff for each Signal.
THEOREM OneHandoff == Spec => []HandedOverOnce
<1>1. IInv => HandedOverOnce
  BY DEF IInv, HandedOverOnce, SignalInv, RowOK
<1>. QED
  BY <1>1, Invariance, PTL

\* No retry repeats an extraction, and nothing is handed over unanalysed.
THEOREM OneAnalysis == Spec => []AnalysedOnce
<1>1. IInv => AnalysedOnce
  BY DEF IInv, AnalysedOnce, SignalInv, RowOK, IsPresent
<1>. QED
  BY <1>1, Invariance, PTL

\* Reposts lead to an original in one step.
THEOREM RepostTargets == Spec => []RepostsNameOriginals
  BY Invariance, PTL DEF IInv

-----------------------------------------------------------------------------
\* An answer, once stored, is neither replaced nor forgotten.
THEOREM FinalAnswers == Spec => AnswersAreFinal
<1>1. ASSUME IInv, [Next]_vars, NEW k \in Key, rows[k].status = "completed"
      PROVE  rows'[k] = rows[k]
  <2>1. ASSUME NEW r \in Request, Step(r) \/ Fault(r)
        PROVE  rows'[k] = rows[k]
    <3>1. pc[r] # "idle"
      BY <1>1, <2>1, StepIsLocal DEF IInv
    <3>2. KeyOf(r) # k
      BY <1>1, <3>1 DEF IInv, OneOwnerPerKey, Running
    <3>. QED
      BY <1>1, <2>1, <3>2, StepOwnsKey DEF IInv
  <2>2. ASSUME NEW r \in Request, NEW j \in Key, NEW b \in Body, Begin(r, j, b)
        PROVE  rows'[k] = rows[k]
    BY <1>1, <2>2 DEF Begin, Begun, MayBegin, IInv, TypeOK, RegisterOver
  <2>3. CASE Crash
    BY <2>3 DEF Crash
  <2>4. ASSUME UNCHANGED vars \/ \E r \in Request, j \in Key : AnswerFromRegister(r, j)
        PROVE  rows'[k] = rows[k]
    BY <2>4 DEF vars, AnswerFromRegister
  <2>. QED
    BY <1>1, <2>1, <2>2, <2>3, <2>4 DEF Next
<1>2. IInv /\ [Next]_vars =>
        [\A k \in Key : rows[k].status = "completed" => rows'[k] = rows[k]]_vars
  BY <1>1
<1>. QED
  BY <1>2, Invariance, PTL DEF Spec, AnswersAreFinal

-----------------------------------------------------------------------------
(***************************************************************************)
(* Ingestion implements SignalLifecycle.  A step that rewrites the row of  *)
(* one Signal is a step of that Signal's lifecycle; every other step is a  *)
(* stutter.                                                                *)
(***************************************************************************)
stageOf == [s \in Source |-> StageOf(signals[s])]

LEMMA LifecycleInit == Init => Lifecycle!Init
  BY DEF Init, Lifecycle!Init, StageOf, NoSignal, IsPresent

\* The stages a row can be in.
LEMMA Stages ==
  ASSUME NEW row \in SignalRow
  PROVE  /\ row.ingestion = "absent" => StageOf(row) = "unknown"
         /\ row.ingestion = "reserved" => StageOf(row) = "reserved"
         /\ row.ingestion = "extraction_failed" => StageOf(row) = "rejected"
         /\ row.ingestion = "completed" /\ row.dispatch = "pending" => StageOf(row) = "ready"
         /\ row.ingestion = "completed" /\ row.dispatch = "in_progress" => StageOf(row) = "claimed"
         /\ row.ingestion = "completed" /\ row.dispatch = "dispatched" => StageOf(row) = "delivered"
  BY DEF StageOf

\* Rewriting the row of one Signal moves its stage alone.
LEMMA StageMoves ==
  ASSUME TypeOK, NEW s \in Source, NEW row, signals' = [signals EXCEPT ![s] = row]
  PROVE  /\ stageOf[s] = StageOf(signals[s])
         /\ stageOf' = [stageOf EXCEPT ![s] = StageOf(row)]
  BY DEF stageOf, TypeOK

LEMMA ReserveNewArrives ==
  ASSUME IInv, NEW r \in Request, ReserveNew(r)
  PROVE  SourceOf(r) \in Source /\ Lifecycle!Arrive(SourceOf(r))
<1>0. TypeOK
  BY DEF IInv
<1>1. SourceOf(r) \in Source /\ BodyOf(r) \in Body
  BY <1>0, BodyType DEF TypeOK, SourceOf, BodyOf, ReserveNew
<1>. DEFINE s == SourceOf(r)
            row == Inserted(BodyOf(r))
<1>2. signals[s] \in SignalRow /\ signals[s].ingestion = "absent" /\ row \in SignalRow
  BY <1>0, <1>1, RowType DEF TypeOK, ReserveNew, IsPresent
<1>3. StageOf(row) \in {"reserved", "ready"}
  BY DEF StageOf, Inserted
<1>4. signals' = [signals EXCEPT ![s] = row] /\ UNCHANGED handoffs
  BY DEF ReserveNew
<1>5. stageOf[s] = "unknown" /\ stageOf' = [stageOf EXCEPT ![s] = StageOf(row)]
  BY <1>0, <1>1, <1>2, <1>4, Stages, StageMoves
<1>. QED
  BY <1>1, <1>3, <1>4, <1>5 DEF Lifecycle!Arrive, Lifecycle!Moves, stageOf

LEMMA ExtractAnalyses ==
  ASSUME IInv, NEW r \in Request, ExtractReturns(r) \/ ExtractRaises(r)
  PROVE  SourceOf(r) \in Source /\ Lifecycle!Analyse(SourceOf(r))
<1>. DEFINE s == SourceOf(r)
<1>0. TypeOK /\ Signals /\ pc[r] = "extracting" /\ UNCHANGED handoffs
  BY DEF IInv, Signals, ExtractReturns, ExtractRaises
<1>1. s \in Source /\ signals[s] \in SignalRow /\ signals[s].ingestion = "reserved"
  BY <1>0, AtSignal DEF PlaceOK
<1>2. CASE ExtractReturns(r)
  <2>. DEFINE row == CompletedSignal(signals[s])
  <2>1. row \in SignalRow /\ row.ingestion = "completed" /\ row.dispatch = "pending"
    BY <1>1 DEF CompletedSignal, SignalRow, Ingestion, Dispatch
  <2>2. signals' = [signals EXCEPT ![s] = row]
    BY <1>2 DEF ExtractReturns
  <2>3. StageOf(signals[s]) = "reserved" /\ StageOf(row) = "ready"
    BY <1>1, <2>1, Stages
  <2>4. stageOf[s] = "reserved" /\ stageOf' = [stageOf EXCEPT ![s] = StageOf(row)]
    BY <1>0, <1>1, <2>2, <2>3, StageMoves
  <2>. QED
    BY <1>0, <1>1, <2>3, <2>4 DEF Lifecycle!Analyse, Lifecycle!Moves, stageOf
<1>3. CASE ExtractRaises(r)
  <2>. DEFINE row == FailedExtraction(signals[s])
  <2>1. row \in SignalRow /\ row.ingestion = "extraction_failed"
    BY <1>1 DEF FailedExtraction, SignalRow, Ingestion, Dispatch
  <2>2. signals' = [signals EXCEPT ![s] = row]
    BY <1>3 DEF ExtractRaises
  <2>3. StageOf(signals[s]) = "reserved" /\ StageOf(row) = "rejected"
    BY <1>1, <2>1, Stages
  <2>4. stageOf[s] = "reserved" /\ stageOf' = [stageOf EXCEPT ![s] = StageOf(row)]
    BY <1>0, <1>1, <2>2, <2>3, StageMoves
  <2>. QED
    BY <1>0, <1>1, <2>3, <2>4 DEF Lifecycle!Analyse, Lifecycle!Moves, stageOf
<1>. QED
  BY <1>1, <1>2, <1>3

LEMMA ClaimDispatchClaims ==
  ASSUME IInv, NEW r \in Request, ClaimDispatch(r)
  PROVE  SourceOf(r) \in Source /\ Lifecycle!Claim(SourceOf(r))
<1>. DEFINE s == SourceOf(r)
            row == Claimed(signals[s])
<1>0. TypeOK /\ Signals /\ pc[r] = "claiming" /\ MayDispatch(signals[s]) /\ UNCHANGED handoffs
  BY DEF IInv, Signals, ClaimDispatch
<1>1. s \in Source /\ signals[s] \in SignalRow
  BY <1>0, AtSignal
<1>2. row \in SignalRow /\ row.ingestion = "completed" /\ row.dispatch = "in_progress"
  BY <1>0, <1>1 DEF Claimed, MayDispatch, SignalRow, Ingestion, Dispatch
<1>3. signals' = [signals EXCEPT ![s] = row]
  BY DEF ClaimDispatch
<1>4. StageOf(signals[s]) = "ready" /\ StageOf(row) = "claimed"
  BY <1>0, <1>1, <1>2, Stages DEF MayDispatch
<1>5. stageOf[s] = "ready" /\ stageOf' = [stageOf EXCEPT ![s] = StageOf(row)]
  BY <1>0, <1>1, <1>3, <1>4, StageMoves
<1>. QED
  BY <1>0, <1>1, <1>4, <1>5 DEF Lifecycle!Claim, Lifecycle!Moves, stageOf

\* What every step at the dispatcher starts from.
LEMMA AtDispatcher ==
  ASSUME IInv, NEW r \in Request, pc[r] = "dispatching"
  PROVE  /\ SourceOf(r) \in Source
         /\ signals[SourceOf(r)] \in SignalRow
         /\ signals[SourceOf(r)].ingestion = "completed"
         /\ signals[SourceOf(r)].dispatch = "in_progress"
         /\ handoffs[SourceOf(r)] = 0
         /\ stageOf[SourceOf(r)] = "claimed"
<1>1. TypeOK /\ Signals
  BY DEF IInv, Signals
<1>2. SourceOf(r) \in Source /\ signals[SourceOf(r)] \in SignalRow /\ PlaceOK(r)
  BY <1>1, AtSignal
<1>. QED
  BY <1>2, Stages DEF PlaceOK, stageOf

LEMMA DispatchAcceptsOrReleases ==
  ASSUME IInv, NEW r \in Request, DispatchReturns(r) \/ DispatchRaises(r)
  PROVE  /\ SourceOf(r) \in Source
         /\ Lifecycle!Accept(SourceOf(r)) \/ Lifecycle!Release(SourceOf(r))
<1>. DEFINE s == SourceOf(r)
<1>0. TypeOK /\ pc[r] = "dispatching"
  BY DEF IInv, DispatchReturns, DispatchRaises
<1>1. CASE DispatchReturns(r)
  <2>. DEFINE row == Dispatched(signals[s])
  <2>1. row \in SignalRow /\ row.ingestion = "completed" /\ row.dispatch = "dispatched"
    BY <1>0, AtDispatcher DEF Dispatched, SignalRow, Ingestion, Dispatch
  <2>2. signals' = [signals EXCEPT ![s] = row]
    BY <1>1 DEF DispatchReturns
  <2>3. StageOf(row) = "delivered" /\ s \in Source
    BY <1>0, <2>1, AtDispatcher, Stages
  <2>4. stageOf' = [stageOf EXCEPT ![s] = StageOf(row)]
    BY <1>0, <2>2, <2>3, StageMoves
  <2>5. handoffs[s] + 1 = 1
    BY <1>0, AtDispatcher
  <2>6. handoffs' = [handoffs EXCEPT ![s] = 1]
    BY <1>1, <2>5 DEF DispatchReturns
  <2>. QED
    BY <1>0, <2>3, <2>4, <2>6, AtDispatcher DEF Lifecycle!Accept, Lifecycle!Moves, stageOf
<1>2. CASE DispatchRaises(r)
  <2>. DEFINE row == Released(signals[s])
  <2>1. row \in SignalRow /\ row.ingestion = "completed" /\ row.dispatch = "pending"
    BY <1>0, AtDispatcher DEF Released, SignalRow, Ingestion, Dispatch
  <2>2. signals' = [signals EXCEPT ![s] = row] /\ UNCHANGED handoffs
    BY <1>2 DEF DispatchRaises
  <2>3. StageOf(row) = "ready" /\ s \in Source
    BY <1>0, <2>1, AtDispatcher, Stages
  <2>4. stageOf' = [stageOf EXCEPT ![s] = StageOf(row)]
    BY <1>0, <2>2, <2>3, StageMoves
  <2>. QED
    BY <1>0, <2>2, <2>3, <2>4, AtDispatcher DEF Lifecycle!Release, Lifecycle!Moves, stageOf
<1>. QED
  BY <1>0, <1>1, <1>2, AtDispatcher

LEMMA StoreErrorAccepts ==
  ASSUME IInv, NEW r \in Request, StoreErrorAfterDispatch(r)
  PROVE  /\ SourceOf(r) \in Source
         /\ Lifecycle!Accept(SourceOf(r)) \/ UNCHANGED <<stageOf, handoffs>>
<1>. DEFINE s == SourceOf(r)
<1>0. TypeOK /\ pc[r] = "dispatching" /\ UNCHANGED signals
  BY DEF IInv, StoreErrorAfterDispatch
<1>1. UNCHANGED stageOf
  BY <1>0 DEF stageOf
<1>2. PICK accepted \in {0, 1} : handoffs' = [handoffs EXCEPT ![s] = @ + accepted]
  BY DEF StoreErrorAfterDispatch
<1>3. CASE accepted = 0
  BY <1>0, <1>1, <1>2, <1>3, AtDispatcher DEF TypeOK
<1>4. CASE accepted = 1
  <2>0. handoffs[s] + accepted = 1
    BY <1>0, <1>4, AtDispatcher
  <2>1. handoffs' = [handoffs EXCEPT ![s] = 1]
    BY <1>2, <2>0
  <2>2. stageOf' = [stageOf EXCEPT ![s] = "claimed"]
    BY <1>0, <1>1, AtDispatcher DEF stageOf
  <2>. QED
    BY <1>0, <2>1, <2>2, AtDispatcher DEF Lifecycle!Accept, Lifecycle!Moves, stageOf
<1>. QED
  BY <1>0, <1>2, <1>3, <1>4, AtDispatcher

LEMMA LifecycleStep ==
  IInv /\ [Next]_vars => [Lifecycle!Next]_(Lifecycle!vars)
<1>. SUFFICES ASSUME IInv, [Next]_vars
     PROVE  Lifecycle!Next \/ UNCHANGED <<stageOf, handoffs>>
  BY DEF Lifecycle!vars, stageOf
<1>1. ASSUME NEW r \in Request, Step(r) \/ Fault(r)
      PROVE  Lifecycle!Next \/ UNCHANGED <<stageOf, handoffs>>
  <2>1. CASE UNCHANGED <<signals, handoffs>>
    BY <2>1 DEF stageOf
  <2>2. CASE ReserveNew(r)
    BY <2>2, ReserveNewArrives DEF Lifecycle!Next
  <2>3. CASE ExtractReturns(r) \/ ExtractRaises(r)
    BY <2>3, ExtractAnalyses DEF Lifecycle!Next
  <2>4. CASE ClaimDispatch(r)
    BY <2>4, ClaimDispatchClaims DEF Lifecycle!Next
  <2>5. CASE DispatchReturns(r) \/ DispatchRaises(r)
    BY <2>5, DispatchAcceptsOrReleases DEF Lifecycle!Next
  <2>6. CASE StoreErrorAfterDispatch(r)
    BY <2>6, StoreErrorAccepts DEF Lifecycle!Next
  <2>7. CASE ReserveKnown(r) \/ ReserveInvalid(r) \/ AlreadyDispatched(r) \/ NotDispatchable(r)
             \/ Record(r) \/ Abort(r) \/ StoreError(r) \/ StoreErrorInAbort(r)
    <3>1. UNCHANGED <<signals, handoffs>>
      BY <2>7 DEF ReserveKnown, ReserveInvalid, AlreadyDispatched, NotDispatchable, Record,
           Abort, StoreError, StoreErrorInAbort
    <3>. QED
      BY <2>1, <3>1
  <2>. QED
    BY <1>1, <2>2, <2>3, <2>4, <2>5, <2>6, <2>7 DEF Step, Fault
<1>2. CASE UNCHANGED vars \/ Crash
  BY <1>2 DEF vars, Crash, stageOf
<1>3. ASSUME NEW r \in Request, NEW k \in Key,
             AnswerFromRegister(r, k) \/ \E b \in Body : Begin(r, k, b)
      PROVE  UNCHANGED <<stageOf, handoffs>>
  BY <1>3 DEF AnswerFromRegister, Begin, vars, stageOf
<1>. QED
  BY <1>1, <1>2, <1>3 DEF Next

\* Ingestion implements what A promises for the life of a Signal.
THEOREM Implementation == Spec => ImplementsLifecycle
  BY LifecycleInit, LifecycleStep, Invariance, PTL DEF Spec, ImplementsLifecycle, Lifecycle!Spec
=============================================================================
