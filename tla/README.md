# Signal Desk: a verification project

TLA+ specifications of the stateful parts of Signal Desk (`app/`), TLC
configurations that check them on small instances, and TLAPS proofs of what
matters most about them for every value of the constants. Paths are relative to
the repository.

## 1. The system

Signal Desk is one Python process (`Dockerfile:25`): FastAPI on one asyncio
event loop over SQLite files. Reports from the public ("sources") become
Signals with Claims; Claims are verified against Evidence; Signals are gathered
in Cases that an LLM assesses; employees approve the delisting of simulated
products. The repository names three owners: A (Signals, Claims, Evidence), B
(Cases) and C (products, approvals; here the demo replay).

| Component | State it keeps | Operations that change it | Talks to |
|---|---|---|---|
| Signal store (`signal_store.py`) | signals, claims, attempts, evidence, `request_idempotency`, `source_idempotency` | reserve_source, complete_signal, fail_extraction, begin/complete/abort_dispatch, begin/complete/abort_idempotent_request, append_verification; each one BEGIN IMMEDIATE transaction | called by A's API, read by B |
| Signal API (`signal_api.py`) | none but the running coroutines | ingest, verify_claim | store, extractor, verifier, evidence loader, Case dispatcher |
| Claim extraction, claim verification | none | bounded model calls | OpenAI |
| Source and evidence loader (`demo_loader.py`) | none (a data set, read) | - | files |
| Case store (`case_store.py`) | cases, case_revisions, case_timeline, case_signal_links, case_operations, case_model_calls, case_agent_status | save_revision, record_repost, reserve_model_call, save_agent_status | called by B's service |
| Case service (`case_agent.py`) | the coroutines that await a decision | dispatch, advance | Case store, A's store (reads), OpenAI, product catalogue |
| Demo replay (`demo_replay.py`) | one JSON row: stage, Case, products, approvals, executions, recorded keys | reset, advance, approve, execute | fixture file |
| Run store and planner (`store.py`, `planner.py`, `/api/plans`) | runs | create_running, complete, fail, fail_stale_running | OpenAI |
| Limits (`rate_limit.py`) | buckets in memory, a semaphore | allow, try_acquire, release | `main.py` |
| HTTP composition (`main.py`), session, configuration | cookies | routes, middleware | all |
| Frontend, its mock server, scripts | browser state | approval flow with Idempotency-Keys | HTTP API |

What is hard in it:

- *Concurrency.* Coroutines interleave while one awaits a model: the extractor,
  the verifier, the Case decision, and ingestion awaits the whole of B's
  dispatch. Values read before an await are used after it. The defaults allow
  two Case decisions at a time (`config.py:74`), and ingestion adds its own.
- *Failure.* Each transaction may raise; a restart loses the coroutines and keeps
  the tables; nothing at startup repairs `pending`, `reserved` or `in_progress`
  rows. One logical step is often two transactions (a revision and the agent's
  observation of it; an accepted handoff and its note; the work and the stored
  answer).
- *Retries.* Clients retry with the same Idempotency-Key or another one, with the
  same body or another one, before or after the first attempt has ended.
- *Ordering.* Reposts come before their originals, decisions after later
  revisions, executions after the Case has moved on.

What makes each component correct: a key is bound to one body and one final
answer; a source is analysed once and handed over at most once; a Signal joins
one Case and a Case is an append-only log whose last assessment covers the
Claims of its members; products are delisted only under a valid approval, and
once. `PROJECT.json` lists every hazard with its line and the properties aimed
at it.

## 2. The plan

| # | Modules | Question | State |
|---|---|---|---|
| 1 | `RequestIdempotency`, `SignalLifecycle`, `SignalIngestion`, `SignalIngestionProofs` | does ingestion do its work once, whatever fails? | checked and proved |
| 2 | `CaseLog`, `CaseService`, `CaseServiceProofs` | do Cases survive interleaved decisions? | checked and proved |
| 3 | `DemoReplay`, `DemoReplayProofs` | can anything be delisted without an approval? | checked and proved |
| 4 | `ClaimVerification` (verify_claim over `RequestIdempotency`, append_verification, the stage gate of load_evidence), `ClaimVerificationProofs` | whose verdict stands when verifications interleave? | checked and proved |
| 5 | `SignalDesk` (1 and 2 composed, with the writes of 4), `SignalDeskProofs` | what does B see of A's states: Signals dispatched before they are analysed, Claims verified again while a decision is pending? | checked and proved |
| 6 | `RateLimiter`, `RateLimiterProofs`, `PlanRuns`, `PlanRunsProofs` | do the limits hold when buckets are evicted; can a run be failed as stale while its planner works on it? | checked and proved |

What could follow: the limits of the Case endpoints in `CaseService`.

Each component is a module with CONSTANTS and named assumptions, one action per
transaction (or per stretch of code between two awaits), and no RECURSIVE
operator, so that theorems can be stated about it. `MC*` modules only choose
values for the constants.

## 3. The modules

### SignalIngestion (with RequestIdempotency, SignalLifecycle)

`POST /api/v1/signals/ingest`. `pc[r]` says which transaction of
`SignalAPI.ingest` request `r` performs next; one action is one transaction with
the code around it. `rows` is `request_idempotency` for the operation
`signals.ingest` (its three transactions are the operators of
`RequestIdempotency`); `signals[s]` joins the rows of `signals` and
`source_idempotency` of a source, whose identity stands for the Signal's; Claims
are stored in the same transaction as the status `completed` and are left out. A
body is a source, a relation (`original`, `independent_report` and `unknown`
take the same path and are one value, "report") and a target. `extractions` and
`handoffs` are history: calls to the extractor, and normal returns of the
dispatcher.

| Code | Action |
|---|---|
| `_begin` | `Begin`, `AnswerFromRegister` (replay, in progress, key reused) |
| `reserve_source` | `ReserveKnown`, `ReserveNew`, `ReserveInvalid` |
| `await extractor`, `complete_signal` / `fail_extraction` | `ExtractReturns`, `ExtractRaises` |
| `begin_dispatch` | `ClaimDispatch`, `AlreadyDispatched`, `NotDispatchable` |
| `await dispatcher`, `complete_dispatch` / `abort_dispatch` | `DispatchReturns`, `DispatchRaises` |
| `_complete`, `_abort` | `Record`, `Abort` |
| an error of SQLite; a restart | `StoreError`, `StoreErrorAfterDispatch`, `StoreErrorInAbort`; `Crash` |

The event loop interleaves requests only at the awaits; the model interleaves
them at every transaction, which allows more than one process over the same
file and is what `BEGIN IMMEDIATE` is there for. `SignalLifecycle` is what A
promises of one Signal (SPEC.md, 10.1), and `ImplementsLifecycle` is the
refinement.

### ClaimVerification (with RequestIdempotency)

`POST /api/v1/claims/{id}/verify`, the other half of A's API. `rows[c]` is
`request_idempotency` for the operation `claims.verify:c`; `attempts[c]` joins
the rows of `verification_attempts` and `evidence` of a Claim, in the order of
their numbers; what a verification changes of the Claim itself is read back from
them (`Canonical`, the code's `_get_claim`). A body is the path and the payload:
the Claim, the Evidence and the stage. `by` of an attempt is history.

| Code | Action |
|---|---|
| `_begin` | `Begin`, `AnswerFromRegister` |
| `get_claim`, `load_evidence` | `Refuse`, `Shortcut` (a verdict without a model call), `Ask` |
| `await provider.assess`, `_validate_decision` | `Decide`, `Miss` (a second call after the first failure) |
| `append_verification` | `Persist` |
| `_complete`, `_abort` | `Record`, `Abort` |
| an error of SQLite or of the data set; a restart | `StoreError`, `StoreErrorInAbort`; `Crash` |

`Decision` is what the model may say, `IntroducedAt` the data set.
`AttemptsBound` bounds the attempts kept when a request begins; it is the only
guard that the code does not have. Claims that the store does not have and
Evidence that the data set does not have are in the module and take the path of
`Refuse`; the run reaches it by Evidence of a later stage.

### CaseService (with CaseLog)

`POST /api/v1/cases/dispatch`, `.../advance` and the dispatcher that ingestion
calls. The handlers await nothing but the decision, so one action is all that
runs before it (`StartDispatch`, `StartAdvance`) or after it (`SaveDispatch`,
`SaveAdvance`, `SavedMeanwhile`, `Fail`), or a whole request that needs none
(`Retry`, `DispatchAssigned`, `AttachRepost`). `cases`, `revisions`, `timeline`,
`links`, `operations`, `observed` are the tables; the items one transaction adds
to the timeline are one entry. `seen` of a pending request is the version of
each Case the model was shown, and `claims` are the Claims that were read before
the await: those of the Signal, or those of the Case to advance. A decision is
any Case that was shown, or a new one; what it says otherwise is left out, except
that an invalid one ends in `Fail`. `Finishes` is the second transaction (the
observation): `done`, or an error in its place. A verdict is what A holds of a
Claim, which an update must match when it is sent; alone, the module takes any
(`SignalDesk` compares).
`DailyLimit` bounds `calls`, and `NewDay` resets them at any time.

A client may send a `replay_at` or leave it out (`Replay`). With one, it is the
time of the event and of the observation, and part of the request hash; without
one, the server's clock is read when the request saves (`IsNow`), and nothing is
assumed of that clock. So of two live requests with one key and one body, the
second to end observes the revision that the first has saved, at its own later
time: `SavedMeanwhile`. `repeat` in an observation remembers that, for
`OutdatedIsNoticed`; the code keeps no such mark.

Left out: requests refused before anything is written; more than 50 Cases
(`list_cases`); a report has exactly one Claim.

`CaseLog` is the promise: a Signal joins one Case for good, a repost that of its
original, and a Case is an append-only sequence of revisions that each cover the
Claims of all who joined.

### SignalDesk

`create_app` connects A and B: ingestion awaits `InProcessCaseDispatcher`, B
reads Signals and Claims from A's store, and the Case endpoints are open to
clients at any time. The module INSTANCEs `SignalIngestion` (as `A`) and
`CaseService` (as `B`), and every action is one of A, one of B, or one of each in
the same step.

| Code | Action |
|---|---|
| `SignalAPI.ingest` up to and after the dispatcher | `Ingests` |
| `InProcessCaseDispatcher`, before the decision | `Awaits` |
| its return or exception, with `complete_dispatch` / `abort_dispatch` | `HandsOver` (`Returns`, `Raises`) |
| `POST /cases/dispatch`, `/cases/{id}/advance` | `Dispatches`, `Advances`, `Decided`, `Retries` |
| `append_verification` | `Verifies` |
| midnight; a restart of the one process | `NextDay`; `Crash` |

`Verifies` stands for the whole of a verification: it gives a Claim of an
analysed report another verdict and Evidence (`verdict`), which is all that B
reads of it. B's parameter for the Claims of a Signal is what A has at that
moment: none before the extraction is completed (`ClaimsOf`). `held` and `early`
are history. A handoff that B ends without an await (the Signal has a Case, or
is a repost) is one step with A's note of it; A's own transaction may still fail
then (`StoreErrorAfterDispatch`).

### PlanRuns (with RateLimiter)

`POST /api/plans`: both limiters, the slots of `BoundedConcurrency`, the table of
runs and the planner that is awaited. `RateLimiter` is `InMemoryRateLimiter` as
operators over its buckets; what passed is kept as its age in units of time, and
`Tick` advances all ages. A unit is longer than the wait for a slot, so time
stands while a request waits; one clock stands for the limiters' monotonic one
and the table's. A request that its visitor's limit refuses changes nothing and
is no action; one that the common limit refuses has been counted by the first
(`RefusedTogether`).

| Code | Action |
|---|---|
| `limiter.allow`, `global_limiter.allow` | `Submit`, `RefusedTogether` |
| `concurrency.try_acquire` | `GiveUp` |
| `create_running` | `Create`, `NotCreated` |
| the planner's answer, `complete` / `fail`, and the release of the slot | `End`, `NotEnded` |
| `fail_stale_running` from history and readiness | `Sweep` |
| midnight; a restart, with the repair at startup | `NewDay`; `Crash` |

`passes` and `admitted` are history: what passed since the process started, as a
restart empties the limiters. `MaxRuns` bounds the table.

### DemoReplay

The demo controller keeps one row and each operation is one transaction, so
`Reset`, `Advance`, `Approve` and `Execute` are one action each. The fixture is
the constants `Relation`, `CaseVersion`, `Stage4Products`, `Flaky` and the
operators `FixtureProduct`, `FixtureAgent`; `FixtureAssumption` states what the
proofs use of it and TLC evaluates it for the values in `MCDemoReplay`, taken
from `contracts/fixtures/demo/backend_replay.json`. A repeated key and a refused
request change nothing and are not actions. Signals, texts and traces are left
out. `events` is the timeline, kept as the number of its items that tell of each
approval and of each attempt at a product.

## 4. What TLC checks

| Run | Instance | What it shows |
|---|---|---|
| `ingestion_safety` | 3 sources, 6 bodies, 2 keys, 3 requests, crashes and database errors; 146k states | key ownership, one dispatcher, true and final answers, one handoff, one analysis, no chains of reposts, the lifecycle |
| `ingestion_liveness` | the same with 2 requests and no faults, `FairSpec` | every key, reservation and claimed handoff is resolved |
| `ingestion_ownership` | as above with crashes | violated: `InProgressIsOwned` (finding 1) |
| `verification_safety` | a checkable Claim and an experience, 2 pieces of Evidence, 4 bodies, 7 decisions (4 of them refused), 2 keys, 2 requests, crashes and database errors | the verdict that stands is backed by its Evidence, an answer is an attempt of its own key, no result is refused by the store, an answered key makes no further attempt |
| `case_safety` | 2 reports and a repost, 2 Cases, 3 keys, 2 pending decisions, crashes, failing observations, live requests; 243k states | no lost Claims, no key or Signal worked on twice, the log of Cases |
| `case_observation` | 1 report and a repost, 1 Case, 3 times, `replay_at` sent or left out, failing observations; 420k states | an outdated observation is noticed if events carry increasing times, unless it repeats that of another live request with its key |
| `case_stale_decision` | as `case_safety`, without faults | violated: `DecidedFromPrevious` (finding 2) |
| `case_retry` | the same | violated: `RetriesRepeatAnswer` (finding 3) |
| `demo_safety` | 4 products, 3 approvals, 3 keys, all stages, both scenarios, resets; 69k states | approvals, the gate of stage 4, retries, overlapping approvals |
| `desk_safety` | 2 reports and a repost of the first, ingestion requests one after the other, a client with one Case request at a time, one Case, 2 verdicts, crashes and a Case store that fails between its transactions; 1.4M states | a Signal marked dispatched is in an observed Case, an analysed one is missing from its Case only if a client dispatched it too early, no revision records an update from before the previous revision |
| `desk_unanalysed` | the same without faults | violated: `FailedStaysOut` (finding 4) |
| `plans_safety` | 3 visitors on 2 buckets, 3 requests for 2 slots, 2 runs, restarts and errors of the store, `FairSpec`; 321k states | the limits hold but for a visitor who is forgotten, no slot leaks, no run ends twice, none runs for ever |

*Bounds.* Two requests suffice for a race on a key or a source; the third one is
a bystander that may meet the leftovers of both. Three sources give a repost of
a repost and two sources posted as reposts of each other. Two keys let a source
be posted again under another key, and one key with another body. Two kept
attempts, with two more that may be under way, give a Claim whose verdict is
replaced between another request's attempt and its answer. In
`CaseService` a key saves at most one revision, so three keys bound a Case at
version 3: enough for a decision made at version 1 to meet version 2, and for a
retry after it. Three times let a clock go on, or back, between three revisions;
the other runs of `CaseService` have one time and live requests, since no
property of theirs depends on a time. `case_observation` leaves out of a state
what no guard there reads (`ObservationView`). In `DemoReplay` the fixture is
finite, a key is used once per operation between resets, and three approvals
allow two that overlap and one that is stale. No other counter is unbounded.

In `SignalDesk` the races are between two actors: ingestion of a Signal and a
client of B, or a pending advance and a verification. One ingestion request at a
time, with its key reused, and one client make each of them; a crash leaves what
a second request would. Larger instances were run while the module was written
(two reports with every fault; a report and its repost with every fault and two
keys), and the properties hold there. The run leaves out of a state what nothing
there reads (`View`): the histories of the parts, the timeline, and all revisions
but the last. With one decision a day, the limit is met in every behaviour that
goes on.

In `PlanRuns` two buckets for three visitors make an eviction, one pass in a
Window of two units makes the second one refused, three requests for two slots
make one give up, and a timeout equal to the TTL is the longest that
`TimeoutAssumption` admits. Of two runs, one can be held while the other was
left running.

*Fairness.* Two specifications assume some. `FairSpec` of `SignalIngestion`:
weak fairness of the steps of each request. The event loop runs a ready
coroutine, SQLite calls block for a bounded time (`busy_timeout`), and every
await has a timeout (`claim_extraction.py`, `case_agent.py:85`). A step of a
request is enabled until the request itself takes it. With crashes or database
errors those liveness properties are false, and the code promises nothing else:
a key whose request died stays `pending`.

`FairSpec` of `PlanRuns`: weak fairness of each request, as above (a slot is
waited for, and the planner awaited, for a bounded time); strong fairness of
`Tick`, since time passes however often new requests come to wait; and weak
fairness of `Sweep`, which is the condition in README.md:196 ("when
history/readiness is checked"). `RunsEnd` holds under it with restarts and errors
of the store: they are what the repair is there for.

*Deadlock* is checked in every run.

## 5. Findings

1. `InProgressIsOwned`. A restart while the Case dispatcher is awaited leaves
   `dispatch_status = in_progress`. No caller owns the dispatch, nothing
   releases it, and later requests get `dispatch_in_progress`
   (`signal_store.py:45-46`, SPEC.md:408-409).
2. `DecidedFromPrevious`. `dispatch` reads the chosen Case again after the
   decision, so the version check of `save_revision` cannot fail and a stale
   assessment replaces a newer one (`contracts/README.md:57-58`). Claims are not
   lost by it: `ClaimsOfMembers` holds. `advance` does detect it.
3. `RetriesRepeatAnswer`. A dispatch of a Signal that already has a Case is not
   recorded under its key (`contracts/README.md:55-56`).
4. `FailedStaysOut`. Ingestion does not hand over a Signal whose extraction
   failed, but `POST /api/v1/cases/dispatch` looks at no status: B shows the
   Signal to the model without Claims, and it joins a Case like any other
   (SPEC.md:405-406, `case_agent.py:141`). `MissesOnlyEarly` is what remains
   true.

No document says that the observation of an agent is always current, so what the
exception in `OutdatedIsNoticed` stands for is not among the findings; but the
run does reach it. Two requests without `replay_at`, with one key and one body,
await decisions on a Signal. The first saves version 1. A client advances the
Case to version 2, and the observation of that may be written or fail. The
second request gets version 1 back from `save_revision` and observes it
(`case_agent.py:262-265`) at a time after the event of version 2. Later requests
compare only times (`_ensure_observation`), so the observation of version 1
stands until the next revision or repost of the Case. Without `repeat` in the
property, TLC finds such a behaviour.

## 6. What is proved

Seven modules prove, for every value of the constants that satisfies the named
assumptions, every invariant and action property of the passing runs; section 7
lists what is left. `RateLimiterProofs` holds lemmas only, the others a theorem
for each property.

*Ingestion.* From `BodyAssumption` and `FaultsAssumption`. The properties are
not inductive one by one: that an answer stays true needs that a dispatched
Signal stays so; that a handoff happens once needs that a Signal without an
`in_progress` mark has no request at the dispatcher and no uncounted handoff;
that a running request owns its key needs that no other request can free it.
The invariant ties the place of a request to the row of its key and to the row
of its Signal; each action is one lemma. `FinalAnswers` and `Implementation`
(every step is a step of `SignalLifecycle` or a stutter) follow from it.

*Demo replay.* From `FixtureAssumption` and `NoneAssumption`. The invariant adds
that every approval was given at an earlier or the present stage for products
the Case named then (`ApprovalsFit`), that successes are approved and delisted
(`SuccessesStand`), and what is delisted before stage 4 and after it
(`StagesFit`). The last is why the fixture of stages 5 and 6, which lists
products as delisted, delists nothing: the gate has let the replay past stage 4.
That the agent waits when stage 4 is entered rests on a confirmed product that
was no candidate before it. `OneEffectPerKey` has an
invariant of its own (`EffectInv`): there are as many approvals as keys recorded
for them, and a product of an approval that has not succeeded has been attempted
once for every key of its executions, since each execution attempts all such
products and what has succeeded is left alone. A sum over the timeline is
avoided: `events` counts what tells of each approval and of each attempt.

*Case service* (`CaseServiceProofs`). From `OriginalAssumption`,
`NoneAssumption`, `TimeAssumption` and `LimitAssumption`. All the properties of
its passing runs are proved. None is inductive alone; the parts of the invariant
are:

- what is linked or recorded exists (`LinksExist`, `RecordedExist`), and a Case
  that exists has a timeline with a latest event, so that `LatestTime` is defined
  (`TimelinesHaveLatest`);
- what a request read before its await is what the Case still has, unless the
  version says otherwise (`PendingFits`). This is why the version check of
  `advance` suffices: without it the Claims read earlier would overwrite those of
  Signals that joined meanwhile. `dispatch` needs no such part, since it adds to
  the Case that it reads again;
- the last revision is the Case, each revision has one recorded request, and
  answers are those of recorded requests (`RevisionsFit`, `RevisionsMade`,
  `AnswersKnown`);
- the timeline tells of the members and of each revision in order (`MembersTold`,
  `AssessmentsCounted`, `VersionsOrdered`), its last event is of the present
  version, and each recorded request has its event (`LastEventIsCurrent`,
  `RecordedHaveEvents`, for those that came with a `replay_at`); as long as times
  increase, an observation is that of an event unless it is a `repeat`
  (`ObservedFits`), from which `OutdatedIsNoticed` follows.

The lemmas go by what a step writes: both kinds of revision, and a repost, change
the store in the same manner, so each part is proved for that effect once.
`Implementation` maps the steps to those of `CaseLog`.

*Verification* (`ClaimVerificationProofs`). From `BodyAssumption`,
`DecisionAssumption` and `NoneAssumption`. The invariant says that a running
request owns the pending row of its key, that no other request has the same
Claim and key, and what has been found for it at each place: before
`append_verification` a result that the store accepts, before `_complete` an
attempt of its own key that is kept (`ResultFits`). The answer is taken from the
request and not from the store, so attempts of other requests do not matter. That
the verdict that stands is backed by its Evidence is an invariant beside it
(`GroundInv`): every kept success, and every result on its way to the store, is
borne out by the stances it cites, and a Claim with a success has a last one,
which is the one readers find. An attempt is only ever appended, so a failure
after it changes nothing.

*Plan runs* (`PlanRunsProofs`). From `TimeoutAssumption` and `LimitAssumption`.
Each holder of a slot has a run of its own that still runs and is no older than
`Timeout` (`RunsHeld`, `RunsOwned`); with `Timeout <= TTL` no repair takes it for
stale, and so no run that has ended is written again. Slots are counted with the
library's facts about finite sets.

*The limits* (`RateLimiterProofs` and the second half of `PlanRunsProofs`). From
`WindowAssumption`, `BucketsAssumption` and `LimitAssumption`. `WithinLimits`
compares what has passed with the limits, and the code compares only what is in
a bucket; so the invariant compares the two, entry by entry from the newest
(`Matches`). A bucket may have more than the record, which is expired and which
the next call pops; it may have less only if it was evicted since the oldest pass
it lacks, and then `MaxBuckets` others have passed at that time or later
(`Overtaken`, `Remembered`). The step that needs care is the eviction. The table
is full of others then, each of which has passed no earlier than the evicted
visitor, because the bucket with the oldest last pass goes; and their buckets
agree with the record, so the record has those passes too. From then on nothing
makes the witnesses disappear but the end of the Window, which takes the oldest
pass of the forgotten visitor first. The one bucket of all together is never
evicted and lacks nothing (`Complete`).

The lemmas about `allow` are stated once for any bucket and any record:
`FreshMatches` (what is popped is expired), `AppendMatches`, `TailMatches`,
`AgedMatches`, and `PassedTable` for the table. That a set of ages has an oldest
live entry (`LeastNumber`) comes from the library's well-foundedness of `<` on
the naturals, which needs no induction here.

*The composition* (`SignalDeskProofs`). From `OriginalAssumption`,
`NamesAssumption` (ingestion requests are no clients, and no client sends a key
of the dispatcher, which is made from the Signal's id, `case_agent.py:308`; the
code does not refuse such a client, who would only make a handoff conflict, or
repeat itself) and
`FaultsAssumption`. Every step of it is a step of ingestion or leaves ingestion
alone (`ImplementsIngestion`), so the theorems of `SignalIngestionProofs` hold in
it; `HandoffsStayUnique` takes over those that the rest needs. It does not
implement `CaseService`, which shows the model no Signal without its Claim, so
the Case side has an invariant of its own:

- what is linked or recorded is a Case that exists, and what is recorded under
  the key of a handoff is where its Signal went (`CaseInv`). Links, Cases and
  observations only grow (`Grows`);
- an ingestion request that waits for a decision is at the dispatcher, under the
  key of its own Signal (`HandoffsWait`). So whichever way the dispatcher
  returns, the Signal it is about has an observed Case (`ReturnsDeliver`), and
  `HandoffIsTrue` follows;
- what a pending decision was read from is what stands, unless the version tells
  (`PendingKnown`); an update in it has been held since the last revision, or
  the version is behind (`VerdictKnown`). A saved decision loses no Claim
  (`RevisesOne`), hence `MissesOnlyEarly` and `UpdatesAreRecent`.

The lemmas split a step into what B does in it (`CaseSteps`) and what A does
(`IngestsLocally`, `HandsOverLocally`), and prove each part once.

## 7. What is only model-checked, and what is not modelled

Model-checked only:

- liveness under fairness, which is out of the prover's reach: the properties of
  `ingestion_liveness`, and `RunsEnd` of `plans_safety`;
- the refutation of the four properties that the code does not have (section 5):
  a behaviour is TLC's to find.

The theorems about `CaseService` are about that module alone: of its properties
in the composition, `SignalDeskProofs` proves what is listed above.

Not modelled:

- the limits of the Case endpoints (`case_limiter`, `case_concurrency`). They use
  the classes that `PlanRuns` models. Ingestion passes neither of them, although
  its model calls are those of B (`contracts/README.md:268-269` names all three
  limits for case model calls); only the daily limit holds for both, and that one
  is in `CaseService`;
- that `config.py` accepts a timeout longer than the TTL: `TimeoutAssumption` is
  a condition on the deployment, which the defaults (42 and 900 seconds) satisfy;
- grounding of excerpts, prompts, texts and fixtures' contents (data that no
  property tells apart); the parts of the source loader that read and validate
  files; middleware, error bodies, cookies, configuration and static files;
- the frontend (browser state and rendering; that an approval is retried under
  its own key or a new one is the choice of keys in `DemoReplay`), its mock
  server, and the deployment scripts (no state of their own).
