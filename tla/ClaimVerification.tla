-------------------------- MODULE ClaimVerification --------------------------
(***************************************************************************)
(* POST /api/v1/claims/{claim_id}/verify: SignalAPI.verify_claim over the  *)
(* evidence loader (app/demo_loader.py), the verifier, which asks a model  *)
(* at most twice (app/claim_verification.py), and append_verification of   *)
(* the Signal store.                                                       *)
(*                                                                         *)
(* As in SignalIngestion, an action is one transaction with the code       *)
(* around it, or one answer of the model.  Verifications of one Claim      *)
(* interleave; the Claim that readers see is the one of the last attempt   *)
(* that succeeded.                                                         *)
(***************************************************************************)
EXTENDS Naturals, Sequences, FiniteSetsExt, RequestIdempotency

CONSTANTS Request,       \* the verify requests that may run at the same time
          Claim,         \* the Claims clients name
          Stored,        \* the Claims the store has
          Checkable,     \* the Claims of kind fact or hypothesis
          Evidence,      \* the Evidence clients name
          IntroducedAt,  \* the stage at which the data set has it, for what it has
          Body,          \* the requests clients send: path and body
          Decision,      \* the decisions the model gives
          AttemptsBound, \* bound: the attempts kept when a request begins
          Faults         \* which faults may happen: "crash", "store_error"

ASSUME ClaimAssumption == Stored \subseteq Claim /\ Checkable \subseteq Claim

ASSUME EvidenceAssumption ==
  /\ DOMAIN IntroducedAt \subseteq Evidence
  /\ IntroducedAt \in [DOMAIN IntroducedAt -> Nat \ {0}]

ASSUME BodyAssumption ==
  /\ Body \subseteq [claim : Claim, evidence : SUBSET Evidence, stage : Nat \ {0}]
  /\ None \notin Body

Verdict == {"supported", "refuted", "insufficient_evidence", "not_applicable"}
Stance == {"supports", "refutes", "context_only"}

\* The stance of each piece of Evidence that is cited.
Citations == UNION {[cited -> Stance] : cited \in SUBSET Evidence}

ASSUME DecisionAssumption ==
  \A d \in Decision : d.verdict \in Verdict /\ d.stances \in Citations

ASSUME NoneAssumption == None \notin Verdict

ASSUME BoundAssumption == AttemptsBound \in Nat

ASSUME FaultsAssumption == Faults \subseteq {"crash", "store_error"}

VARIABLES rows,      \* request_idempotency, operation "claims.verify:{claim_id}"
          attempts,  \* verification_attempts and evidence of each Claim, in order
          pc,        \* what each request does next
          request    \* what each running request was sent, and has found

vars == <<rows, attempts, pc, request>>

MaxAttempts == 2

NothingCited == [e \in {} |-> "context_only"]

\* ClaimVerificationResult: a verdict, or None for a failure.
Result == [verdict : Verdict \cup {None}, stances : Citations, calls : 0..MaxAttempts]

\* by is history: the key of the request that made the attempt.
Attempt == [verdict : Verdict \cup {None}, stances : Citations, calls : 0..MaxAttempts, by : Key]

\* The Claim of an answer: what a verification can change of it.
ClaimView == [verdict : Verdict, stances : Citations]

Place == {"idle", "loading", "assessing", "appending", "recording", "aborting"}

Undecided == [verdict |-> None, stances |-> NothingCited, calls |-> 0]

NoRequest == [key |-> None, body |-> None, result |-> Undecided]

TypeOK ==
  /\ rows \in [Claim -> RegisterOver(Body, ClaimView)]
  /\ attempts \in [Claim -> Seq(Attempt)]
  /\ pc \in [Request -> Place]
  /\ request \in [Request -> [key : Key \cup {None}, body : Body \cup {None}, result : Result]]
  /\ \A r \in Request : pc[r] # "idle" =>
       request[r] \in [key : Key, body : Body, result : Result]

Init ==
  /\ rows = [c \in Claim |-> EmptyRegister]
  /\ attempts = [c \in Claim |-> <<>>]
  /\ pc = [r \in Request |-> "idle"]
  /\ request = [r \in Request |-> NoRequest]

-----------------------------------------------------------------------------
\* Helpers.

KeyOf(r) == request[r].key
BodyOf(r) == request[r].body
ClaimOf(r) == BodyOf(r).claim
ResultOf(r) == request[r].result

Goes(r, place) == pc' = [pc EXCEPT ![r] = place]

Finds(r, result) == request' = [request EXCEPT ![r].result = result]

Answers(r) ==
  /\ Goes(r, "idle")
  /\ request' = [request EXCEPT ![r] = NoRequest]

\* load_evidence: all that is asked for exists, and was introduced by then.
Loads(b) ==
  /\ b.evidence \subseteq DOMAIN IntroducedAt
  /\ \A e \in b.evidence : IntroducedAt[e] <= b.stage

Stances(result) == {result.stances[e] : e \in DOMAIN result.stances}

\* Mutants of the verdicts a model may give: conflicting Evidence can support
\* a Claim; a verdict need not be backed.
ValidOverConflict(c, given, d) ==
  /\ DOMAIN d.stances = given
  /\ d.verdict = "supported" => "supports" \in Stances(d)
  /\ d.verdict = "refuted" => "refutes" \in Stances(d)
  /\ c \in Checkable => d.verdict # "not_applicable"
ValidUnbacked(c, given, d) ==
  /\ DOMAIN d.stances = given
  /\ {"supports", "refutes"} \subseteq Stances(d) => d.verdict = "insufficient_evidence"
  /\ c \in Checkable => d.verdict # "not_applicable"

\* _validate_decision: it assesses exactly the Evidence that was given.
ValidDecision(c, given, d) ==
  /\ DOMAIN d.stances = given
  /\ d.verdict = "supported" => "supports" \in Stances(d) /\ "refutes" \notin Stances(d)
  /\ d.verdict = "refuted" => "refutes" \in Stances(d) /\ "supports" \notin Stances(d)
  /\ {"supports", "refutes"} \subseteq Stances(d) => d.verdict = "insufficient_evidence"
  /\ c \in Checkable => d.verdict # "not_applicable"

\* append_verification: what it raises for none of.
Accepts(c, result) ==
  /\ c \in Stored
  /\ result.verdict = "supported" => "supports" \in Stances(result)
  /\ result.verdict = "refuted" => "refutes" \in Stances(result)
  /\ result.verdict = None => DOMAIN result.stances = {}

Succeeded(attempt) == attempt.verdict # None

\* The Claim as extracted: extract, _to_claim.
Extracted(c) ==
  [verdict |-> IF c \in Checkable THEN "insufficient_evidence" ELSE "not_applicable",
   stances |-> NothingCited]

\* _get_claim: the Claim with the verdict and Evidence of the last success.
Canonical(c) ==
  LET successes == {i \in DOMAIN attempts[c] : Succeeded(attempts[c][i])}
      last == attempts[c][Max(successes)]
  IN  IF successes = {} THEN Extracted(c)
      ELSE [verdict |-> last.verdict, stances |-> last.stances]

\* The row append_verification writes.
AttemptOf(r) ==
  [verdict |-> ResultOf(r).verdict, stances |-> ResultOf(r).stances,
   calls |-> ResultOf(r).calls, by |-> KeyOf(r)]

\* The Claim that verify_claim answers with.
\* Mutant: it is read again, when the answer is stored.
AnswerReadAgain(r) == Canonical(ClaimOf(r))
AnswerOf(r) == [verdict |-> ResultOf(r).verdict, stances |-> ResultOf(r).stances]

-----------------------------------------------------------------------------
\* SignalAPI.verify_claim, in order.

\* _begin reserves the key for this body.
Begin(r, k, b) ==
  /\ pc[r] = "idle"
  /\ MayBegin(rows[b.claim], k)
  /\ MapThenSumSet(LAMBDA c : Len(attempts[c]), Claim) < AttemptsBound
  /\ rows' = [rows EXCEPT ![b.claim] = Begun(@, k, b)]
  /\ request' = [request EXCEPT ![r] = [key |-> k, body |-> b, result |-> Undecided]]
  /\ Goes(r, "loading")
  /\ UNCHANGED attempts

\* _begin finds the key in use, and nothing is written.
AnswerFromRegister(r, k, b) ==
  /\ pc[r] = "idle"
  /\ ~MayBegin(rows[b.claim], k)
  /\ UNCHANGED vars

\* The Claim is unknown, or the Evidence is unknown or of a later stage.
Refuse(r) ==
  /\ pc[r] = "loading"
  /\ ~(ClaimOf(r) \in Stored /\ Loads(BodyOf(r)))
  /\ Goes(r, "aborting")
  /\ UNCHANGED <<rows, attempts, request>>

\* The verdict needs no model: the Claim is not checkable, or nothing is cited.
Shortcut(r) ==
  /\ pc[r] = "loading"
  /\ ClaimOf(r) \in Stored /\ Loads(BodyOf(r))
  /\ \/ /\ ClaimOf(r) \notin Checkable
        /\ Finds(r, [verdict |-> "not_applicable", calls |-> 0,
                     stances |-> [e \in BodyOf(r).evidence |-> "context_only"]])
     \/ /\ ClaimOf(r) \in Checkable
        /\ BodyOf(r).evidence = {}
        /\ Finds(r, [Undecided EXCEPT !.verdict = "insufficient_evidence"])
  /\ Goes(r, "appending")
  /\ UNCHANGED <<rows, attempts>>

\* The model is asked.
Ask(r) ==
  /\ pc[r] = "loading"
  /\ ClaimOf(r) \in Stored /\ Loads(BodyOf(r))
  /\ ClaimOf(r) \in Checkable /\ BodyOf(r).evidence # {}
  /\ Goes(r, "assessing")
  /\ UNCHANGED <<rows, attempts, request>>

\* It gives a valid decision.
Decide(r, d) ==
  /\ pc[r] = "assessing"
  /\ ValidDecision(ClaimOf(r), BodyOf(r).evidence, d)
  /\ Finds(r, [verdict |-> d.verdict, stances |-> d.stances, calls |-> ResultOf(r).calls + 1])
  /\ Goes(r, "appending")
  /\ UNCHANGED <<rows, attempts>>

\* Mutant: it is asked again as long as it misses.
MissAgain(r) ==
  /\ pc[r] = "assessing"
  /\ Finds(r, [Undecided EXCEPT !.calls = ResultOf(r).calls + 1])
  /\ UNCHANGED <<rows, attempts, pc>>

\* It raises, times out or gives an invalid decision, and is asked once more.
Miss(r) ==
  /\ pc[r] = "assessing"
  /\ Finds(r, [Undecided EXCEPT !.calls = ResultOf(r).calls + 1])
  /\ Goes(r, IF ResultOf(r).calls + 1 = MaxAttempts THEN "appending" ELSE "assessing")
  /\ UNCHANGED <<rows, attempts>>

\* append_verification keeps the attempt, and one that failed is an error; or
\* it raises InvalidIngestionState.
Persist(r) ==
  /\ pc[r] = "appending"
  /\ attempts' = IF Accepts(ClaimOf(r), ResultOf(r))
                 THEN [attempts EXCEPT ![ClaimOf(r)] = Append(@, AttemptOf(r))]
                 ELSE attempts
  /\ Goes(r, IF Accepts(ClaimOf(r), ResultOf(r)) /\ Succeeded(ResultOf(r))
             THEN "recording" ELSE "aborting")
  /\ UNCHANGED <<rows, request>>

\* _complete stores the answer.
Record(r) ==
  /\ pc[r] = "recording"
  /\ rows' = [rows EXCEPT ![ClaimOf(r)] = Completed(@, KeyOf(r), BodyOf(r), AnswerOf(r))]
  /\ IF MayComplete(rows[ClaimOf(r)], KeyOf(r), BodyOf(r))
     THEN Answers(r)
     ELSE Goes(r, "aborting") /\ UNCHANGED request
  /\ UNCHANGED attempts

\* _abort frees the key, and the error is answered.
Abort(r) ==
  /\ pc[r] = "aborting"
  /\ rows' = [rows EXCEPT ![ClaimOf(r)] = Aborted(@, KeyOf(r), BodyOf(r))]
  /\ Answers(r)
  /\ UNCHANGED attempts

\* SQLite raises in the next transaction, or the data set cannot be read.
StoreError(r) ==
  /\ "store_error" \in Faults
  /\ pc[r] \in {"loading", "appending", "recording"}
  /\ Goes(r, "aborting")
  /\ UNCHANGED <<rows, attempts, request>>

\* _abort swallows an error: the row stays pending.
StoreErrorInAbort(r) ==
  /\ "store_error" \in Faults
  /\ pc[r] = "aborting"
  /\ Answers(r)
  /\ UNCHANGED <<rows, attempts>>

\* The process restarts.
Crash ==
  /\ "crash" \in Faults
  /\ pc' = [r \in Request |-> "idle"]
  /\ request' = [r \in Request |-> NoRequest]
  /\ UNCHANGED <<rows, attempts>>

Next ==
  \/ \E r \in Request :
       \/ \E k \in Key, b \in Body : Begin(r, k, b) \/ AnswerFromRegister(r, k, b)
       \/ Refuse(r) \/ Shortcut(r) \/ Ask(r) \/ Miss(r)
       \/ \E d \in Decision : Decide(r, d)
       \/ Persist(r) \/ Record(r) \/ Abort(r)
       \/ StoreError(r) \/ StoreErrorInAbort(r)
  \/ Crash

Spec == Init /\ [][Next]_vars

-----------------------------------------------------------------------------
(* Safety. *)

\* Whatever attempts succeed or fail, and in whatever order they are kept, the
\* Claim that B and the inbox read has a verdict that its Evidence bears out
\* (SPEC.md, 8.2 and 8.3): one that is conclusive cites Evidence for it and
\* none against it, and only a Claim that is not checkable is not_applicable.
VerdictsAreGrounded ==
  \A c \in Claim :
    LET view == Canonical(c) IN
      /\ view.verdict = "supported" =>
           "supports" \in Stances(view) /\ "refutes" \notin Stances(view)
      /\ view.verdict = "refuted" =>
           "refutes" \in Stances(view) /\ "supports" \notin Stances(view)
      /\ view.verdict = "not_applicable" <=> c \notin Checkable

\* Nothing that is cited comes from a later stage than the request's, and an
\* answer that can be replayed is one attempt of that key that succeeded, even
\* when another request has been kept in between: it is the verdict on exactly
\* the Evidence of the request's body.
AnswersAreAttempts ==
  \A c \in Claim, k \in Key : rows[c][k].status = "completed" =>
    /\ DOMAIN rows[c][k].answer.stances = rows[c][k].body.evidence
    /\ \A e \in rows[c][k].body.evidence : IntroducedAt[e] <= rows[c][k].body.stage
    /\ \E i \in DOMAIN attempts[c] :
         /\ attempts[c][i].by = k
         /\ attempts[c][i].verdict = rows[c][k].answer.verdict
         /\ attempts[c][i].stances = rows[c][k].answer.stances

\* No work of the model is lost because the store finds its result invalid:
\* what the verifier returns, append_verification accepts.
StoreTakesResults ==
  \A r \in Request : pc[r] = "appending" => Accepts(ClaimOf(r), ResultOf(r))

\* A retry with a key that has been answered makes no further attempt, and the
\* answer stays.
AnsweredIsDone ==
  [][\A c \in Claim, k \in Key : rows[c][k].status = "completed" =>
       /\ rows'[c][k] = rows[c][k]
       /\ \A i \in DOMAIN attempts'[c] \ DOMAIN attempts[c] : attempts'[c][i].by # k]_vars
=============================================================================
