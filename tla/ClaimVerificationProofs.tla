----------------------- MODULE ClaimVerificationProofs -----------------------
(***************************************************************************)
(* Proofs about ClaimVerification, for every set of requests, keys, Claims *)
(* and Evidence, whatever the model says and whatever fails.               *)
(***************************************************************************)
EXTENDS ClaimVerification, TLAPS

USE BodyAssumption, NoneAssumption

-----------------------------------------------------------------------------
(* The inductive invariant. *)

Sent == [key : Key, body : Body, result : Result]

RowOf(r) == rows[ClaimOf(r)][KeyOf(r)]

\* The attempt of a request has been kept.
Kept(r) ==
  \E i \in DOMAIN attempts[ClaimOf(r)] :
    /\ attempts[ClaimOf(r)][i].by = KeyOf(r)
    /\ attempts[ClaimOf(r)][i].verdict = ResultOf(r).verdict
    /\ attempts[ClaimOf(r)][i].stances = ResultOf(r).stances

\* What has been found for a request fits the place it has reached.
ResultFits(r) ==
  /\ pc[r] = "loading" => ResultOf(r) = Undecided
  /\ pc[r] \in {"assessing", "appending", "recording"} =>
       ClaimOf(r) \in Stored /\ Loads(BodyOf(r))
  /\ pc[r] = "assessing" => ResultOf(r).calls < MaxAttempts
  /\ pc[r] = "appending" =>
       /\ Accepts(ClaimOf(r), ResultOf(r))
       /\ Succeeded(ResultOf(r)) => DOMAIN ResultOf(r).stances = BodyOf(r).evidence
  /\ pc[r] = "recording" =>
       Succeeded(ResultOf(r)) /\ DOMAIN ResultOf(r).stances = BodyOf(r).evidence /\ Kept(r)

\* A running request owns the row of its key.
Owns(r) == RowOf(r).status = "pending" /\ RowOf(r).body = BodyOf(r)

Fits(r) == pc[r] # "idle" => request[r] \in Sent /\ Owns(r) /\ ResultFits(r)

Exclusive ==
  \A r, q \in Request :
    pc[r] # "idle" /\ pc[q] # "idle" /\ KeyOf(r) = KeyOf(q) /\ ClaimOf(r) = ClaimOf(q) => r = q

IInv == TypeOK /\ (\A r \in Request : Fits(r)) /\ Exclusive /\ AnswersAreAttempts

-----------------------------------------------------------------------------
(* Types. *)

Typed ==
  /\ pc \in [Request -> Place]
  /\ request \in [Request -> [key : Key \cup {None}, body : Body \cup {None}, result : Result]]

LEMMA BodyType ==
  ASSUME NEW b \in Body
  PROVE  b.claim \in Claim /\ b.evidence \in SUBSET Evidence /\ b # None
  OBVIOUS

LEMMA CitationsType ==
  /\ NothingCited \in Citations /\ DOMAIN NothingCited = {}
  /\ \A cited \in SUBSET Evidence :
       /\ [e \in cited |-> "context_only"] \in Citations
       /\ DOMAIN [e \in cited |-> "context_only"] = cited
<1>1. ASSUME NEW cited \in SUBSET Evidence
      PROVE  /\ [e \in cited |-> "context_only"] \in Citations
             /\ DOMAIN [e \in cited |-> "context_only"] = cited
  <2>1. [e \in cited |-> "context_only"] \in [cited -> Stance]
    BY DEF Stance
  <2>. QED
    BY <2>1 DEF Citations
<1>2. NothingCited = [e \in {} |-> "context_only"] /\ {} \in SUBSET Evidence
  BY DEF NothingCited
<1>. QED
  BY <1>1, <1>2

LEMMA UndecidedType ==
  ASSUME NEW n \in 0..MaxAttempts
  PROVE  /\ [Undecided EXCEPT !.calls = n] \in Result
         /\ Undecided \in Result
         /\ [Undecided EXCEPT !.verdict = "insufficient_evidence"] \in Result
  BY CitationsType DEF Undecided, Result, MaxAttempts, Verdict

LEMMA NoRequestType ==
  NoRequest \in [key : Key \cup {None}, body : Body \cup {None}, result : Result]
  BY UndecidedType DEF NoRequest, MaxAttempts

LEMMA RegisterType ==
  ASSUME NEW register \in RegisterOver(Body, ClaimView), NEW k \in Key, NEW b \in Body,
         NEW a \in ClaimView
  PROVE  /\ Begun(register, k, b) \in RegisterOver(Body, ClaimView)
         /\ Completed(register, k, b, a) \in RegisterOver(Body, ClaimView)
         /\ Aborted(register, k, b) \in RegisterOver(Body, ClaimView)
<1>1. Begun(register, k, b) \in RegisterOver(Body, ClaimView)
  BY DEF Begun, RegisterOver, RowOver
<1>2. Completed(register, k, b, a) \in RegisterOver(Body, ClaimView)
  BY DEF Completed, MayComplete, RegisterOver, RowOver
<1>3. Aborted(register, k, b) \in RegisterOver(Body, ClaimView)
  BY DEF Aborted, NoRow, RegisterOver, RowOver
<1>. QED
  BY <1>1, <1>2, <1>3

LEMMA RunningType ==
  ASSUME IInv, NEW r \in Request, pc[r] # "idle"
  PROVE  /\ request[r] \in Sent /\ KeyOf(r) \in Key /\ BodyOf(r) \in Body
         /\ ResultOf(r) \in Result /\ ClaimOf(r) \in Claim
         /\ Owns(r) /\ ResultFits(r)
<1>1. request[r] \in Sent /\ Owns(r) /\ ResultFits(r)
  BY DEF IInv, Fits
<1>2. KeyOf(r) \in Key /\ BodyOf(r) \in Body /\ ResultOf(r) \in Result
  BY <1>1 DEF Sent, KeyOf, BodyOf, ResultOf
<1>. QED
  BY <1>1, <1>2, BodyType DEF ClaimOf

-----------------------------------------------------------------------------
LEMMA InitInvariant == Init => IInv
<1>. SUFFICES ASSUME Init PROVE IInv
  OBVIOUS
<1>1. TypeOK
  BY NoRequestType DEF Init, TypeOK, EmptyRegister, NoRow, RegisterOver, RowOver, Place
<1>2. \A r \in Request : pc[r] = "idle"
  BY DEF Init
<1>3. AnswersAreAttempts
  BY DEF Init, AnswersAreAttempts, EmptyRegister, NoRow
<1>. QED
  BY <1>1, <1>2, <1>3 DEF IInv, Fits, Exclusive

\* The other requests keep what they have, as long as their rows and attempts
\* are kept.
LEMMA OthersFit ==
  ASSUME IInv, NEW q \in Request, pc'[q] = pc[q], request'[q] = request[q],
         pc[q] # "idle" => rows'[ClaimOf(q)][KeyOf(q)] = RowOf(q),
         pc[q] = "recording" => \A i \in DOMAIN attempts[ClaimOf(q)] :
           i \in DOMAIN attempts'[ClaimOf(q)] /\ attempts'[ClaimOf(q)][i] = attempts[ClaimOf(q)][i]
  PROVE  Fits(q)'
<1>1. KeyOf(q)' = KeyOf(q) /\ BodyOf(q)' = BodyOf(q) /\ ResultOf(q)' = ResultOf(q) /\ ClaimOf(q)' = ClaimOf(q)
  BY DEF KeyOf, BodyOf, ResultOf, ClaimOf
<1>2. SUFFICES ASSUME pc[q] # "idle"
      PROVE  request'[q] \in Sent /\ Owns(q)' /\ ResultFits(q)'
  BY DEF Fits
<1>3. request[q] \in Sent /\ Owns(q) /\ ResultFits(q)
  BY <1>2, RunningType
<1>4. Owns(q)'
  BY <1>1, <1>2, <1>3 DEF Owns, RowOf
<1>5. pc[q] = "recording" => Kept(q)'
  <2>1. ASSUME pc[q] = "recording" PROVE Kept(q)
    BY <1>3, <2>1 DEF ResultFits
  <2>. QED
    BY <1>1, <2>1 DEF Kept
<1>6. ResultFits(q)'
  BY <1>1, <1>3, <1>5 DEF ResultFits
<1>. QED
  BY <1>3, <1>4, <1>6

\* A request goes to another place, or ends, and the tables stay.
LEMMA MoveInvariant ==
  ASSUME IInv, UNCHANGED <<rows, attempts>>, NEW r \in Request, pc[r] # "idle", NEW place \in Place,
         Goes(r, place),
         \/ place = "idle" /\ request' = [request EXCEPT ![r] = NoRequest]
         \/ \E result \in Result : Finds(r, result),
         ResultFits(r)'
  PROVE  IInv'
<1>1. pc' = [pc EXCEPT ![r] = place] /\ Typed /\ Typed'
  <2>1. Typed /\ pc' = [pc EXCEPT ![r] = place]
    BY DEF IInv, TypeOK, Typed, Goes
  <2>2. pc' \in [Request -> Place]
    BY <2>1 DEF Typed
  <2>3. CASE request' = [request EXCEPT ![r] = NoRequest]
    BY <2>1, <2>2, <2>3, NoRequestType DEF Typed
  <2>4. CASE \E result \in Result : Finds(r, result)
    BY <2>1, <2>2, <2>4 DEF Typed, Finds
  <2>. QED
    BY <2>1, <2>3, <2>4
<1>2. \A q \in Request : q # r => pc'[q] = pc[q] /\ request'[q] = request[q]
  BY DEF IInv, TypeOK, Goes, Finds
<1>3. \A q \in Request : q # r => Fits(q)'
  BY <1>2, OthersFit DEF RowOf
<1>4. ASSUME place # "idle"
      PROVE  request'[r] \in Sent /\ KeyOf(r)' = KeyOf(r) /\ BodyOf(r)' = BodyOf(r)
  <2>1. PICK result \in Result : request' = [request EXCEPT ![r].result = result]
    BY <1>4 DEF Finds
  <2>2. request[r] \in Sent
    BY RunningType
  <2>3. request'[r] = [request[r] EXCEPT !.result = result]
    BY <1>1, <2>1 DEF Typed
  <2>. QED
    BY <2>2, <2>3 DEF Sent, KeyOf, BodyOf
<1>5. Fits(r)'
  <2>1. Owns(r)
    BY RunningType
  <2>2. place # "idle" => Owns(r)'
    BY <1>4, <2>1 DEF Owns, RowOf, ClaimOf
  <2>. QED
    BY <1>1, <1>4, <2>2 DEF Fits, Typed
<1>6. TypeOK'
  <2>1. \A q \in Request : pc'[q] # "idle" => request'[q] \in Sent
    BY <1>3, <1>5 DEF Fits
  <2>. QED
    BY <1>1, <2>1 DEF IInv, TypeOK, Typed, Sent
<1>7. Exclusive'
  <2>1. \A q \in Request : pc'[q] # "idle" =>
          pc[q] # "idle" /\ KeyOf(q)' = KeyOf(q) /\ ClaimOf(q)' = ClaimOf(q)
    BY <1>1, <1>2, <1>4 DEF KeyOf, BodyOf, ClaimOf, Typed
  <2>. QED
    BY <2>1 DEF IInv, Exclusive
<1>8. AnswersAreAttempts'
  BY DEF IInv, AnswersAreAttempts
<1>. QED
  BY <1>3, <1>5, <1>6, <1>7, <1>8 DEF IInv

LEMMA SameResult ==
  ASSUME IInv, NEW r \in Request, pc[r] # "idle", UNCHANGED request
  PROVE  Finds(r, ResultOf(r)) /\ ResultOf(r) \in Result
<1>1. request[r] \in Sent
  BY RunningType
<1>2. [request[r] EXCEPT !.result = request[r].result] = request[r]
  BY <1>1 DEF Sent
<1>. QED
  BY <1>2, RunningType DEF Finds, ResultOf, IInv, TypeOK

\* The steps that change no table.
LEMMA RefuseInvariant ==
  ASSUME IInv, NEW r \in Request, pc[r] # "idle", Goes(r, "aborting"), UNCHANGED <<rows, attempts, request>>
  PROVE  IInv'
<1>1. pc'[r] = "aborting"
  BY DEF IInv, TypeOK, Goes
<1>2. ResultFits(r)'
  BY <1>1 DEF ResultFits
<1>. QED
  BY <1>2, SameResult, MoveInvariant DEF Place

LEMMA EndInvariant ==
  ASSUME IInv, NEW r \in Request, pc[r] # "idle", Answers(r), UNCHANGED <<rows, attempts>>
  PROVE  IInv'
<1>1. pc'[r] = "idle"
  BY DEF IInv, TypeOK, Goes, Answers
<1>2. ResultFits(r)'
  BY <1>1 DEF ResultFits
<1>. QED
  BY <1>2, MoveInvariant DEF Answers, Place

\* What a request finds, it finds for its own body.
LEMMA FindsIt ==
  ASSUME IInv, NEW r \in Request, pc[r] # "idle", NEW result \in Result, Finds(r, result)
  PROVE  /\ ResultOf(r)' = result /\ BodyOf(r)' = BodyOf(r) /\ ClaimOf(r)' = ClaimOf(r)
<1>1. request'[r] = [request[r] EXCEPT !.result = result] /\ request[r] \in Sent
  BY RunningType DEF IInv, TypeOK, Finds
<1>. QED
  BY <1>1 DEF Sent, ResultOf, BodyOf, ClaimOf

LEMMA ShortcutInvariant ==
  ASSUME IInv, NEW r \in Request, Shortcut(r)
  PROVE  IInv'
<1>1. pc[r] # "idle" /\ BodyOf(r) \in Body /\ BodyOf(r).evidence \in SUBSET Evidence
  BY RunningType, BodyType DEF Shortcut
<1>2. PICK result \in Result :
        /\ Finds(r, result)
        /\ result.verdict \in {"not_applicable", "insufficient_evidence"}
        /\ DOMAIN result.stances = BodyOf(r).evidence
  <2>1. [verdict |-> "not_applicable", calls |-> 0,
         stances |-> [e \in BodyOf(r).evidence |-> "context_only"]] \in Result
    BY <1>1, CitationsType DEF Result, Verdict, MaxAttempts
  <2>2. /\ [Undecided EXCEPT !.verdict = "insufficient_evidence"] \in Result
        /\ [Undecided EXCEPT !.verdict = "insufficient_evidence"].verdict = "insufficient_evidence"
        /\ DOMAIN [Undecided EXCEPT !.verdict = "insufficient_evidence"].stances = {}
    BY UndecidedType, CitationsType DEF Undecided, MaxAttempts
  <2>. QED
    BY <2>1, <2>2 DEF Shortcut
<1>3. ResultOf(r)' = result /\ BodyOf(r)' = BodyOf(r) /\ ClaimOf(r)' = ClaimOf(r)
  BY <1>1, <1>2, FindsIt
<1>4. pc'[r] = "appending"
  BY DEF IInv, TypeOK, Goes, Shortcut
<1>5. Accepts(ClaimOf(r), result) /\ Loads(BodyOf(r)) /\ ClaimOf(r) \in Stored
  BY <1>2 DEF Shortcut, Accepts, Verdict
<1>6. ResultFits(r)'
  BY <1>2, <1>3, <1>4, <1>5 DEF ResultFits
<1>. QED
  BY <1>1, <1>2, <1>6, MoveInvariant DEF Shortcut, Place

LEMMA AskInvariant ==
  ASSUME IInv, NEW r \in Request, Ask(r)
  PROVE  IInv'
<1>1. pc'[r] = "assessing" /\ pc[r] = "loading"
  BY DEF IInv, TypeOK, Goes, Ask
<1>2. ResultOf(r) = Undecided
  BY <1>1, RunningType DEF ResultFits
<1>3. ResultFits(r)'
  BY <1>1, <1>2 DEF Ask, ResultFits, ResultOf, BodyOf, ClaimOf, Undecided, MaxAttempts
<1>. QED
  BY <1>1, <1>3, SameResult, MoveInvariant DEF Ask, Place

LEMMA DecideInvariant ==
  ASSUME IInv, DecisionAssumption, NEW r \in Request, NEW d \in Decision, Decide(r, d)
  PROVE  IInv'
<1> DEFINE result == [verdict |-> d.verdict, stances |-> d.stances, calls |-> ResultOf(r).calls + 1]
<1>1. pc[r] = "assessing" /\ pc'[r] = "appending"
  BY DEF IInv, TypeOK, Goes, Decide
<1>2. ResultOf(r) \in Result /\ ResultOf(r).calls < MaxAttempts /\ ClaimOf(r) \in Stored /\ Loads(BodyOf(r))
  BY <1>1, RunningType DEF ResultFits
<1>3. d.verdict \in Verdict /\ d.stances \in Citations
  BY DEF DecisionAssumption
<1>4. result \in Result
  <2>1. ResultOf(r).calls \in 0..MaxAttempts
    BY <1>2 DEF Result
  <2>2. ResultOf(r).calls + 1 \in 0..MaxAttempts
    BY <1>2, <2>1 DEF MaxAttempts
  <2>. QED
    BY <1>3, <2>2 DEF Result
<1>5. ResultOf(r)' = result /\ BodyOf(r)' = BodyOf(r) /\ ClaimOf(r)' = ClaimOf(r)
  BY <1>1, <1>4, FindsIt DEF Decide
<1>6. /\ DOMAIN d.stances = BodyOf(r).evidence
      /\ d.verdict = "supported" => "supports" \in Stances(d)
      /\ d.verdict = "refuted" => "refutes" \in Stances(d)
  BY DEF Decide, ValidDecision
<1>7. Stances(result) = Stances(d)
  BY DEF Stances
<1>8. Accepts(ClaimOf(r), result)
  BY <1>2, <1>3, <1>6, <1>7 DEF Accepts
<1>9. ResultFits(r)'
  BY <1>1, <1>2, <1>5, <1>6, <1>8 DEF ResultFits
<1>. QED
  BY <1>1, <1>4, <1>9, MoveInvariant DEF Decide, Place

LEMMA MissInvariant ==
  ASSUME IInv, NEW r \in Request, Miss(r)
  PROVE  IInv'
<1> DEFINE n == ResultOf(r).calls + 1
           place == IF n = MaxAttempts THEN "appending" ELSE "assessing"
           result == [Undecided EXCEPT !.calls = n]
<1>1. pc[r] = "assessing" /\ pc'[r] = place
  BY DEF IInv, TypeOK, Goes, Miss
<1>2. ResultOf(r) \in Result /\ ResultOf(r).calls < MaxAttempts /\ ClaimOf(r) \in Stored /\ Loads(BodyOf(r))
  BY <1>1, RunningType DEF ResultFits
<1>3. n \in 0..MaxAttempts
  <2>1. ResultOf(r).calls \in 0..MaxAttempts
    BY <1>2 DEF Result
  <2>. QED
    BY <1>2, <2>1 DEF MaxAttempts
<1>4. result \in Result
  BY <1>3, UndecidedType
<1>5. ResultOf(r)' = result /\ BodyOf(r)' = BodyOf(r) /\ ClaimOf(r)' = ClaimOf(r)
  BY <1>1, <1>4, FindsIt DEF Miss
<1>6. result.verdict = None /\ result.stances = NothingCited /\ result.calls = n
  BY DEF Undecided
<1>7. Accepts(ClaimOf(r), result) /\ ~Succeeded(result)
  BY <1>2, <1>6, CitationsType DEF Accepts, Succeeded, Verdict
<1>8. n # MaxAttempts => n < MaxAttempts
  BY <1>3 DEF MaxAttempts
<1>9. ResultFits(r)'
  BY <1>1, <1>2, <1>5, <1>6, <1>7, <1>8 DEF ResultFits
<1>. QED
  BY <1>1, <1>4, <1>9, MoveInvariant DEF Miss, Place

-----------------------------------------------------------------------------
(* The steps that write. *)

LEMMA BeginInvariant ==
  ASSUME IInv, NEW r \in Request, NEW k \in Key, NEW b \in Body, Begin(r, k, b)
  PROVE  IInv'
<1> DEFINE c == b.claim
<1>1. c \in Claim /\ pc[r] = "idle" /\ rows[c][k].status = "absent" /\ rows[c] \in RegisterOver(Body, ClaimView)
  BY BodyType DEF IInv, TypeOK, Begin, MayBegin
<1>2. /\ rows' = [rows EXCEPT ![c] = Begun(rows[c], k, b)]
      /\ rows'[c] = Begun(rows[c], k, b)
      /\ \A d \in Claim : d # c => rows'[d] = rows[d]
  BY <1>1 DEF IInv, TypeOK, Begin
<1>3. /\ rows'[c][k] = [status |-> "pending", body |-> b, answer |-> None]
      /\ \A j \in Key : j # k => rows'[c][j] = rows[c][j]
  BY <1>1, <1>2 DEF Begun, RegisterOver
<1>4. /\ request'[r] = [key |-> k, body |-> b, result |-> Undecided] /\ pc'[r] = "loading"
      /\ \A q \in Request : q # r => pc'[q] = pc[q] /\ request'[q] = request[q]
  BY DEF IInv, TypeOK, Begin, Goes
<1>5. KeyOf(r)' = k /\ BodyOf(r)' = b /\ ClaimOf(r)' = c /\ ResultOf(r)' = Undecided
  BY <1>4 DEF KeyOf, BodyOf, ClaimOf, ResultOf
<1>6. request'[r] \in Sent
  BY <1>4, UndecidedType DEF Sent, MaxAttempts
<1>7. ASSUME NEW q \in Request, pc[q] # "idle"
      PROVE  ~(ClaimOf(q) = c /\ KeyOf(q) = k) /\ rows'[ClaimOf(q)][KeyOf(q)] = RowOf(q)
  <2>1. RowOf(q).status = "pending" /\ ClaimOf(q) \in Claim /\ KeyOf(q) \in Key
    BY <1>7, RunningType DEF Owns
  <2>. QED
    BY <1>1, <1>2, <1>3, <2>1 DEF RowOf
<1>8. \A q \in Request : q # r => Fits(q)'
  BY <1>4, <1>7, OthersFit DEF Begin
<1>9. Fits(r)'
  <2>1. Owns(r)'
    BY <1>3, <1>5 DEF Owns, RowOf
  <2>2. ResultFits(r)'
    BY <1>4, <1>5 DEF ResultFits
  <2>. QED
    BY <1>6, <2>1, <2>2 DEF Fits
<1>10. TypeOK'
  <2>1. rows' \in [Claim -> RegisterOver(Body, ClaimView)]
    <3>1. Begun(rows[c], k, b) \in RegisterOver(Body, ClaimView)
      BY <1>1 DEF Begun, RegisterOver, RowOver
    <3>. QED
      BY <1>2, <3>1 DEF IInv, TypeOK
  <2>2. pc' \in [Request -> Place]
    BY DEF IInv, TypeOK, Begin, Goes, Place
  <2>3. request' \in [Request -> [key : Key \cup {None}, body : Body \cup {None}, result : Result]]
    <3>1. Undecided \in Result
      BY UndecidedType DEF MaxAttempts
    <3>2. [key |-> k, body |-> b, result |-> Undecided]
            \in [key : Key \cup {None}, body : Body \cup {None}, result : Result]
      BY <3>1
    <3>. QED
      BY <3>2 DEF IInv, TypeOK, Begin
  <2>4. \A q \in Request : pc'[q] # "idle" => request'[q] \in Sent
    BY <1>8, <1>9 DEF Fits
  <2>. QED
    BY <2>1, <2>2, <2>3, <2>4 DEF IInv, TypeOK, Begin, Sent
<1>11. Exclusive'
  <2>1. \A q \in Request : q # r =>
          pc'[q] = pc[q] /\ KeyOf(q)' = KeyOf(q) /\ ClaimOf(q)' = ClaimOf(q)
    BY <1>4 DEF KeyOf, BodyOf, ClaimOf
  <2>2. \A q \in Request : q # r /\ pc'[q] # "idle" => ~(ClaimOf(q)' = c /\ KeyOf(q)' = k)
    BY <1>7, <2>1
  <2>3. ASSUME NEW p \in Request, NEW q \in Request, pc'[p] # "idle", pc'[q] # "idle",
               KeyOf(p)' = KeyOf(q)', ClaimOf(p)' = ClaimOf(q)'
        PROVE  p = q
    <3>1. CASE p = r \/ q = r
      BY <1>5, <2>2, <2>3, <3>1
    <3>2. CASE p # r /\ q # r
      BY <2>1, <2>3, <3>2 DEF IInv, Exclusive
    <3>. QED
      BY <3>1, <3>2
  <2>. QED
    BY <2>3 DEF Exclusive
<1>12. AnswersAreAttempts'
  <2>1. \A d \in Claim, j \in Key : rows'[d][j].status = "completed" => rows'[d][j] = rows[d][j]
    BY <1>1, <1>2, <1>3
  <2>2. UNCHANGED attempts
    BY DEF Begin
  <2>. QED
    BY <2>1, <2>2 DEF IInv, AnswersAreAttempts
<1>. QED
  BY <1>8, <1>9, <1>10, <1>11, <1>12 DEF IInv

LEMMA PersistInvariant ==
  ASSUME IInv, NEW r \in Request, Persist(r)
  PROVE  IInv'
<1> DEFINE c == ClaimOf(r)
           place == IF Succeeded(ResultOf(r)) THEN "recording" ELSE "aborting"
<1>1. /\ pc[r] = "appending" /\ c \in Claim /\ KeyOf(r) \in Key /\ BodyOf(r) \in Body
      /\ ResultOf(r) \in Result /\ request[r] \in Sent /\ Owns(r) /\ ResultFits(r)
  BY RunningType DEF Persist
<1>2. /\ Accepts(ClaimOf(r), ResultOf(r)) /\ ClaimOf(r) \in Stored /\ Loads(BodyOf(r))
      /\ Succeeded(ResultOf(r)) => DOMAIN ResultOf(r).stances = BodyOf(r).evidence
  BY <1>1 DEF ResultFits
<1>3. /\ attempts' = [attempts EXCEPT ![ClaimOf(r)] = Append(@, AttemptOf(r))]
      /\ pc' = [pc EXCEPT ![r] = place]
      /\ UNCHANGED <<rows, request>>
  BY <1>2 DEF Persist, Goes
<1>4. AttemptOf(r) \in Attempt
  BY <1>1 DEF AttemptOf, Attempt, Result
<1>5. attempts \in [Claim -> Seq(Attempt)]
  BY DEF IInv, TypeOK
<1>6. /\ attempts'[c] = Append(attempts[c], AttemptOf(r))
      /\ \A d \in Claim : d # c => attempts'[d] = attempts[d]
  BY <1>1, <1>3, <1>5
<1>7. \A d \in Claim : \A i \in DOMAIN attempts[d] :
        i \in DOMAIN attempts'[d] /\ attempts'[d][i] = attempts[d][i]
  <2>1. ASSUME NEW i \in DOMAIN attempts[c]
        PROVE  i \in DOMAIN attempts'[c] /\ attempts'[c][i] = attempts[c][i]
    <3>1. attempts[c] \in Seq(Attempt)
      BY <1>1, <1>5
    <3>. QED
      BY <1>4, <1>6, <2>1, <3>1
  <2>. QED
    BY <1>6, <2>1
<1>8. Len(attempts[c]) + 1 \in DOMAIN attempts'[c] /\ attempts'[c][Len(attempts[c]) + 1] = AttemptOf(r)
  BY <1>1, <1>4, <1>5, <1>6
<1>9. pc'[r] = place /\ \A q \in Request : q # r => pc'[q] = pc[q]
  BY <1>3 DEF IInv, TypeOK
<1>10. ASSUME NEW q \in Request, q # r PROVE Fits(q)'
  <2>1. pc'[q] = pc[q] /\ request'[q] = request[q] /\ rows'[ClaimOf(q)][KeyOf(q)] = RowOf(q)
    BY <1>3, <1>9, <1>10 DEF RowOf
  <2>2. pc[q] = "recording" => \A i \in DOMAIN attempts[ClaimOf(q)] :
          i \in DOMAIN attempts'[ClaimOf(q)] /\ attempts'[ClaimOf(q)][i] = attempts[ClaimOf(q)][i]
    BY <1>7, RunningType
  <2>. QED
    BY <2>1, <2>2, OthersFit
<1>11. /\ KeyOf(r)' = KeyOf(r) /\ BodyOf(r)' = BodyOf(r) /\ ClaimOf(r)' = ClaimOf(r)
       /\ ResultOf(r)' = ResultOf(r)
  BY <1>3 DEF KeyOf, BodyOf, ClaimOf, ResultOf
<1>12. Kept(r)'
  BY <1>8, <1>11 DEF Kept, AttemptOf
<1>13. Fits(r)'
  <2>1. Owns(r)'
    BY <1>1, <1>3, <1>11 DEF Owns, RowOf
  <2>2. ResultFits(r)'
    BY <1>2, <1>9, <1>11, <1>12 DEF ResultFits
  <2>. QED
    BY <1>1, <1>3, <2>1, <2>2 DEF Fits
<1>14. TypeOK'
  <2>1. attempts' \in [Claim -> Seq(Attempt)]
    BY <1>1, <1>3, <1>4, <1>5
  <2>2. pc' \in [Request -> Place]
    BY <1>3 DEF IInv, TypeOK, Place
  <2>3. \A q \in Request : pc'[q] # "idle" => request'[q] \in Sent
    BY <1>10, <1>13 DEF Fits
  <2>. QED
    BY <1>3, <2>1, <2>2, <2>3 DEF IInv, TypeOK, Sent
<1>15. Exclusive'
  <2>1. \A q \in Request : /\ pc'[q] # "idle" => pc[q] # "idle"
                            /\ KeyOf(q)' = KeyOf(q) /\ ClaimOf(q)' = ClaimOf(q)
    BY <1>1, <1>3, <1>9 DEF KeyOf, BodyOf, ClaimOf
  <2>. QED
    BY <2>1 DEF IInv, Exclusive
<1>16. AnswersAreAttempts'
  BY <1>3, <1>7 DEF IInv, AnswersAreAttempts
<1>. QED
  BY <1>10, <1>13, <1>14, <1>15, <1>16 DEF IInv

\* A request ends, and may have changed the row of its key.
LEMMA EndedInvariant ==
  ASSUME IInv, NEW r \in Request, pc[r] # "idle", Answers(r), UNCHANGED attempts,
         NEW row \in RowOver(Body, ClaimView),
         rows' = [rows EXCEPT ![ClaimOf(r)] = [@ EXCEPT ![KeyOf(r)] = row]],
         AnswersAreAttempts'
  PROVE  IInv'
<1>1. ClaimOf(r) \in Claim /\ KeyOf(r) \in Key
  BY RunningType
<1>2. rows' \in [Claim -> RegisterOver(Body, ClaimView)]
  BY <1>1 DEF IInv, TypeOK, RegisterOver
<1>3. \A c \in Claim, k \in Key : ~(c = ClaimOf(r) /\ k = KeyOf(r)) => rows'[c][k] = rows[c][k]
  BY <1>1 DEF IInv, TypeOK, RegisterOver
<1>4. /\ pc' \in [Request -> Place] /\ pc'[r] = "idle"
      /\ request' \in [Request -> [key : Key \cup {None}, body : Body \cup {None}, result : Result]]
      /\ \A q \in Request : q # r => pc'[q] = pc[q] /\ request'[q] = request[q]
  BY NoRequestType DEF IInv, TypeOK, Answers, Goes, Place
<1>5. ASSUME NEW q \in Request, q # r PROVE Fits(q)'
  <2>1. pc[q] # "idle" => rows'[ClaimOf(q)][KeyOf(q)] = RowOf(q)
    BY <1>3, <1>5, RunningType DEF IInv, Exclusive, RowOf
  <2>. QED
    BY <1>4, <1>5, <2>1, OthersFit
<1>6. Fits(r)'
  BY <1>4 DEF Fits
<1>7. TypeOK'
  <2>1. \A q \in Request : pc'[q] # "idle" => request'[q] \in Sent
    BY <1>5, <1>6 DEF Fits
  <2>. QED
    BY <1>2, <1>4, <2>1 DEF IInv, TypeOK, Sent
<1>8. Exclusive'
  <2>1. \A q \in Request : pc'[q] # "idle" =>
          pc[q] # "idle" /\ KeyOf(q)' = KeyOf(q) /\ ClaimOf(q)' = ClaimOf(q)
    BY <1>4 DEF KeyOf, BodyOf, ClaimOf
  <2>. QED
    BY <2>1 DEF IInv, Exclusive
<1>. QED
  BY <1>5, <1>6, <1>7, <1>8 DEF IInv

LEMMA RecordInvariant ==
  ASSUME IInv, NEW r \in Request, Record(r)
  PROVE  IInv'
<1> DEFINE c == ClaimOf(r)
           k == KeyOf(r)
           row == [status |-> "completed", body |-> BodyOf(r), answer |-> AnswerOf(r)]
<1>1. /\ pc[r] = "recording" /\ c \in Claim /\ k \in Key /\ BodyOf(r) \in Body
      /\ ResultOf(r) \in Result /\ Owns(r) /\ ResultFits(r)
  BY RunningType DEF Record
<1>2. /\ Loads(BodyOf(r)) /\ Succeeded(ResultOf(r)) /\ Kept(r)
      /\ DOMAIN ResultOf(r).stances = BodyOf(r).evidence
  BY <1>1 DEF ResultFits
<1>3. MayComplete(rows[c], k, BodyOf(r))
  BY <1>1 DEF Owns, RowOf, MayComplete
<1>4. rows[c] \in RegisterOver(Body, ClaimView)
  BY <1>1 DEF IInv, TypeOK
<1>5. AnswerOf(r) \in ClaimView
  BY <1>1, <1>2 DEF AnswerOf, ClaimView, Succeeded, Result
<1>6. rows' = [rows EXCEPT ![ClaimOf(r)] = [@ EXCEPT ![KeyOf(r)] = row]]
  <2>1. rows[c][k].status = "pending"
    BY <1>1 DEF Owns, RowOf
  <2>2. Completed(rows[c], k, BodyOf(r), AnswerOf(r)) = [rows[c] EXCEPT ![k] = row]
    BY <1>3, <2>1 DEF Completed
  <2>. QED
    BY <2>2 DEF Record
<1>7. row \in RowOver(Body, ClaimView)
  BY <1>1, <1>5 DEF RowOver
<1>8. UNCHANGED attempts /\ Answers(r)
  BY <1>3 DEF Record
<1>9. AnswersAreAttempts'
  <2>1. rows'[c][k] = row
    BY <1>1, <1>4, <1>6 DEF RegisterOver, IInv, TypeOK
  <2>2. ASSUME NEW d \in Claim, NEW j \in Key, ~(d = c /\ j = k)
        PROVE  rows'[d][j] = rows[d][j]
    BY <1>1, <1>4, <1>6, <2>2 DEF RegisterOver, IInv, TypeOK
  <2>3. /\ DOMAIN row.answer.stances = row.body.evidence
        /\ \A e \in row.body.evidence : IntroducedAt[e] <= row.body.stage
        /\ \E i \in DOMAIN attempts[c] :
             /\ attempts[c][i].by = k
             /\ attempts[c][i].verdict = row.answer.verdict
             /\ attempts[c][i].stances = row.answer.stances
    BY <1>2 DEF Loads, Kept, AnswerOf
  <2>. QED
    BY <1>8, <2>1, <2>2, <2>3 DEF IInv, AnswersAreAttempts
<1>. QED
  BY <1>1, <1>6, <1>7, <1>8, <1>9, EndedInvariant

LEMMA AbortInvariant ==
  ASSUME IInv, NEW r \in Request, Abort(r)
  PROVE  IInv'
<1> DEFINE c == ClaimOf(r)
           k == KeyOf(r)
<1>1. pc[r] # "idle" /\ c \in Claim /\ k \in Key /\ BodyOf(r) \in Body /\ Owns(r)
  BY RunningType DEF Abort
<1>2. rows[c] \in RegisterOver(Body, ClaimView)
  BY <1>1 DEF IInv, TypeOK
<1>3. rows' = [rows EXCEPT ![ClaimOf(r)] = [@ EXCEPT ![KeyOf(r)] = NoRow]]
  <2>1. Aborted(rows[c], k, BodyOf(r)) = [rows[c] EXCEPT ![k] = NoRow]
    BY <1>1 DEF Aborted, MayComplete, Owns, RowOf
  <2>. QED
    BY <2>1 DEF Abort
<1>4. NoRow \in RowOver(Body, ClaimView)
  BY DEF NoRow, RowOver
<1>5. AnswersAreAttempts'
  <2>1. \A d \in Claim, j \in Key : rows'[d][j] = rows[d][j] \/ rows'[d][j] = NoRow
    BY <1>1, <1>2, <1>3 DEF RegisterOver, IInv, TypeOK
  <2>2. NoRow.status # "completed"
    BY DEF NoRow
  <2>3. UNCHANGED attempts
    BY DEF Abort
  <2>. QED
    BY <2>1, <2>2, <2>3 DEF IInv, AnswersAreAttempts
<1>. QED
  BY <1>1, <1>3, <1>4, <1>5, EndedInvariant DEF Abort

-----------------------------------------------------------------------------
LEMMA CrashInvariant == IInv /\ Crash => IInv'
<1>. SUFFICES ASSUME IInv, Crash PROVE IInv'
  OBVIOUS
<1>1. \A r \in Request : pc'[r] = "idle"
  BY DEF Crash
<1>2. TypeOK'
  BY NoRequestType DEF IInv, TypeOK, Crash, Place
<1>3. AnswersAreAttempts'
  BY DEF IInv, AnswersAreAttempts, Crash
<1>. QED
  BY <1>1, <1>2, <1>3 DEF IInv, Fits, Exclusive

LEMMA StepInvariant == IInv /\ [Next]_vars => IInv'
<1>. SUFFICES ASSUME IInv, [Next]_vars PROVE IInv'
  OBVIOUS
<1>1. ASSUME UNCHANGED vars PROVE IInv'
  <2>1. TypeOK'
    BY <1>1 DEF vars, IInv, TypeOK
  <2>2. \A r \in Request : Fits(r)'
    BY <1>1 DEF vars, IInv, Fits, Sent, Owns, RowOf, ResultFits, Kept, KeyOf, BodyOf, ClaimOf,
         ResultOf
  <2>3. Exclusive'
    BY <1>1 DEF vars, IInv, Exclusive, ClaimOf, BodyOf, KeyOf
  <2>4. AnswersAreAttempts'
    BY <1>1 DEF vars, IInv, AnswersAreAttempts
  <2>. QED
    BY <2>1, <2>2, <2>3, <2>4 DEF IInv
<1>2. ASSUME NEW r \in Request, NEW k \in Key, NEW b \in Body,
             Begin(r, k, b) \/ AnswerFromRegister(r, k, b)
      PROVE  IInv'
  BY <1>1, <1>2, BeginInvariant DEF AnswerFromRegister
<1>3. ASSUME NEW r \in Request, Refuse(r) PROVE IInv'
  BY <1>3, RefuseInvariant DEF Refuse
<1>4. ASSUME NEW r \in Request, StoreError(r) PROVE IInv'
  BY <1>4, RefuseInvariant DEF StoreError
<1>5. ASSUME NEW r \in Request, StoreErrorInAbort(r) PROVE IInv'
  BY <1>5, EndInvariant DEF StoreErrorInAbort
<1>6. ASSUME NEW r \in Request, NEW d \in Decision, Decide(r, d) PROVE IInv'
  BY <1>6, DecisionAssumption, DecideInvariant
<1>7. ASSUME NEW r \in Request, Shortcut(r) \/ Ask(r) \/ Miss(r) PROVE IInv'
  BY <1>7, ShortcutInvariant, AskInvariant, MissInvariant
<1>8. ASSUME NEW r \in Request, Persist(r) \/ Record(r) \/ Abort(r) PROVE IInv'
  BY <1>8, PersistInvariant, RecordInvariant, AbortInvariant
<1>9. CASE \E r \in Request : \E k \in Key, b \in Body : Begin(r, k, b) \/ AnswerFromRegister(r, k, b)
  BY <1>2, <1>9
<1>10. CASE \E r \in Request : \E d \in Decision : Decide(r, d)
  BY <1>6, <1>10
<1>11. CASE \E r \in Request : Refuse(r) \/ StoreError(r) \/ StoreErrorInAbort(r)
  BY <1>3, <1>4, <1>5, <1>11
<1>12. CASE \E r \in Request : Shortcut(r) \/ Ask(r) \/ Miss(r) \/ Persist(r) \/ Record(r) \/ Abort(r)
  BY <1>7, <1>8, <1>12
<1>. QED
  BY <1>1, <1>9, <1>10, <1>11, <1>12, CrashInvariant DEF Next

-----------------------------------------------------------------------------
(* The theorems. *)

\* The inductive invariant holds in every state.
THEOREM Invariance == Spec => []IInv
<1>1. IInv /\ [Next]_vars => IInv'
  BY StepInvariant
<1>. QED
  BY InitInvariant, <1>1, PTL DEF Spec

\* Every variable has its type, and a request that runs has a key and a body.
THEOREM TypeCorrectness == Spec => []TypeOK
<1>1. IInv => TypeOK
  BY DEF IInv
<1>. QED
  BY Invariance, <1>1, PTL

\* An answer that can be replayed is an attempt of its key that succeeded, on
\* the Evidence of the request's body, however the requests interleave.
THEOREM AnswersStand == Spec => []AnswersAreAttempts
<1>1. IInv => AnswersAreAttempts
  BY DEF IInv
<1>. QED
  BY Invariance, <1>1, PTL

\* append_verification accepts whatever the verifier returns.
THEOREM ResultsAreAccepted == Spec => []StoreTakesResults
<1>1. IInv => StoreTakesResults
  BY RunningType DEF ResultFits, StoreTakesResults
<1>. QED
  BY Invariance, <1>1, PTL

\* A key that has been answered keeps its answer, and makes no more attempts.
THEOREM AnsweredKeysAreDone == Spec => AnsweredIsDone
<1> DEFINE Done == \A c \in Claim, k \in Key : rows[c][k].status = "completed" =>
                     /\ rows'[c][k] = rows[c][k]
                     /\ \A i \in DOMAIN attempts'[c] \ DOMAIN attempts[c] : attempts'[c][i].by # k
<1>1. ASSUME IInv, NEW r \in Request, NEW k \in Key, NEW b \in Body, Begin(r, k, b)
      PROVE  Done
  <2>1. /\ b.claim \in Claim /\ rows[b.claim][k].status = "absent" /\ UNCHANGED attempts
        /\ rows[b.claim] \in RegisterOver(Body, ClaimView)
    BY <1>1, BodyType DEF IInv, TypeOK, Begin, MayBegin
  <2>2. \A c \in Claim, j \in Key : ~(c = b.claim /\ j = k) => rows'[c][j] = rows[c][j]
    BY <1>1, <2>1 DEF IInv, TypeOK, Begin, Begun, RegisterOver
  <2>. QED
    BY <2>1, <2>2
<1>2. ASSUME IInv, NEW r \in Request, Record(r) \/ Abort(r)
      PROVE  Done
  <2>1. RowOf(r).status = "pending" /\ ClaimOf(r) \in Claim /\ KeyOf(r) \in Key /\ UNCHANGED attempts
    BY <1>2, RunningType DEF Owns, Record, Abort
  <2>2. rows[ClaimOf(r)] \in RegisterOver(Body, ClaimView)
    BY <1>2, <2>1 DEF IInv, TypeOK
  <2>3. \A c \in Claim, j \in Key : ~(c = ClaimOf(r) /\ j = KeyOf(r)) => rows'[c][j] = rows[c][j]
    BY <1>2, <2>1, <2>2 DEF IInv, TypeOK, Record, Abort, Completed, Aborted, RegisterOver
  <2>. QED
    BY <2>1, <2>3 DEF RowOf
<1>3. ASSUME IInv, NEW r \in Request, Persist(r)
      PROVE  Done
  <2>1. /\ RowOf(r).status = "pending" /\ ClaimOf(r) \in Claim /\ KeyOf(r) \in Key
        /\ ResultOf(r) \in Result /\ UNCHANGED rows
    BY <1>3, RunningType DEF Owns, Persist
  <2>2. attempts[ClaimOf(r)] \in Seq(Attempt) /\ AttemptOf(r) \in Attempt /\ AttemptOf(r).by = KeyOf(r)
    BY <1>3, <2>1 DEF IInv, TypeOK, AttemptOf, Attempt, Result
  <2>3. \/ UNCHANGED attempts
        \/ attempts' = [attempts EXCEPT ![ClaimOf(r)] = Append(attempts[ClaimOf(r)], AttemptOf(r))]
    BY <1>3 DEF Persist
  <2>4. ASSUME NEW c \in Claim, NEW i \in DOMAIN attempts'[c] \ DOMAIN attempts[c]
        PROVE  c = ClaimOf(r) /\ attempts'[c][i] = AttemptOf(r)
    <3>1. attempts' = [attempts EXCEPT ![ClaimOf(r)] = Append(attempts[ClaimOf(r)], AttemptOf(r))]
      BY <2>3, <2>4
    <3>2. c = ClaimOf(r)
      BY <2>1, <2>4, <3>1 DEF IInv, TypeOK
    <3>3. attempts'[c] = Append(attempts[c], AttemptOf(r))
      BY <2>1, <3>1, <3>2 DEF IInv, TypeOK
    <3>. QED
      BY <2>2, <2>4, <3>2, <3>3
  <2>. QED
    BY <2>1, <2>2, <2>4 DEF RowOf
<1>4. ASSUME UNCHANGED <<rows, attempts>> PROVE Done
  BY <1>4
<1>5. ASSUME IInv, [Next]_vars PROVE Done
  <2>1. CASE \E r \in Request, k \in Key, b \in Body : Begin(r, k, b)
    BY <1>1, <1>5, <2>1
  <2>2. CASE \E r \in Request : Record(r) \/ Abort(r)
    BY <1>2, <1>5, <2>2
  <2>3. CASE \E r \in Request : Persist(r)
    BY <1>3, <1>5, <2>3
  <2>4. CASE UNCHANGED <<rows, attempts>>
    BY <1>4, <2>4
  <2>5. CASE UNCHANGED vars
    BY <2>4, <2>5 DEF vars
  <2>6. CASE \E r \in Request, k \in Key, b \in Body : AnswerFromRegister(r, k, b)
    BY <2>5, <2>6 DEF AnswerFromRegister
  <2>7. CASE \E r \in Request : Refuse(r) \/ Shortcut(r) \/ Ask(r) \/ Miss(r)
                                \/ StoreError(r) \/ StoreErrorInAbort(r)
    BY <2>4, <2>7 DEF Refuse, Shortcut, Ask, Miss, StoreError, StoreErrorInAbort
  <2>8. CASE \E r \in Request, d \in Decision : Decide(r, d)
    BY <2>4, <2>8 DEF Decide
  <2>9. CASE Crash
    BY <2>4, <2>9 DEF Crash
  <2>. QED
    BY <1>5, <2>1, <2>2, <2>3, <2>5, <2>6, <2>7, <2>8, <2>9 DEF Next
<1>6. IInv /\ [Next]_vars => [Done]_vars
  BY <1>5
<1>. QED
  BY Invariance, <1>6, PTL DEF Spec, AnsweredIsDone
-----------------------------------------------------------------------------
(* The verdict that stands.  IInv says nothing of what a verdict rests on:   *)
(* that is an invariant of its own, inductive relative to IInv.              *)

\* The verdict of an attempt or a result, borne out by what it cites.
Grounded(c, x) ==
  /\ x.verdict = "supported" => "supports" \in Stances(x) /\ "refutes" \notin Stances(x)
  /\ x.verdict = "refuted" => "refutes" \in Stances(x) /\ "supports" \notin Stances(x)
  /\ x.verdict = "not_applicable" <=> c \notin Checkable

Successes(c) == {i \in DOMAIN attempts[c] : Succeeded(attempts[c][i])}

SuccessesGrounded == \A c \in Claim : \A i \in Successes(c) : Grounded(c, attempts[c][i])

\* There is a last success: its attempt is the one _get_claim selects.
LastSuccess ==
  \A c \in Claim : Successes(c) # {} => \E m \in Successes(c) : \A i \in Successes(c) : i <= m

\* Only a checkable Claim reaches the model, and what it is to keep is grounded.
ResultGrounded(r) ==
  /\ pc[r] = "assessing" => ClaimOf(r) \in Checkable
  /\ pc[r] = "appending" /\ Succeeded(ResultOf(r)) => Grounded(ClaimOf(r), ResultOf(r))

GroundInv ==
  /\ SuccessesGrounded
  /\ LastSuccess
  /\ \A r \in Request : ResultGrounded(r)

LEMMA LastOne ==
  ASSUME NEW S \in SUBSET Nat, NEW m \in S, \A i \in S : i <= m
  PROVE  Max(S) \in S
<1>1. \E x \in S : \A y \in S : x >= y
  OBVIOUS
<1>. QED
  BY <1>1 DEF Max

\* What no request changes of another.
LEMMA OthersGrounded ==
  ASSUME GroundInv, NEW q \in Request,
         pc'[q] # "idle" => pc'[q] = pc[q] /\ request'[q] = request[q]
  PROVE  ResultGrounded(q)'
  BY DEF GroundInv, ResultGrounded, ClaimOf, BodyOf, ResultOf, Grounded, Stances

\* The steps that make no attempt.
LEMMA KeepsGround ==
  ASSUME GroundInv, UNCHANGED attempts, \A r \in Request : ResultGrounded(r)'
  PROVE  GroundInv'
<1>1. \A c \in Claim : Successes(c)' = Successes(c)
  BY DEF Successes
<1>2. SuccessesGrounded' /\ LastSuccess'
  BY <1>1 DEF GroundInv, SuccessesGrounded, LastSuccess, Grounded, Stances
<1>. QED
  BY <1>2 DEF GroundInv

\* A request that goes to a place where nothing is found for it.
LEMMA LeavesGround ==
  ASSUME IInv, GroundInv, NEW r \in Request, UNCHANGED attempts,
         pc'[r] \notin {"assessing", "appending"},
         \A q \in Request : q # r => pc'[q] = pc[q] /\ request'[q] = request[q]
  PROVE  GroundInv'
<1>1. ResultGrounded(r)'
  BY DEF ResultGrounded
<1>. QED
  BY <1>1, OthersGrounded, KeepsGround
\* A request that finds something grounded, or fails.
LEMMA FindsGround ==
  ASSUME IInv, GroundInv, NEW r \in Request, UNCHANGED attempts, ResultGrounded(r)',
         \A q \in Request : q # r => pc'[q] = pc[q] /\ request'[q] = request[q]
  PROVE  GroundInv'
  BY OthersGrounded, KeepsGround

LEMMA ShortcutGround ==
  ASSUME IInv, GroundInv, NEW r \in Request, Shortcut(r)
  PROVE  GroundInv'
<1> DEFINE waived == [verdict |-> "not_applicable", calls |-> 0,
                      stances |-> [e \in BodyOf(r).evidence |-> "context_only"]]
           uncited == [Undecided EXCEPT !.verdict = "insufficient_evidence"]
<1>1. pc[r] # "idle" /\ BodyOf(r) \in Body /\ BodyOf(r).evidence \in SUBSET Evidence
  BY RunningType, BodyType DEF Shortcut
<1>2. waived \in Result /\ uncited \in Result
  BY <1>1, CitationsType, UndecidedType DEF Result, Verdict, MaxAttempts
<1>3. PICK result \in {waived, uncited} :
        Finds(r, result) /\ (result.verdict = "not_applicable" <=> ClaimOf(r) \notin Checkable)
  BY DEF Shortcut, Undecided
<1>4. ResultOf(r)' = result /\ ClaimOf(r)' = ClaimOf(r)
  BY <1>1, <1>2, <1>3, FindsIt
<1>5. result.verdict \in {"not_applicable", "insufficient_evidence"}
  BY DEF Undecided
<1>6. Grounded(ClaimOf(r), result)
  BY <1>3, <1>5 DEF Grounded
<1>7. pc'[r] = "appending" /\ \A q \in Request : q # r => pc'[q] = pc[q] /\ request'[q] = request[q]
  BY <1>3 DEF IInv, TypeOK, Goes, Finds, Shortcut
<1>8. ResultGrounded(r)'
  BY <1>4, <1>6, <1>7 DEF ResultGrounded, Grounded, Stances
<1>. QED
  BY <1>7, <1>8, FindsGround DEF Shortcut

LEMMA DecideGround ==
  ASSUME IInv, GroundInv, DecisionAssumption, NEW r \in Request, NEW d \in Decision, Decide(r, d)
  PROVE  GroundInv'
<1> DEFINE result == [verdict |-> d.verdict, stances |-> d.stances, calls |-> ResultOf(r).calls + 1]
<1>1. pc[r] = "assessing" /\ ResultOf(r) \in Result /\ ResultOf(r).calls < MaxAttempts
  BY RunningType DEF Decide, ResultFits
<1>2. result \in Result
  <2>1. ResultOf(r).calls + 1 \in 0..MaxAttempts
    BY <1>1 DEF Result, MaxAttempts
  <2>. QED
    BY <2>1 DEF Result, DecisionAssumption
<1>3. ResultOf(r)' = result /\ ClaimOf(r)' = ClaimOf(r)
  BY <1>1, <1>2, FindsIt DEF Decide
<1>4. ClaimOf(r) \in Checkable
  BY <1>1 DEF GroundInv, ResultGrounded
<1>5. Stances(result) = Stances(d)
  BY DEF Stances
<1>6. Grounded(ClaimOf(r), result)
  <2>1. ValidDecision(ClaimOf(r), BodyOf(r).evidence, d) /\ result.verdict = d.verdict
    BY DEF Decide
  <2>. QED
    BY <1>4, <1>5, <2>1 DEF ValidDecision, Grounded
<1>7. pc'[r] = "appending" /\ \A q \in Request : q # r => pc'[q] = pc[q] /\ request'[q] = request[q]
  BY DEF IInv, TypeOK, Goes, Finds, Decide
<1>8. ResultGrounded(r)'
  BY <1>3, <1>6, <1>7 DEF ResultGrounded, Grounded, Stances
<1>. QED
  BY <1>7, <1>8, FindsGround DEF Decide

LEMMA MissGround ==
  ASSUME IInv, GroundInv, NEW r \in Request, Miss(r)
  PROVE  GroundInv'
<1> DEFINE n == ResultOf(r).calls + 1
           result == [Undecided EXCEPT !.calls = n]
<1>1. pc[r] = "assessing" /\ ResultOf(r) \in Result /\ ResultOf(r).calls < MaxAttempts
  BY RunningType DEF Miss, ResultFits
<1>2. result \in Result /\ result.verdict = None
  <2>1. n \in 0..MaxAttempts
    BY <1>1 DEF Result, MaxAttempts
  <2>. QED
    BY <2>1, UndecidedType DEF Undecided
<1>3. ResultOf(r)' = result /\ ClaimOf(r)' = ClaimOf(r)
  BY <1>1, <1>2, FindsIt DEF Miss
<1>4. ClaimOf(r) \in Checkable
  BY <1>1 DEF GroundInv, ResultGrounded
<1>5. \A q \in Request : q # r => pc'[q] = pc[q] /\ request'[q] = request[q]
  BY DEF IInv, TypeOK, Goes, Finds, Miss
<1>6. ResultGrounded(r)'
  BY <1>2, <1>3, <1>4 DEF ResultGrounded, Succeeded
<1>. QED
  BY <1>5, <1>6, FindsGround DEF Miss

\* append_verification keeps one more attempt, grounded if it succeeded: then
\* it is the last success, and otherwise the last success is the one before.
LEMMA PersistGround ==
  ASSUME IInv, GroundInv, NEW r \in Request, Persist(r)
  PROVE  GroundInv'
<1>0. PICK c \in Claim : c = ClaimOf(r)
  BY RunningType DEF Persist
<1> DEFINE n == Len(attempts[c]) + 1
<1>1. /\ pc[r] = "appending" /\ KeyOf(r) \in Key /\ ResultOf(r) \in Result
      /\ Accepts(c, ResultOf(r))
  BY <1>0, RunningType DEF Persist, ResultFits
<1>2. AttemptOf(r) \in Attempt
  BY <1>1 DEF AttemptOf, Attempt, Result
<1>3. attempts \in [Claim -> Seq(Attempt)] /\ attempts[c] \in Seq(Attempt)
  BY DEF IInv, TypeOK
<1>4. attempts' = [attempts EXCEPT ![c] = Append(@, AttemptOf(r))]
  BY <1>0, <1>1 DEF Persist
<1>5. /\ attempts'[c] = Append(attempts[c], AttemptOf(r))
      /\ \A d \in Claim : d # c => attempts'[d] = attempts[d]
  BY <1>1, <1>3, <1>4
<1>6. /\ DOMAIN attempts[c] = 1..Len(attempts[c]) /\ DOMAIN attempts'[c] = 1..n /\ n \in Nat
      /\ attempts'[c][n] = AttemptOf(r) /\ Len(attempts[c]) \in Nat
      /\ \A i \in 1..Len(attempts[c]) : attempts'[c][i] = attempts[c][i]
  BY <1>2, <1>3, <1>5
<1>7. Successes(c)' = Successes(c) \cup {i \in {n} : Succeeded(AttemptOf(r))}
  BY <1>6 DEF Successes, Succeeded
<1>8. \A d \in Claim : d # c => Successes(d)' = Successes(d)
  BY <1>5 DEF Successes, Succeeded
<1>9. Succeeded(AttemptOf(r)) => Grounded(c, AttemptOf(r))
  <2>1. AttemptOf(r).verdict = ResultOf(r).verdict /\ AttemptOf(r).stances = ResultOf(r).stances
    BY DEF AttemptOf
  <2>. QED
    BY <1>0, <1>1, <2>1 DEF GroundInv, ResultGrounded, Succeeded, Grounded, Stances
<1>10. SuccessesGrounded'
  <2>1. ASSUME NEW d \in Claim, NEW i \in Successes(d)'
        PROVE  Grounded(d, attempts'[d][i])
    <3>1. CASE d # c
      BY <1>5, <1>8, <2>1, <3>1 DEF GroundInv, SuccessesGrounded
    <3>2. CASE d = c /\ i \in Successes(c)
      <4>1. attempts'[c][i] = attempts[c][i]
        BY <1>6, <3>2 DEF Successes
      <4>. QED
        BY <1>1, <3>2, <4>1 DEF GroundInv, SuccessesGrounded
    <3>3. CASE d = c /\ i = n /\ Succeeded(AttemptOf(r))
      BY <1>6, <1>9, <3>3
    <3>. QED
      BY <1>7, <2>1, <3>1, <3>2, <3>3
  <2>. QED
    BY <2>1 DEF SuccessesGrounded, Grounded, Stances
<1>11. LastSuccess'
  <2>1. ASSUME NEW d \in Claim, Successes(d)' # {}
        PROVE  \E m \in Successes(d)' : \A i \in Successes(d)' : i <= m
    <3>1. CASE d # c
      BY <1>8, <2>1, <3>1 DEF GroundInv, LastSuccess
    <3>2. CASE d = c /\ Succeeded(AttemptOf(r))
      <4>1. n \in Successes(c)'
        BY <1>7, <3>2
      <4>2. \A i \in Successes(c)' : i <= n
        <5>1. Successes(c)' \subseteq 1..n
          BY <1>6 DEF Successes
        <5>. QED
          BY <1>6, <5>1
      <4>. QED
        BY <3>2, <4>1, <4>2
    <3>3. CASE d = c /\ ~Succeeded(AttemptOf(r))
      <4>1. Successes(c)' = Successes(c)
        BY <1>7, <3>3
      <4>. QED
        BY <1>1, <2>1, <3>3, <4>1 DEF GroundInv, LastSuccess
    <3>. QED
      BY <3>1, <3>2, <3>3
  <2>. QED
    BY <2>1 DEF LastSuccess
<1>12. ASSUME NEW q \in Request PROVE ResultGrounded(q)'
  <2>1. pc'[r] \notin {"assessing", "appending"} /\ (q # r => pc'[q] = pc[q]) /\ request' = request
    BY DEF IInv, TypeOK, Goes, Persist
  <2>2. CASE q = r
    BY <2>1, <2>2 DEF ResultGrounded
  <2>. QED
    BY <2>1, <2>2, OthersGrounded
<1>. QED
  BY <1>10, <1>11, <1>12 DEF GroundInv

LEMMA GroundStep == IInv /\ GroundInv /\ [Next]_vars => GroundInv'
<1>. SUFFICES ASSUME IInv, GroundInv, [Next]_vars PROVE GroundInv'
  OBVIOUS
<1>1. ASSUME UNCHANGED <<attempts, pc, request>> PROVE GroundInv'
  BY <1>1, OthersGrounded, KeepsGround
<1>2. ASSUME NEW r \in Request, NEW k \in Key, NEW b \in Body, Begin(r, k, b) PROVE GroundInv'
  BY <1>2, LeavesGround DEF IInv, TypeOK, Begin, Goes
<1>3. ASSUME NEW r \in Request, Refuse(r) \/ StoreError(r) PROVE GroundInv'
  BY <1>3, LeavesGround DEF IInv, TypeOK, Refuse, StoreError, Goes
<1>4. ASSUME NEW r \in Request, StoreErrorInAbort(r) \/ Abort(r) PROVE GroundInv'
  BY <1>4, LeavesGround DEF IInv, TypeOK, StoreErrorInAbort, Abort, Answers, Goes
<1>5. ASSUME NEW r \in Request, Record(r) PROVE GroundInv'
  BY <1>5, LeavesGround DEF IInv, TypeOK, Record, Answers, Goes
<1>6. ASSUME NEW r \in Request, Ask(r) PROVE GroundInv'
  <2>1. /\ pc'[r] = "assessing" /\ UNCHANGED <<attempts, request>> /\ ClaimOf(r) \in Checkable
        /\ \A q \in Request : q # r => pc'[q] = pc[q]
    BY <1>6 DEF IInv, TypeOK, Ask, Goes
  <2>2. ResultGrounded(r)'
    BY <2>1 DEF ResultGrounded, ClaimOf, BodyOf
  <2>. QED
    BY <2>1, <2>2, FindsGround
<1>7. ASSUME Crash PROVE GroundInv'
  BY <1>7, KeepsGround DEF Crash, ResultGrounded
<1>8. ASSUME NEW r \in Request, Shortcut(r) \/ Miss(r) \/ Persist(r) PROVE GroundInv'
  BY <1>8, ShortcutGround, MissGround, PersistGround
<1>9. ASSUME NEW r \in Request, NEW d \in Decision, Decide(r, d) PROVE GroundInv'
  BY <1>9, DecisionAssumption, DecideGround
<1>10. CASE UNCHANGED vars
  BY <1>1, <1>10 DEF vars
<1>11. CASE \E r \in Request, k \in Key, b \in Body : Begin(r, k, b) \/ AnswerFromRegister(r, k, b)
  BY <1>2, <1>10, <1>11 DEF AnswerFromRegister
<1>12. CASE \E r \in Request : Refuse(r) \/ StoreError(r) \/ StoreErrorInAbort(r) \/ Abort(r)
                              \/ Record(r) \/ Ask(r)
  BY <1>3, <1>4, <1>5, <1>6, <1>12
<1>13. CASE \E r \in Request : Shortcut(r) \/ Miss(r) \/ Persist(r)
  BY <1>8, <1>13
<1>14. CASE \E r \in Request, d \in Decision : Decide(r, d)
  BY <1>9, <1>14
<1>. QED
  BY <1>7, <1>10, <1>11, <1>12, <1>13, <1>14 DEF Next

\* Whatever attempts succeed or fail, and in whatever order they are kept, the
\* Claim that readers see has a verdict that its Evidence bears out.
THEOREM VerdictsStand == Spec => []VerdictsAreGrounded
<1>1. Init => GroundInv
  <2>1. SUFFICES ASSUME Init PROVE GroundInv
    OBVIOUS
  <2>2. \A c \in Claim : Successes(c) = {}
    BY <2>1 DEF Init, Successes
  <2>3. \A r \in Request : ResultGrounded(r)
    BY <2>1 DEF Init, ResultGrounded
  <2>. QED
    BY <2>2, <2>3 DEF GroundInv, SuccessesGrounded, LastSuccess
<1>2. IInv /\ GroundInv /\ [Next]_vars => GroundInv'
  BY GroundStep
<1>3. IInv /\ GroundInv => VerdictsAreGrounded
  <2>1. SUFFICES ASSUME IInv, GroundInv, NEW c \in Claim PROVE Grounded(c, Canonical(c))
    BY DEF VerdictsAreGrounded, Grounded
  <2>2. CASE Successes(c) = {}
    <3>1. Canonical(c) = Extracted(c)
      BY <2>2 DEF Canonical, Successes
    <3>. QED
      BY <3>1 DEF Extracted, Grounded
  <2>3. CASE Successes(c) # {}
    <3> DEFINE last == attempts[c][Max(Successes(c))]
    <3>1. Successes(c) \in SUBSET Nat
      BY <2>1 DEF Successes, IInv, TypeOK
    <3>2. Max(Successes(c)) \in Successes(c)
      BY <2>1, <2>3, <3>1, LastOne DEF GroundInv, LastSuccess
    <3>3. Grounded(c, last)
      BY <2>1, <3>2 DEF GroundInv, SuccessesGrounded
    <3>4. Canonical(c) = [verdict |-> last.verdict, stances |-> last.stances]
      BY <2>3 DEF Canonical, Successes
    <3>. QED
      BY <3>3, <3>4 DEF Grounded, Stances
  <2>. QED
    BY <2>2, <2>3
<1>. QED
  BY Invariance, <1>1, <1>2, <1>3, PTL DEF Spec
=============================================================================
