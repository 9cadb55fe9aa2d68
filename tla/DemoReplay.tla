----------------------------- MODULE DemoReplay ------------------------------
(***************************************************************************)
(* The backend replay of the six-stage demonstration: DemoReplayStore of   *)
(* app/demo_replay.py, with the approvals of employees and the executions  *)
(* that delist simulated products.  The whole state is one row, and every  *)
(* operation is one BEGIN IMMEDIATE transaction: an action each.  A        *)
(* repeated Idempotency-Key is answered from the record, and a refused     *)
(* request (403, 404, 409, 422) is rolled back: neither changes anything.  *)
(***************************************************************************)
EXTENDS Integers, FiniteSets

CONSTANTS Product,        \* the simulated products
          Approval,       \* the approvals that uuid4 may name
          Key,            \* the Idempotency-Key values
          Relation,       \* the fixture: what the Case says of a product at a stage
          CaseVersion,    \* the fixture: the version of the Case at a stage
          Stage4Products, \* the products confirmed at stage 4
          Flaky,          \* the products that fail once in scenario failure_retry
          None

Stage == 0..6

\* The fixture.  A Case that keeps its version keeps its candidates, and
\* versions do not decrease.  Stage 4 confirms a product that was no candidate
\* before, and comes with a version of its own.
ASSUME FixtureAssumption ==
  /\ IsFiniteSet(Product)
  /\ Relation \in [Stage -> [Product -> {"none", "candidate", "confirmed", "excluded"}]]
  /\ CaseVersion \in [Stage -> Nat]
  /\ \A s, t \in Stage : s <= t => CaseVersion[s] <= CaseVersion[t]
  /\ \A s, t \in Stage : CaseVersion[s] = CaseVersion[t] => s = t \/ Relation[s] = Relation[t]
  /\ CaseVersion[3] < CaseVersion[4] /\ CaseVersion[4] < CaseVersion[5]
  /\ Stage4Products \subseteq Product
  /\ \E p \in Stage4Products : \A s \in 0..3 : Relation[s][p] = "none"

VARIABLES stage, scenario,
          status,       \* of the Case: the one of the fixture, or "actioned"
          agent,        \* the state of the agent's observation
          products, approvals, executions,
          idempotency,  \* the keys recorded, by operation
          events        \* how often the timeline tells of each approval and attempt

vars == <<stage, scenario, status, agent, products, approvals, executions,
          idempotency, events>>

ProductRow == [status : {"active", "delisted"}, version : Nat]
ApprovalRow == [version : Nat, products : SUBSET Product]
ASSUME NoneAssumption == None \notin ApprovalRow

Execution == [status : {"none", "failed", "succeeded"}, attempts : Nat]
Idempotency == [advance : SUBSET Key, approve : SUBSET Key, execute : [Approval -> SUBSET Key]]

TypeOK ==
  /\ stage \in Stage
  /\ scenario \in {"main", "failure_retry"}
  /\ status \in {"fixture", "actioned"}
  /\ agent \in {"waiting_human", "waiting_follow_up"}
  /\ products \in [Product -> ProductRow]
  /\ approvals \in [Approval -> ApprovalRow \cup {None}]
  /\ executions \in [Approval -> [Product -> Execution]]
  /\ idempotency \in Idempotency
  /\ events \in [approvals : [Approval -> Nat], attempts : [Approval -> [Product -> Nat]]]

-----------------------------------------------------------------------------
\* The fixture's products and observations.

FixtureProduct(s, p) ==
  IF s >= 5 /\ p \in Stage4Products
  THEN [status |-> "delisted", version |-> 2]
  ELSE [status |-> "active", version |-> 1]

FixtureAgent(s) == IF s \in {4, 5} THEN "waiting_human" ELSE "waiting_follow_up"

NotExecuted == [status |-> "none", attempts |-> 0]

NothingExecuted == [a \in Approval |-> [p \in Product |-> NotExecuted]]

NothingTold ==
  [approvals |-> [a \in Approval |-> 0],
   attempts |-> [a \in Approval |-> [p \in Product |-> 0]]]

NothingRecorded == [advance |-> {}, approve |-> {}, execute |-> [a \in Approval |-> {}]]

\* init_schema: the replay is set up at stage 3.
Init ==
  /\ stage = 3
  /\ scenario = "main"
  /\ status = "fixture"
  /\ agent = FixtureAgent(3)
  /\ products = [p \in Product |-> FixtureProduct(3, p)]
  /\ approvals = [a \in Approval |-> None]
  /\ executions = NothingExecuted
  /\ idempotency = NothingRecorded
  /\ events = NothingTold

-----------------------------------------------------------------------------
\* Helpers.

IsApproved(a) == approvals[a] # None
IsDelisted(p) == products[p].status = "delisted"
Delisted == {p \in Product : IsDelisted(p)}

\* advance: a delisted product stays delisted, at no lower a version.
CarriedOver(s, p) ==
  LET saved == FixtureProduct(s, p) IN
    IF IsDelisted(p)
    THEN [status |-> "delisted",
          version |-> IF saved.version >= products[p].version
                      THEN saved.version ELSE products[p].version]
    ELSE saved

\* Mutant: the gate of stage 4 is left open.
GateIgnored == TRUE

\* advance leaves stage 4 only when all its products are delisted.
GateOpen == stage = 4 => Stage4Products \subseteq Delisted

\* Mutant: at stage 4, candidates that are not confirmed can be selected too.
EligibleAsElsewhere(p) ==
  Relation[stage][p] \in {"candidate", "confirmed"} /\ ~IsDelisted(p)

\* approve: the products an employee may select.
Eligible(p) ==
  /\ Relation[stage][p] \in {"candidate", "confirmed"}
  /\ ~IsDelisted(p)
  /\ stage = 4 => p \in Stage4Products /\ Relation[stage][p] = "confirmed"

\* Mutant: an approval is good for every later version of the Case.
ValidLater(a) == approvals[a].version <= CaseVersion[stage]

\* execute: the approval is of the Case as it stands.
Valid(a) == approvals[a].version = CaseVersion[stage]

FailsOnce(p) == scenario = "failure_retry" /\ p \in Flaky

\* Mutant: the outcome of a failure is not written.
AttemptedPending(e, p) ==
  IF e.status = "succeeded" THEN e
  ELSE [status |-> IF FailsOnce(p) /\ e.attempts = 0 THEN "pending" ELSE "succeeded",
        attempts |-> e.attempts + 1]

\* Mutant: an execution that succeeded is attempted again.
AttemptedAgain(e, p) ==
  [status |-> IF FailsOnce(p) /\ e.attempts = 0 THEN "failed" ELSE "succeeded",
   attempts |-> e.attempts + 1]

\* execute, for one product of the approval.
Attempted(e, p) ==
  IF e.status = "succeeded" THEN e
  ELSE [status |-> IF FailsOnce(p) /\ e.attempts = 0 THEN "failed" ELSE "succeeded",
        attempts |-> e.attempts + 1]

\* Mutant: the version goes up although nothing is delisted.
DelistedAgain(row) == [status |-> "delisted", version |-> row.version + 1]

DelistedRow(row) ==
  IF row.status = "active" THEN [status |-> "delisted", version |-> row.version + 1] ELSE row

\* Mutant: one product delisted at stage 4 is enough.
AgentAfterAny(done) ==
  IF stage = 4 /\ Stage4Products \cap done # {} THEN "waiting_follow_up" ELSE agent

\* execute: at stage 4 the agent waits for a person until all is done.
AgentAfter(done) ==
  IF stage = 4 /\ Stage4Products \subseteq done THEN "waiting_follow_up" ELSE agent

-----------------------------------------------------------------------------
\* The operations.

\* Stages 0 and 3 can be reset to, with a confirmation if there is anything
\* to lose; everything that clients did is forgotten.
Reset(s, sc, confirm) ==
  /\ s \in {0, 3}
  /\ (\E a \in Approval : IsApproved(a)) => confirm
  /\ stage' = s
  /\ scenario' = sc
  /\ status' = "fixture"
  /\ agent' = FixtureAgent(s)
  /\ products' = [p \in Product |-> FixtureProduct(s, p)]
  /\ approvals' = [a \in Approval |-> None]
  /\ executions' = NothingExecuted
  /\ idempotency' = NothingRecorded
  /\ events' = NothingTold

\* The replay goes on to the next stage; expected_stage is the present one.
Advance(k) ==
  /\ k \notin idempotency.advance
  /\ stage < 6
  /\ GateOpen
  /\ stage' = stage + 1
  /\ status' = "fixture"
  /\ agent' = FixtureAgent(stage + 1)
  /\ products' = [p \in Product |-> CarriedOver(stage + 1, p)]
  /\ idempotency' = [idempotency EXCEPT !.advance = @ \cup {k}]
  /\ UNCHANGED <<scenario, approvals, executions, events>>

\* Mutant: the approval is recorded, but not its key.
ApproveUnrecorded(a, selected, k) ==
  /\ k \notin idempotency.approve
  /\ stage # 0
  /\ selected # {} /\ \A p \in selected : Eligible(p)
  /\ ~IsApproved(a)
  /\ approvals' = [approvals EXCEPT ![a] = [version |-> CaseVersion[stage], products |-> selected]]
  /\ events' = [events EXCEPT !.approvals[a] = @ + 1]
  /\ UNCHANGED <<stage, scenario, status, agent, products, executions, idempotency>>

\* An employee approves products for the version of the Case that was reviewed.
Approve(a, selected, k) ==
  /\ k \notin idempotency.approve
  /\ stage # 0
  /\ selected # {} /\ \A p \in selected : Eligible(p)
  /\ ~IsApproved(a)
  /\ approvals' = [approvals EXCEPT ![a] = [version |-> CaseVersion[stage], products |-> selected]]
  /\ events' = [events EXCEPT !.approvals[a] = @ + 1]
  /\ idempotency' = [idempotency EXCEPT !.approve = @ \cup {k}]
  /\ UNCHANGED <<stage, scenario, status, agent, products, executions>>

\* The products of an approval are delisted, one by one; those that fail can
\* be tried again with another key.
Execute(a, k) ==
  LET selected == approvals[a].products
      outcome == [p \in Product |-> IF p \in selected THEN Attempted(executions[a][p], p)
                                                    ELSE executions[a][p]]
      tried == {p \in selected : executions[a][p].status # "succeeded"}
  IN /\ IsApproved(a)
     /\ k \notin idempotency.execute[a]
     /\ Valid(a)
     /\ executions' = [executions EXCEPT ![a] = outcome]
     /\ products' = [p \in Product |->
          IF p \in tried /\ outcome[p].status = "succeeded" THEN DelistedRow(products[p])
          ELSE products[p]]
     /\ status' = IF \E p \in selected : outcome[p].status = "succeeded"
                  THEN "actioned" ELSE status
     /\ agent' = AgentAfter(Delisted')
     /\ idempotency' = [idempotency EXCEPT !.execute[a] = @ \cup {k}]
     /\ events' = [events EXCEPT !.attempts[a] =
                     [p \in Product |-> IF p \in tried THEN @[p] + 1 ELSE @[p]]]
     /\ UNCHANGED <<stage, scenario, approvals>>

Next ==
  \/ \E s \in Stage, sc \in {"main", "failure_retry"}, confirm \in BOOLEAN : Reset(s, sc, confirm)
  \/ \E k \in Key :
       \/ Advance(k)
       \/ \E a \in Approval :
            Execute(a, k) \/ \E selected \in SUBSET Product : Approve(a, selected, k)

Spec == Init /\ [][Next]_vars

-----------------------------------------------------------------------------
(* Safety. *)

\* No product is ever delisted unless an employee approved it and the
\* execution of that approval succeeded; that the fixture of stages 5 and 6
\* lists products as delisted is no exception.
DelistedWasApproved ==
  \A p \in Product : IsDelisted(p) =>
    \E a \in Approval :
      /\ IsApproved(a)
      /\ p \in approvals[a].products
      /\ executions[a][p].status = "succeeded"

\* At stage 4 the agent waits for a person exactly as long as a confirmed
\* product is listed, however many were delisted before and in whatever order.
AgentWaitsAtGate ==
  stage = 4 => (agent = "waiting_human" <=> ~(Stage4Products \subseteq Delisted))

\* Overlapping approvals, retries and fixtures change a listing once: its
\* version is 1 until it is delisted and 2 from then on.
VersionCountsChanges ==
  \A p \in Product : products[p].version = IF IsDelisted(p) THEN 2 ELSE 1

\* The Case is "actioned" only on the strength of an execution that succeeded
\* under an approval of its present version.
ActionedByExecution ==
  status = "actioned" =>
    \E a \in Approval, p \in Product :
      /\ IsApproved(a)
      /\ approvals[a].version = CaseVersion[stage]
      /\ executions[a][p].status = "succeeded"

\* One key, one effect: there are as many approvals, and as many attempts at a
\* product that failed, as keys were recorded for them; a retry with a
\* recorded key adds none, and the timeline tells of every approval and attempt once.
OneEffectPerKey ==
  /\ Cardinality({a \in Approval : IsApproved(a)}) = Cardinality(idempotency.approve)
  /\ \A a \in Approval :
       /\ events.approvals[a] = IF IsApproved(a) THEN 1 ELSE 0
       /\ \A p \in Product :
            /\ events.attempts[a][p] = executions[a][p].attempts
            /\ executions[a][p].attempts <= Cardinality(idempotency.execute[a])
            /\ executions[a][p].status = "failed" =>
                 executions[a][p].attempts = Cardinality(idempotency.execute[a])

IsReset == \E s \in Stage, sc \in {"main", "failure_retry"} : Reset(s, sc, TRUE)

\* What was delisted stays so, and what succeeded is never tried again, until
\* the replay is reset.
ActionsAreFinal ==
  [][\/ IsReset
     \/ /\ \A p \in Product : IsDelisted(p) => IsDelisted(p)'
        /\ \A a \in Approval, p \in Product :
             executions[a][p].status = "succeeded" => executions'[a][p] = executions[a][p]]_vars

\* A product is delisted only while the Case, as it stands at that moment,
\* names it; and at stage 4 only if it is confirmed.
DelistingFitsCase ==
  [][\A p \in Product : ~IsDelisted(p) /\ IsDelisted(p)' =>
       /\ Relation[stage][p] \in {"candidate", "confirmed"}
       /\ stage = 4 => p \in Stage4Products /\ Relation[stage][p] = "confirmed"]_vars
=============================================================================
