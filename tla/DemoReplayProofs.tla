-------------------------- MODULE DemoReplayProofs ---------------------------
(***************************************************************************)
(* Proofs about DemoReplay, for every fixture that FixtureAssumption       *)
(* allows and every set of products, approvals and keys.                   *)
(***************************************************************************)
EXTENDS DemoReplay, FiniteSetTheorems, TLAPS

USE FixtureAssumption, NoneAssumption

\* The rows the helpers yield.
LEMMA RowType ==
  ASSUME NEW row \in ProductRow, NEW e \in Execution, NEW s \in Stage, NEW p \in Product
  PROVE  /\ DelistedRow(row) \in ProductRow
         /\ Attempted(e, p) \in Execution
         /\ FixtureProduct(s, p) \in ProductRow
  BY DEF DelistedRow, Attempted, FixtureProduct, ProductRow, Execution

LEMMA EmptyType ==
  ASSUME NEW s \in Stage
  PROVE  /\ FixtureAgent(s) \in {"waiting_human", "waiting_follow_up"}
         /\ NothingExecuted \in [Approval -> [Product -> Execution]]
         /\ NothingRecorded \in Idempotency
         /\ NothingTold \in [approvals : [Approval -> Nat], attempts : [Approval -> [Product -> Nat]]]
  BY DEF NothingTold, FixtureAgent, NothingExecuted, NotExecuted, NothingRecorded, Idempotency, Execution

LEMMA CarriedType ==
  ASSUME TypeOK, NEW s \in Stage, NEW p \in Product
  PROVE  CarriedOver(s, p) \in ProductRow
  BY RowType DEF CarriedOver, FixtureProduct, IsDelisted, TypeOK, ProductRow

LEMMA InitType == Init => TypeOK
<1>. SUFFICES ASSUME Init PROVE TypeOK
  OBVIOUS
<1>1. 3 \in Stage
  BY DEF Stage
<1>. QED
  BY <1>1, EmptyType DEF Init, TypeOK, FixtureProduct, ProductRow

LEMMA ResetType ==
  ASSUME NEW s \in Stage, NEW sc \in {"main", "failure_retry"}, NEW confirm \in BOOLEAN,
         Reset(s, sc, confirm)
  PROVE  TypeOK'
<1>1. \A p \in Product : FixtureProduct(s, p) \in ProductRow
  BY DEF FixtureProduct, ProductRow
<1>. QED
  BY <1>1, EmptyType DEF Reset, TypeOK

LEMMA AdvanceType ==
  ASSUME TypeOK, NEW k \in Key, Advance(k)
  PROVE  TypeOK'
<1>1. stage + 1 \in Stage
  BY DEF Advance, TypeOK, Stage
<1>2. \A p \in Product : CarriedOver(stage + 1, p) \in ProductRow
  BY <1>1, CarriedType
<1>3. FixtureAgent(stage + 1) \in {"waiting_human", "waiting_follow_up"}
  BY <1>1, EmptyType
<1>4. idempotency' \in Idempotency
  BY DEF Advance, TypeOK, Idempotency
<1>. QED
  BY <1>1, <1>2, <1>3, <1>4 DEF Advance, TypeOK

LEMMA ApproveType ==
  ASSUME TypeOK, NEW a \in Approval, NEW selected \in SUBSET Product, NEW k \in Key,
         Approve(a, selected, k)
  PROVE  TypeOK'
<1>1. [version |-> CaseVersion[stage], products |-> selected] \in ApprovalRow
  BY DEF TypeOK, ApprovalRow
<1>2. approvals' \in [Approval -> ApprovalRow \cup {None}]
  BY <1>1 DEF Approve, TypeOK
<1>3. idempotency' \in Idempotency
  BY DEF Approve, TypeOK, Idempotency
<1>4. events' \in [approvals : [Approval -> Nat], attempts : [Approval -> [Product -> Nat]]]
  <2>1. [events.approvals EXCEPT ![a] = @ + 1] \in [Approval -> Nat]
    BY DEF TypeOK
  <2>2. events' = [events EXCEPT !.approvals = [events.approvals EXCEPT ![a] = @ + 1]]
    BY DEF Approve
  <2>. QED
    BY <2>1, <2>2 DEF TypeOK
<1>. QED
  BY <1>2, <1>3, <1>4 DEF Approve, TypeOK

\* What an execution does, product by product.
LEMMA ExecuteEffect ==
  ASSUME TypeOK, NEW a \in Approval, NEW k \in Key, Execute(a, k)
  PROVE  /\ approvals[a] \in ApprovalRow /\ Valid(a)
         /\ UNCHANGED <<stage, scenario, approvals>>
         /\ \A p \in Product :
              executions'[a][p] = IF p \in approvals[a].products
                                  THEN Attempted(executions[a][p], p) ELSE executions[a][p]
         /\ \A b \in Approval \ {a} : executions'[b] = executions[b]
         /\ \A p \in Product :
              products'[p] = IF /\ p \in approvals[a].products
                                /\ executions[a][p].status # "succeeded"
                                /\ executions'[a][p].status = "succeeded"
                             THEN DelistedRow(products[p]) ELSE products[p]
  BY DEF Execute, IsApproved, TypeOK

LEMMA ExecuteType ==
  ASSUME TypeOK, NEW a \in Approval, NEW k \in Key, Execute(a, k)
  PROVE  TypeOK'
<1>. DEFINE tried == {p \in approvals[a].products : executions[a][p].status # "succeeded"}
<1>1. [p \in Product |-> IF p \in tried THEN events.attempts[a][p] + 1 ELSE events.attempts[a][p]]
        \in [Product -> Nat]
  BY DEF TypeOK
<1>2. events' \in [approvals : [Approval -> Nat], attempts : [Approval -> [Product -> Nat]]]
  BY <1>1 DEF Execute, TypeOK
<1>3. products' \in [Product -> ProductRow]
  <2>1. \A p \in Product : products'[p] \in ProductRow
    BY ExecuteEffect, RowType DEF TypeOK
  <2>2. products' = [p \in Product |-> products'[p]]
    BY DEF Execute
  <2>. QED
    BY <2>1, <2>2
<1>4. executions' \in [Approval -> [Product -> Execution]]
  <2>1. \A p \in Product, e \in Execution : Attempted(e, p) \in Execution
    BY DEF Attempted, Execution
  <2>2. [p \in Product |-> IF p \in approvals[a].products THEN Attempted(executions[a][p], p)
                           ELSE executions[a][p]] \in [Product -> Execution]
    BY <2>1 DEF TypeOK
  <2>. QED
    BY <2>2 DEF Execute, TypeOK
<1>5. idempotency' \in Idempotency
  BY DEF Execute, TypeOK, Idempotency
<1>6. status' \in {"fixture", "actioned"} /\ agent' \in {"waiting_human", "waiting_follow_up"}
  BY DEF Execute, TypeOK, AgentAfter
<1>. QED
  BY <1>2, <1>3, <1>4, <1>5, <1>6 DEF Execute, TypeOK

LEMMA NextType == TypeOK /\ [Next]_vars => TypeOK'
<1>. SUFFICES ASSUME TypeOK, [Next]_vars PROVE TypeOK'
  OBVIOUS
<1>1. CASE UNCHANGED vars
  BY <1>1 DEF vars, TypeOK
<1>. QED
  BY <1>1, ResetType, AdvanceType, ApproveType, ExecuteType DEF Next

\* Every variable keeps its type, whatever the fixture.
THEOREM TypeCorrect == Spec => []TypeOK
  BY InitType, NextType, PTL DEF Spec

-----------------------------------------------------------------------------
(***************************************************************************)
(* The inductive invariant.  An approval remembers no stage: what it was   *)
(* given for is known only through its version, which is why a version     *)
(* must fix the candidates.                                                *)
(***************************************************************************)
Selectable(s, p) ==
  /\ Relation[s][p] \in {"candidate", "confirmed"}
  /\ s = 4 => p \in Stage4Products /\ Relation[s][p] = "confirmed"

\* Approvals were given at a stage reached so far, for products selectable there.
ApprovalsFit ==
  \A a \in Approval : IsApproved(a) =>
    \E s \in Stage :
      /\ s <= stage
      /\ approvals[a].version = CaseVersion[s]
      /\ \A p \in approvals[a].products : Selectable(s, p)

\* What succeeded was approved, and is delisted.
SuccessesStand ==
  \A a \in Approval, p \in Product : executions[a][p].status = "succeeded" =>
    IsApproved(a) /\ p \in approvals[a].products /\ IsDelisted(p)

\* Before stage 4 only candidates of those stages are delisted, and after it
\* all that were confirmed at stage 4.
StagesFit ==
  /\ stage <= 3 => \A p \in Product : IsDelisted(p) => \E s \in 0..3 : Relation[s][p] # "none"
  /\ stage >= 5 => \A p \in Stage4Products : IsDelisted(p)

IInv ==
  /\ TypeOK
  /\ ApprovalsFit
  /\ SuccessesStand
  /\ StagesFit
  /\ DelistedWasApproved
  /\ VersionCountsChanges
  /\ ActionedByExecution
  /\ AgentWaitsAtGate

\* A state without approvals at stage 0 or 3, as after init_schema or a reset.
LEMMA FreshInv ==
  ASSUME TypeOK, stage \in {0, 3}, status = "fixture",
         products = [p \in Product |-> FixtureProduct(stage, p)],
         approvals = [a \in Approval |-> None], executions = NothingExecuted
  PROVE  IInv
<1>1. \A p \in Product : ~IsDelisted(p) /\ products[p].version = 1
  BY DEF IsDelisted, FixtureProduct
<1>2. \A a \in Approval : ~IsApproved(a) /\ \A p \in Product : executions[a][p].status = "none"
  BY DEF IsApproved, NothingExecuted, NotExecuted
<1>3. ApprovalsFit /\ SuccessesStand
  BY <1>2 DEF ApprovalsFit, SuccessesStand
<1>4. StagesFit /\ DelistedWasApproved /\ VersionCountsChanges
  BY <1>1 DEF StagesFit, DelistedWasApproved, VersionCountsChanges
<1>5. ActionedByExecution /\ AgentWaitsAtGate
  BY DEF ActionedByExecution, AgentWaitsAtGate
<1>. QED
  BY <1>3, <1>4, <1>5 DEF IInv

LEMMA InitInv == Init => IInv
  BY InitType, FreshInv DEF Init

LEMMA ResetInv ==
  ASSUME NEW s \in Stage, NEW sc \in {"main", "failure_retry"}, NEW confirm \in BOOLEAN,
         Reset(s, sc, confirm)
  PROVE  IInv'
<1>1. TypeOK'
  BY ResetType
<1>2. \A p \in Product : ~IsDelisted(p)' /\ products'[p].version = 1
  BY DEF Reset, IsDelisted, FixtureProduct
<1>3. \A a \in Approval : ~IsApproved(a)' /\ \A p \in Product : executions'[a][p].status = "none"
  BY DEF Reset, IsApproved, NothingExecuted, NotExecuted
<1>4. ApprovalsFit' /\ SuccessesStand'
  BY <1>3 DEF ApprovalsFit, SuccessesStand
<1>5. StagesFit' /\ DelistedWasApproved' /\ VersionCountsChanges'
  BY <1>2 DEF Reset, StagesFit, DelistedWasApproved, VersionCountsChanges
<1>6. ActionedByExecution' /\ AgentWaitsAtGate'
  BY DEF Reset, ActionedByExecution, AgentWaitsAtGate
<1>. QED
  BY <1>1, <1>4, <1>5, <1>6 DEF IInv

\* The row of a product at the next stage.
LEMMA CarriedRow ==
  ASSUME VersionCountsChanges, NEW s \in Stage, NEW p \in Product
  PROVE  CarriedOver(s, p) =
           IF IsDelisted(p) \/ (s >= 5 /\ p \in Stage4Products)
           THEN [status |-> "delisted", version |-> 2]
           ELSE [status |-> "active", version |-> 1]
<1>1. CASE IsDelisted(p)
  <2>1. products[p].version = 2
    BY <1>1 DEF VersionCountsChanges
  <2>2. FixtureProduct(s, p).version = 2 \/ FixtureProduct(s, p).version = 1
    BY DEF FixtureProduct
  <2>3. CarriedOver(s, p) = [status |-> "delisted", version |-> 2]
    <3>1. CASE FixtureProduct(s, p).version = 2
      BY <1>1, <2>1, <3>1 DEF CarriedOver
    <3>2. CASE FixtureProduct(s, p).version = 1
      BY <1>1, <2>1, <3>2 DEF CarriedOver
    <3>. QED
      BY <2>2, <3>1, <3>2
  <2>. QED
    BY <1>1, <2>3
<1>2. CASE ~IsDelisted(p)
  BY <1>2 DEF CarriedOver, FixtureProduct
<1>. QED
  BY <1>1, <1>2

\* The fixture delists nothing that is not delisted already.
LEMMA AdvanceDelists ==
  ASSUME IInv, NEW k \in Key, Advance(k)
  PROVE  \A p \in Product : /\ IsDelisted(p)' <=> IsDelisted(p)
                            /\ products'[p].version = products[p].version
<1>1. \A p \in Product : products'[p] = CarriedOver(stage + 1, p)
  BY DEF Advance
<1>2. stage + 1 >= 5 => \A p \in Stage4Products : IsDelisted(p)
  BY DEF Advance, GateOpen, Delisted, IInv, StagesFit, TypeOK, Stage
<1>3. stage + 1 \in Stage /\ VersionCountsChanges
  BY DEF Advance, IInv, TypeOK, Stage
<1>4. SUFFICES ASSUME NEW p \in Product
      PROVE  (IsDelisted(p)' <=> IsDelisted(p)) /\ products'[p].version = products[p].version
  OBVIOUS
<1>5. products'[p] = CarriedOver(stage + 1, p)
  BY <1>1
<1>6. products'[p] = IF IsDelisted(p) THEN [status |-> "delisted", version |-> 2]
                     ELSE [status |-> "active", version |-> 1]
  BY <1>2, <1>3, <1>5, CarriedRow
<1>7. products[p].version = IF IsDelisted(p) THEN 2 ELSE 1
  BY <1>3 DEF VersionCountsChanges
<1>. QED
  BY <1>6, <1>7 DEF IsDelisted

LEMMA AdvanceInv ==
  ASSUME IInv, NEW k \in Key, Advance(k)
  PROVE  IInv'
<1>0. TypeOK /\ TypeOK' /\ UNCHANGED <<approvals, executions>> /\ stage \in Stage
  BY AdvanceType DEF Advance, IInv, TypeOK
<1>1. ApprovalsFit'
  BY <1>0 DEF Advance, IInv, ApprovalsFit, IsApproved, Stage
<1>2. SuccessesStand' /\ DelistedWasApproved'
  BY <1>0, AdvanceDelists DEF IInv, SuccessesStand, DelistedWasApproved, IsApproved
<1>3. StagesFit'
  <2>1. stage + 1 >= 5 => \A p \in Stage4Products : IsDelisted(p)
    BY DEF Advance, GateOpen, Delisted, IInv, StagesFit, TypeOK, Stage
  <2>. QED
    BY <1>0, <2>1, AdvanceDelists DEF Advance, IInv, StagesFit, Stage
<1>4. VersionCountsChanges'
  BY AdvanceDelists DEF IInv, VersionCountsChanges
<1>5. ActionedByExecution'
  BY DEF Advance, ActionedByExecution
<1>6. AgentWaitsAtGate'
  <2>1. SUFFICES ASSUME stage' = 4 PROVE agent' = "waiting_human" /\ ~(Stage4Products \subseteq Delisted)'
    BY DEF AgentWaitsAtGate
  <2>2. agent' = "waiting_human" /\ stage = 3
    BY <1>0, <2>1 DEF Advance, FixtureAgent, Stage
  <2>3. PICK p \in Stage4Products : \A s \in 0..3 : Relation[s][p] = "none"
    OBVIOUS
  <2>4. ~IsDelisted(p)
    BY <2>2, <2>3 DEF IInv, StagesFit
  <2>. QED
    BY <2>2, <2>4, AdvanceDelists DEF Delisted
<1>. QED
  BY <1>0, <1>1, <1>2, <1>3, <1>4, <1>5, <1>6 DEF IInv

LEMMA ApproveInv ==
  ASSUME IInv, NEW a \in Approval, NEW selected \in SUBSET Product, NEW k \in Key,
         Approve(a, selected, k)
  PROVE  IInv'
<1>0. TypeOK /\ TypeOK' /\ stage \in Stage
  BY ApproveType DEF IInv, TypeOK
<1>1. /\ UNCHANGED <<stage, status, agent, products, executions>>
      /\ approvals'[a] = [version |-> CaseVersion[stage], products |-> selected]
      /\ \A b \in Approval \ {a} : approvals'[b] = approvals[b]
      /\ ~IsApproved(a)
  BY <1>0 DEF Approve, TypeOK
<1>2. ApprovalsFit'
  <2>. SUFFICES ASSUME NEW b \in Approval, IsApproved(b)'
       PROVE  \E s \in Stage :
                /\ s <= stage'
                /\ approvals'[b].version = CaseVersion[s]
                /\ \A p \in approvals'[b].products : Selectable(s, p)
    BY DEF ApprovalsFit
  <2>1. CASE b = a
    <3>1. \A p \in selected : Selectable(stage, p)
      BY DEF Approve, Eligible, Selectable
    <3>2. stage <= stage
      BY <1>0 DEF Stage
    <3>. QED
      BY <1>0, <1>1, <2>1, <3>1, <3>2
  <2>2. CASE b # a
    BY <1>1, <2>2 DEF IInv, ApprovalsFit, IsApproved
  <2>. QED
    BY <2>1, <2>2
<1>3. SuccessesStand'
  BY <1>1 DEF IInv, SuccessesStand, IsApproved, IsDelisted
<1>4. StagesFit' /\ VersionCountsChanges' /\ AgentWaitsAtGate'
  BY <1>1 DEF IInv, StagesFit, VersionCountsChanges, AgentWaitsAtGate, IsDelisted, Delisted
<1>5. \A b \in Approval : IsApproved(b) => IsApproved(b)' /\ approvals'[b] = approvals[b]
  BY <1>1 DEF IsApproved
<1>6. DelistedWasApproved'
  BY <1>1, <1>5 DEF IInv, DelistedWasApproved, IsDelisted
<1>7. ActionedByExecution'
  BY <1>1, <1>5 DEF IInv, ActionedByExecution, Valid
<1>. QED
  BY <1>0, <1>2, <1>3, <1>4, <1>6, <1>7 DEF IInv

\* A valid approval is of products that can be selected as the Case stands,
\* though the stage may not be the one it was given at.
LEMMA ValidFits ==
  ASSUME TypeOK, ApprovalsFit, NEW a \in Approval, IsApproved(a), Valid(a)
  PROVE  \A p \in approvals[a].products : Selectable(stage, p)
<1>1. PICK s \in Stage : /\ s <= stage
                         /\ CaseVersion[s] = CaseVersion[stage]
                         /\ \A p \in approvals[a].products : Selectable(s, p)
  BY DEF ApprovalsFit, Valid
<1>2. stage \in Stage /\ 3 \in Stage /\ 4 \in Stage /\ CaseVersion[3] \in Nat /\ CaseVersion[4] \in Nat
      /\ CaseVersion[s] \in Nat
  BY DEF TypeOK, Stage
<1>3. stage = 4 => s = 4
  <2>1. ASSUME stage = 4, s # 4 PROVE FALSE
    <3>1. s <= 3
      BY <1>1, <2>1 DEF Stage
    <3>2. CaseVersion[s] <= CaseVersion[3]
      BY <1>2, <3>1
    <3>. QED
      BY <1>1, <1>2, <2>1, <3>2
  <2>. QED
    BY <2>1
<1>4. Relation[s] = Relation[stage]
  BY <1>1, <1>2
<1>. QED
  BY <1>1, <1>3, <1>4 DEF Selectable

LEMMA ExecuteInv ==
  ASSUME IInv, NEW a \in Approval, NEW k \in Key, Execute(a, k)
  PROVE  IInv'
<1>0. TypeOK /\ TypeOK' /\ stage \in Stage /\ IsApproved(a)
  BY ExecuteType DEF IInv, TypeOK, Execute
<1>1. approvals[a].products \subseteq Product
  BY <1>0, ExecuteEffect DEF ApprovalRow
<1>2. \A b \in Approval, p \in Product :
        /\ executions[b][p].status = "succeeded" => executions'[b][p].status = "succeeded"
        /\ \/ executions'[b][p].status = executions[b][p].status
           \/ b = a /\ p \in approvals[a].products
  <2>1. \A p \in Product :
          executions[a][p].status = "succeeded" => executions'[a][p] = executions[a][p]
    BY <1>0, ExecuteEffect DEF Attempted
  <2>2. \A p \in Product :
          p \notin approvals[a].products => executions'[a][p] = executions[a][p]
    BY <1>0, ExecuteEffect
  <2>3. \A b \in Approval \ {a} : executions'[b] = executions[b]
    BY <1>0, ExecuteEffect
  <2>. QED
    BY <2>1, <2>2, <2>3
<1>3. \A p \in Product :
        /\ IsDelisted(p) => IsDelisted(p)' /\ products'[p] = products[p]
        /\ ~IsDelisted(p) /\ IsDelisted(p)' =>
             /\ p \in approvals[a].products /\ executions'[a][p].status = "succeeded"
             /\ products'[p].version = products[p].version + 1
        /\ executions'[a][p].status = "succeeded" => IsDelisted(p)'
        /\ ~IsDelisted(p)' => products'[p] = products[p]
  <2>. SUFFICES ASSUME NEW p \in Product
       PROVE  /\ IsDelisted(p) => IsDelisted(p)' /\ products'[p] = products[p]
              /\ ~IsDelisted(p) /\ IsDelisted(p)' =>
                   /\ p \in approvals[a].products /\ executions'[a][p].status = "succeeded"
                   /\ products'[p].version = products[p].version + 1
              /\ executions'[a][p].status = "succeeded" => IsDelisted(p)'
              /\ ~IsDelisted(p)' => products'[p] = products[p]
    OBVIOUS
  <2>1. products[p] \in ProductRow
    BY <1>0 DEF TypeOK
  <2>2. executions[a][p].status = "succeeded" => IsDelisted(p)
    BY DEF IInv, SuccessesStand
  <2>3. p \notin approvals[a].products => executions'[a][p] = executions[a][p]
    BY <1>0, ExecuteEffect
  <2>. DEFINE tried == /\ p \in approvals[a].products
                      /\ executions[a][p].status # "succeeded"
                      /\ executions'[a][p].status = "succeeded"
  <2>4. CASE tried
    <3>1. products'[p] = DelistedRow(products[p])
      BY <1>0, <2>4, ExecuteEffect
    <3>. QED
      BY <2>1, <2>4, <3>1 DEF IsDelisted, DelistedRow, ProductRow
  <2>5. CASE ~tried
    <3>1. products'[p] = products[p]
      BY <1>0, <2>5, ExecuteEffect
    <3>2. executions'[a][p].status = "succeeded" => IsDelisted(p)
      BY <2>2, <2>3, <2>5
    <3>. QED
      BY <3>1, <3>2 DEF IsDelisted
  <2>. QED
    BY <2>4, <2>5
<1>4. ApprovalsFit'
  BY <1>0, ExecuteEffect DEF IInv, ApprovalsFit, IsApproved
<1>5. SuccessesStand'
  <2>. SUFFICES ASSUME NEW b \in Approval, NEW p \in Product,
                       executions'[b][p].status = "succeeded"
       PROVE  IsApproved(b) /\ p \in approvals[b].products /\ IsDelisted(p)'
    BY <1>0, ExecuteEffect DEF SuccessesStand, IsApproved
  <2>1. CASE executions[b][p].status = "succeeded"
    BY <1>3, <2>1 DEF IInv, SuccessesStand
  <2>2. CASE executions[b][p].status # "succeeded"
    BY <1>0, <1>2, <1>3, <2>2
  <2>. QED
    BY <2>1, <2>2
<1>6. \A p \in approvals[a].products : Selectable(stage, p)
  BY <1>0, ExecuteEffect, ValidFits DEF IInv
<1>7. StagesFit'
  <2>1. stage' = stage
    BY <1>0, ExecuteEffect
  <2>2. \A p \in Product : ~IsDelisted(p) /\ IsDelisted(p)' => Relation[stage][p] # "none"
    BY <1>3, <1>6 DEF Selectable
  <2>. QED
    BY <1>0, <1>3, <2>1, <2>2 DEF IInv, StagesFit, Stage
<1>8. DelistedWasApproved'
  <2>. SUFFICES ASSUME NEW p \in Product, IsDelisted(p)'
       PROVE  \E b \in Approval : /\ IsApproved(b)'
                                  /\ p \in approvals'[b].products
                                  /\ executions'[b][p].status = "succeeded"
    BY DEF DelistedWasApproved
  <2>1. CASE IsDelisted(p)
    BY <1>0, <1>2, <2>1, ExecuteEffect DEF IInv, DelistedWasApproved, IsApproved
  <2>2. CASE ~IsDelisted(p)
    BY <1>0, <1>3, <2>2, ExecuteEffect DEF IsApproved
  <2>. QED
    BY <2>1, <2>2
<1>9. VersionCountsChanges'
  BY <1>3 DEF IInv, VersionCountsChanges
<1>10. ActionedByExecution'
  <2>. SUFFICES ASSUME status' = "actioned"
       PROVE  \E b \in Approval, p \in Product :
                (IsApproved(b) /\ Valid(b))' /\ executions'[b][p].status = "succeeded"
    BY DEF ActionedByExecution, Valid
  <2>1. \A b \in Approval : IsApproved(b) /\ Valid(b) => (IsApproved(b) /\ Valid(b))'
    BY <1>0, ExecuteEffect DEF IsApproved, Valid
  <2>2. CASE status = "actioned"
    BY <1>2, <2>1, <2>2 DEF IInv, ActionedByExecution, Valid
  <2>3. CASE status # "actioned"
    <3>. DEFINE outcome == [p \in Product |->
                  IF p \in approvals[a].products THEN Attempted(executions[a][p], p)
                  ELSE executions[a][p]]
    <3>0. executions'[a] = outcome
      BY <1>0 DEF Execute, TypeOK
    <3>1. PICK p \in approvals[a].products : executions'[a][p].status = "succeeded"
      BY <2>3, <3>0 DEF Execute
    <3>. QED
      BY <1>0, <1>1, <2>1, <3>1, ExecuteEffect
  <2>. QED
    BY <2>2, <2>3
<1>11. AgentWaitsAtGate'
  <2>1. SUFFICES ASSUME stage = 4
        PROVE  agent' = "waiting_human" <=> ~(Stage4Products \subseteq Delisted')
    BY <1>0, ExecuteEffect DEF AgentWaitsAtGate
  <2>2. Delisted \subseteq Delisted'
    BY <1>3 DEF Delisted
  <2>. QED
    BY <1>0, <2>1, <2>2 DEF Execute, AgentAfter, IInv, AgentWaitsAtGate
<1>. QED
  BY <1>0, <1>4, <1>5, <1>7, <1>8, <1>9, <1>10, <1>11 DEF IInv

LEMMA NextInv == IInv /\ [Next]_vars => IInv'
<1>. SUFFICES ASSUME IInv, [Next]_vars PROVE IInv'
  OBVIOUS
<1>1. CASE UNCHANGED vars
  BY <1>1, NextType DEF vars, IInv, ApprovalsFit, SuccessesStand, StagesFit, DelistedWasApproved,
       VersionCountsChanges, ActionedByExecution, AgentWaitsAtGate, IsApproved, IsDelisted,
       Delisted, Valid
<1>. QED
  BY <1>1, ResetInv, AdvanceInv, ApproveInv, ExecuteInv DEF Next

THEOREM Invariance == Spec => []IInv
  BY InitInv, NextInv, PTL DEF Spec

\* No product is delisted without an approval whose execution succeeded.
THEOREM NothingDelistedUnapproved == Spec => []DelistedWasApproved
  BY Invariance, PTL DEF IInv

\* The version of a listing counts its one change.
THEOREM ListingVersions == Spec => []VersionCountsChanges
  BY Invariance, PTL DEF IInv

\* A Case is actioned on the strength of a valid, executed approval.
THEOREM ActionedCases == Spec => []ActionedByExecution
  BY Invariance, PTL DEF IInv

\* At stage 4 the agent waits for a person as long as there is something to do.
THEOREM Waiting == Spec => []AgentWaitsAtGate
  BY Invariance, PTL DEF IInv

\* Delisting and success are final until a reset.
THEOREM FinalActions == Spec => ActionsAreFinal
<1>1. ASSUME IInv, [Next]_vars
      PROVE  \/ IsReset \/ UNCHANGED vars
             \/ /\ \A p \in Product : IsDelisted(p) => IsDelisted(p)'
                /\ \A a \in Approval, p \in Product :
                     executions[a][p].status = "succeeded" => executions'[a][p] = executions[a][p]
  <2>1. ASSUME NEW s \in Stage, NEW sc \in {"main", "failure_retry"}, NEW confirm \in BOOLEAN,
               Reset(s, sc, confirm)
        PROVE  IsReset
    BY <2>1 DEF IsReset, Reset
  <2>2. ASSUME NEW k \in Key, Advance(k)
        PROVE  (\A p \in Product : IsDelisted(p) => IsDelisted(p)') /\ executions' = executions
    BY <1>1, <2>2, AdvanceDelists DEF Advance
  <2>3. ASSUME NEW a \in Approval, NEW selected \in SUBSET Product, NEW k \in Key,
               Approve(a, selected, k)
        PROVE  (\A p \in Product : IsDelisted(p) => IsDelisted(p)') /\ executions' = executions
    BY <2>3 DEF Approve, IsDelisted
  <2>4. ASSUME NEW a \in Approval, NEW k \in Key, Execute(a, k)
        PROVE  /\ \A p \in Product : IsDelisted(p) => IsDelisted(p)'
               /\ \A b \in Approval, p \in Product :
                    executions[b][p].status = "succeeded" => executions'[b][p] = executions[b][p]
    <3>1. \A p \in Product :
            executions[a][p].status = "succeeded" => executions'[a][p] = executions[a][p]
      BY <1>1, <2>4, ExecuteEffect DEF IInv, Attempted
    <3>2. \A b \in Approval \ {a} : executions'[b] = executions[b]
      BY <1>1, <2>4, ExecuteEffect DEF IInv
    <3>3. \A p \in Product : products'[p] \in {products[p], DelistedRow(products[p])}
      BY <1>1, <2>4, ExecuteEffect DEF IInv
    <3>4. \A p \in Product : IsDelisted(p) => IsDelisted(p)'
      BY <3>3 DEF IsDelisted, DelistedRow
    <3>. QED
      BY <3>1, <3>2, <3>4
  <2>. QED
    BY <1>1, <2>1, <2>2, <2>3, <2>4 DEF Next
<1>. QED
  BY <1>1, Invariance, PTL DEF Spec, ActionsAreFinal

\* A product is delisted only while the Case names it, as the gate demands.
THEOREM FittingActions == Spec => DelistingFitsCase
<1>1. ASSUME IInv, [Next]_vars, NEW p \in Product, ~IsDelisted(p), IsDelisted(p)'
      PROVE  Selectable(stage, p)
  <2>1. ~UNCHANGED vars
    BY <1>1 DEF vars, IsDelisted
  <2>2. ASSUME NEW s \in Stage, NEW sc \in {"main", "failure_retry"}, NEW confirm \in BOOLEAN,
               Reset(s, sc, confirm)
        PROVE  FALSE
    BY <1>1, <2>2 DEF Reset, IsDelisted, FixtureProduct
  <2>3. ASSUME NEW k \in Key, Advance(k)
        PROVE  FALSE
    BY <1>1, <2>3, AdvanceDelists
  <2>4. ASSUME NEW a \in Approval, NEW selected \in SUBSET Product, NEW k \in Key,
               Approve(a, selected, k)
        PROVE  FALSE
    BY <1>1, <2>4 DEF Approve, IsDelisted
  <2>5. ASSUME NEW a \in Approval, NEW k \in Key, Execute(a, k)
        PROVE  Selectable(stage, p)
    <3>1. p \in approvals[a].products
      BY <1>1, <2>5, ExecuteEffect DEF IInv, IsDelisted
    <3>2. IsApproved(a) /\ Valid(a)
      BY <2>5 DEF Execute
    <3>. QED
      BY <1>1, <3>1, <3>2, ValidFits DEF IInv
  <2>. QED
    BY <1>1, <2>1, <2>2, <2>3, <2>4, <2>5 DEF Next
<1>2. IInv /\ [Next]_vars =>
        [\A p \in Product : ~IsDelisted(p) /\ IsDelisted(p)' =>
           /\ Relation[stage][p] \in {"candidate", "confirmed"}
           /\ stage = 4 => p \in Stage4Products /\ Relation[stage][p] = "confirmed"]_vars
  BY <1>1 DEF Selectable
<1>. QED
  BY <1>2, Invariance, PTL DEF Spec, DelistingFitsCase
-----------------------------------------------------------------------------
(***************************************************************************)
(* One key, one effect.  The approvals are as many as the keys recorded    *)
(* for them because one of each is added at a time; and every execution    *)
(* attempts all that has not succeeded, which therefore has been attempted *)
(* once for every key.                                                     *)
(***************************************************************************)
Approved == {a \in Approval : IsApproved(a)}

\* The approval of a, and what executions with the keys recorded have done.
EffectFits(a) ==
  /\ IsFiniteSet(idempotency.execute[a])
  /\ events.approvals[a] = IF IsApproved(a) THEN 1 ELSE 0
  /\ ~IsApproved(a) => idempotency.execute[a] = {}
  /\ \A p \in Product :
       /\ events.attempts[a][p] = executions[a][p].attempts
       /\ executions[a][p].attempts <= Cardinality(idempotency.execute[a])
       /\ IF IsApproved(a) /\ p \in approvals[a].products
          THEN executions[a][p].status # "succeeded" =>
                 executions[a][p].attempts = Cardinality(idempotency.execute[a])
          ELSE executions[a][p] = NotExecuted

EffectInv ==
  /\ IsFiniteSet(Approved) /\ IsFiniteSet(idempotency.approve)
  /\ Cardinality(Approved) = Cardinality(idempotency.approve)
  /\ \A a \in Approval : EffectFits(a)

\* Nothing is recorded, and nothing has happened.
EmptyState ==
  /\ approvals = [a \in Approval |-> None] /\ executions = NothingExecuted
  /\ idempotency = NothingRecorded /\ events = NothingTold

LEMMA EmptyEffects == EmptyState => EffectInv
<1>. SUFFICES ASSUME EmptyState PROVE EffectInv
  OBVIOUS
<1>. USE DEF EmptyState
<1>1. \A a \in Approval : ~IsApproved(a)
  BY DEF IsApproved
<1>2. Approved = {} /\ idempotency.approve = {} /\ \A a \in Approval : idempotency.execute[a] = {}
  BY <1>1 DEF Approved, NothingRecorded
<1>3. \A a \in Approval, p \in Product :
        /\ executions[a][p] = NotExecuted /\ events.attempts[a][p] = 0 /\ events.approvals[a] = 0
        /\ executions[a][p].attempts = 0
  BY DEF NothingExecuted, NothingTold, NotExecuted
<1>4. IsFiniteSet({}) /\ Cardinality({}) = 0
  BY FS_EmptySet
<1>5. \A a \in Approval : events.approvals[a] = 0
  BY DEF NothingTold
<1>6. \A a \in Approval : EffectFits(a)
  <2>1. SUFFICES ASSUME NEW a \in Approval PROVE EffectFits(a)
    OBVIOUS
  <2>2. IsFiniteSet(idempotency.execute[a]) /\ Cardinality(idempotency.execute[a]) = 0
    BY <1>2, <1>4
  <2>3. ~IsApproved(a) /\ idempotency.execute[a] = {}
    BY <1>1, <1>2
  <2>. HIDE DEF EmptyState
  <2>. QED
    BY <1>3, <1>5, <2>2, <2>3 DEF EffectFits
<1>. QED
  BY <1>2, <1>4, <1>6 DEF EffectInv

\* An approval is added as its key is, and the others stay as they are.
LEMMA ApproveEffects ==
  ASSUME TypeOK, EffectInv, NEW a \in Approval, NEW selected \in SUBSET Product, NEW k \in Key,
         Approve(a, selected, k)
  PROVE  EffectInv'
<1>1. /\ ~IsApproved(a) /\ approvals'[a] = [version |-> CaseVersion[stage], products |-> selected]
      /\ \A b \in Approval \ {a} : approvals'[b] = approvals[b] /\ events'.approvals[b] = events.approvals[b]
      /\ events'.approvals[a] = events.approvals[a] + 1
      /\ events'.attempts = events.attempts /\ executions' = executions
      /\ idempotency'.approve = idempotency.approve \cup {k} /\ k \notin idempotency.approve
      /\ idempotency'.execute = idempotency.execute
  BY DEF Approve, TypeOK, Idempotency
<1>2. IsApproved(a)' /\ \A b \in Approval \ {a} : IsApproved(b)' <=> IsApproved(b)
  <2>1. [version |-> CaseVersion[stage], products |-> selected] \in ApprovalRow
    BY DEF TypeOK, ApprovalRow
  <2>. QED
    BY <1>1, <2>1 DEF IsApproved
<1>3. Approved' = Approved \cup {a} /\ a \notin Approved
  BY <1>1, <1>2 DEF Approved
<1>4. /\ IsFiniteSet(Approved') /\ Cardinality(Approved') = Cardinality(Approved) + 1
      /\ IsFiniteSet(idempotency'.approve)
      /\ Cardinality(idempotency'.approve) = Cardinality(idempotency.approve) + 1
  <2>1. IsFiniteSet(Approved) /\ IsFiniteSet(idempotency.approve)
    BY DEF EffectInv
  <2>2. /\ IsFiniteSet(Approved \cup {a})
        /\ Cardinality(Approved \cup {a}) = Cardinality(Approved) + 1
    BY <1>3, <2>1, FS_AddElement
  <2>3. /\ IsFiniteSet(idempotency.approve \cup {k})
        /\ Cardinality(idempotency.approve \cup {k}) = Cardinality(idempotency.approve) + 1
    BY <1>1, <2>1, FS_AddElement
  <2>. QED
    BY <1>1, <1>3, <2>2, <2>3
<1>5. EffectFits(a)'
  <2>1. /\ idempotency'.execute[a] = {} /\ events.approvals[a] = 0
        /\ \A p \in Product : executions[a][p] = NotExecuted /\ events.attempts[a][p] = 0
    BY <1>1 DEF EffectInv, EffectFits, NotExecuted
  <2>2. IsFiniteSet(idempotency'.execute[a]) /\ Cardinality(idempotency'.execute[a]) = 0
    BY <2>1, FS_EmptySet
  <2>3. NotExecuted.attempts = 0
    BY DEF NotExecuted
  <2>. QED
    BY <1>1, <1>2, <2>1, <2>2, <2>3 DEF EffectFits
<1>6. ASSUME NEW b \in Approval, b # a PROVE EffectFits(b)'
  BY <1>1, <1>2, <1>6 DEF EffectInv, EffectFits
<1>. QED
  BY <1>4, <1>5, <1>6 DEF EffectInv

\* An execution attempts every product of the approval that has not succeeded.
LEMMA ExecuteEffects ==
  ASSUME TypeOK, EffectInv, NEW a \in Approval, NEW k \in Key, Execute(a, k)
  PROVE  EffectInv'
<1> DEFINE n == Cardinality(idempotency.execute[a])
<1>1. /\ IsApproved(a) /\ k \notin idempotency.execute[a]
      /\ approvals' = approvals /\ events'.approvals = events.approvals
      /\ idempotency'.approve = idempotency.approve
      /\ idempotency'.execute[a] = idempotency.execute[a] \cup {k}
      /\ \A b \in Approval \ {a} : /\ idempotency'.execute[b] = idempotency.execute[b]
                                   /\ events'.attempts[b] = events.attempts[b]
  BY DEF Execute, TypeOK, Idempotency
<1>2. \A p \in Product : events'.attempts[a][p] =
        IF p \in approvals[a].products /\ executions[a][p].status # "succeeded"
        THEN events.attempts[a][p] + 1 ELSE events.attempts[a][p]
  BY DEF Execute, TypeOK
<1>3. \A b \in Approval : IsApproved(b)' <=> IsApproved(b)
  BY <1>1 DEF IsApproved
<1>4. IsFiniteSet(idempotency.execute[a]) /\ n \in Nat
  BY FS_CardinalityType DEF EffectInv, EffectFits
<1>5. /\ IsFiniteSet(idempotency'.execute[a])
      /\ Cardinality(idempotency'.execute[a]) = n + 1
  <2>1. idempotency'.execute[a] = idempotency.execute[a] \cup {k} /\ k \notin idempotency.execute[a]
    BY <1>1
  <2> DEFINE S == idempotency.execute[a]
  <2>2. IsFiniteSet(S)
    BY <1>4
  <2>3. IsFiniteSet(S \cup {k}) /\ Cardinality(S \cup {k}) = IF k \in S THEN Cardinality(S) ELSE Cardinality(S) + 1
    <3>. HIDE DEF S
    <3>. QED
      BY <2>2, FS_AddElement
  <2>. QED
    BY <2>1, <2>3
<1>6. EffectFits(a)'
  <2>1. EffectFits(a)
    BY DEF EffectInv
  <2>2. ASSUME NEW p \in Product
        PROVE  /\ events'.attempts[a][p] = executions'[a][p].attempts
               /\ executions'[a][p].attempts <= n + 1
               /\ p \in approvals[a].products /\ executions'[a][p].status # "succeeded" =>
                    executions'[a][p].attempts = n + 1
               /\ p \notin approvals[a].products => executions'[a][p] = NotExecuted
    <3>1. /\ events.attempts[a][p] = executions[a][p].attempts
          /\ executions[a][p].attempts <= n
          /\ p \in approvals[a].products /\ executions[a][p].status # "succeeded" =>
               executions[a][p].attempts = n
          /\ p \notin approvals[a].products => executions[a][p] = NotExecuted
      BY <1>1, <2>1 DEF EffectFits
    <3>2. executions[a][p].attempts \in Nat
      BY DEF TypeOK, Execution
    <3>3. CASE p \in approvals[a].products /\ executions[a][p].status # "succeeded"
      <4>1. executions'[a][p].attempts = executions[a][p].attempts + 1
        <5>1. executions'[a][p] = Attempted(executions[a][p], p)
          BY <3>3, ExecuteEffect
        <5>2. Attempted(executions[a][p], p).attempts = executions[a][p].attempts + 1
          BY <3>3 DEF Attempted
        <5>. QED
          BY <5>1, <5>2
      <4>2. events'.attempts[a][p] = events.attempts[a][p] + 1
        BY <1>2, <3>3
      <4>. QED
        BY <1>4, <3>1, <3>2, <3>3, <4>1, <4>2
    <3>4. CASE ~(p \in approvals[a].products /\ executions[a][p].status # "succeeded")
      <4>1. executions'[a][p] = executions[a][p]
        BY <3>4, ExecuteEffect DEF Attempted
      <4>2. events'.attempts[a][p] = events.attempts[a][p]
        BY <1>2, <3>4
      <4>. QED
        BY <1>4, <3>1, <3>2, <3>4, <4>1, <4>2
    <3>. QED
      BY <3>3, <3>4
  <2>3. IsApproved(a)' /\ events'.approvals[a] = 1
    BY <1>1, <1>3, <2>1 DEF EffectFits
  <2>. HIDE DEF n
  <2>. QED
    BY <1>1, <1>5, <2>2, <2>3 DEF EffectFits
<1>7. ASSUME NEW b \in Approval, b # a PROVE EffectFits(b)'
  <2>1. executions'[b] = executions[b]
    BY <1>7, ExecuteEffect
  <2>. QED
    BY <1>1, <1>3, <1>7, <2>1 DEF EffectInv, EffectFits
<1>8. Approved' = Approved
  BY <1>3 DEF Approved
<1>. QED
  BY <1>1, <1>6, <1>7, <1>8 DEF EffectInv

LEMMA EmptyEffectsNext == EmptyState' => EffectInv'
  BY EmptyEffects, PTL

LEMMA EffectsStep == TypeOK /\ EffectInv /\ [Next]_vars => EffectInv'
<1>. SUFFICES ASSUME TypeOK, EffectInv, [Next]_vars PROVE EffectInv'
  OBVIOUS
<1>1. ASSUME NEW s \in Stage, NEW sc \in {"main", "failure_retry"}, NEW confirm \in BOOLEAN,
             Reset(s, sc, confirm)
      PROVE  EffectInv'
  <2>1. EmptyState'
    BY <1>1 DEF Reset, EmptyState
  <2>. QED
    BY <2>1, EmptyEffectsNext
<1>2. ASSUME UNCHANGED <<approvals, executions, events, idempotency.approve, idempotency.execute>>
      PROVE  EffectInv'
  BY <1>2 DEF EffectInv, EffectFits, Approved, IsApproved
<1>3. ASSUME NEW k \in Key, Advance(k) PROVE EffectInv'
  <2>1. idempotency'.approve = idempotency.approve /\ idempotency'.execute = idempotency.execute
    BY <1>3 DEF Advance, TypeOK, Idempotency
  <2>. QED
    BY <1>2, <1>3, <2>1 DEF Advance
<1>4. CASE UNCHANGED vars
  BY <1>2, <1>4 DEF vars
<1>. QED
  BY <1>1, <1>3, <1>4, ApproveEffects, ExecuteEffects DEF Next

\* Every recorded key had one effect, which the timeline tells of once; a
\* request that repeats it has none.
THEOREM KeysHaveOneEffect == Spec => []OneEffectPerKey
<1>1. Init => EffectInv
  BY EmptyEffects DEF Init, EmptyState
<1>2. TypeOK /\ EffectInv /\ [Next]_vars => EffectInv'
  BY EffectsStep
<1>3. TypeOK /\ EffectInv => OneEffectPerKey
  <2>1. SUFFICES ASSUME TypeOK, EffectInv, NEW a \in Approval, NEW p \in Product,
                        executions[a][p].status = "failed"
        PROVE  executions[a][p].attempts = Cardinality(idempotency.execute[a])
    BY DEF EffectInv, EffectFits, OneEffectPerKey, Approved
  <2>2. executions[a][p] # NotExecuted
    BY <2>1 DEF NotExecuted
  <2>. QED
    BY <2>1, <2>2 DEF EffectInv, EffectFits
<1>. QED
  BY TypeCorrect, <1>1, <1>2, <1>3, PTL DEF Spec
=============================================================================
