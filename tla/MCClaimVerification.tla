------------------------- MODULE MCClaimVerification -------------------------
(***************************************************************************)
(* ClaimVerification on a small instance: a checkable Claim and one of     *)
(* kind experience; two pieces of Evidence of stage 5, asked for in time   *)
(* and too early.                                                          *)
(***************************************************************************)
EXTENDS ClaimVerification, TLC

CONSTANTS fact, experience, e1, e2

MCClaim == {fact, experience}
MCStored == {fact, experience}
MCCheckable == {fact}
MCEvidence == {e1, e2}
MCIntroducedAt == [e \in {e1, e2} |-> 5]

Asks(c, cited, stage) == [claim |-> c, evidence |-> cited, stage |-> stage]

MCBody ==
  {Asks(fact, {}, 4), Asks(fact, {e1, e2}, 5), Asks(fact, {e1, e2}, 4),
   Asks(experience, {e1}, 5)}

\* A verdict for the Claim, one against it and an undecided one; and decisions
\* that are refused: over a conflict, unbacked, not_applicable, or incomplete.
Assesses(verdict, x, y) == [verdict |-> verdict, stances |-> (e1 :> x) @@ (e2 :> y)]

MCDecision ==
  {Assesses("supported", "supports", "context_only"),
   Assesses("refuted", "refutes", "refutes"),
   Assesses("insufficient_evidence", "supports", "refutes"),
   Assesses("supported", "supports", "refutes"),
   Assesses("refuted", "context_only", "context_only"),
   Assesses("not_applicable", "context_only", "context_only"),
   [verdict |-> "supported", stances |-> (e1 :> "supports")]}

\* Keys are interchangeable, and so are requests.
Symmetry == Permutations(Key) \cup Permutations(Request)
=============================================================================
