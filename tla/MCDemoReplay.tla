---------------------------- MODULE MCDemoReplay -----------------------------
(***************************************************************************)
(* DemoReplay with a part of contracts/fixtures/demo/backend_replay.json:  *)
(* prod_001 (a candidate from stage 1, confirmed at 4), prod_005           *)
(* (confirmed at 4), prod_002 (a candidate that is never confirmed),       *)
(* and prod_007 (a candidate from stage 5, which fails once).              *)
(***************************************************************************)
EXTENDS DemoReplay, TLC

CONSTANTS p1, p2, p5, p7

MCProduct == {p1, p2, p5, p7}
MCStage4Products == {p1, p5}
MCFlaky == {p7}

MCCaseVersion == (0 :> 0) @@ (1 :> 1) @@ (2 :> 1) @@ (3 :> 2) @@ (4 :> 3) @@ (5 :> 4) @@ (6 :> 5)

MCRelation ==
  [s \in Stage |-> [p \in MCProduct |->
    IF s \in 1..3 /\ p \in {p1, p2} THEN "candidate"
    ELSE IF s = 0 \/ s \in 1..3 THEN "none"
    ELSE IF p \in {p1, p5} THEN "confirmed"
    ELSE IF p = p2 \/ s \in {5, 6} THEN "candidate"
    ELSE "none"]]

Symmetry == Permutations(Key) \cup Permutations(Approval)
=============================================================================
