---------------------------- MODULE MCCaseService ----------------------------
(***************************************************************************)
(* CaseService on small instances: two reports and a pure repost of the    *)
(* first one, or one report and its repost.  Every key saves at most one   *)
(* revision, so the keys bound the versions.                               *)
(***************************************************************************)
EXTENDS CaseService, TLC

CONSTANTS s1, s2, s3

MCSignal == {s1, s2, s3}
MCOriginal == [s \in MCSignal |-> IF s = s3 THEN s1 ELSE None]

FewSignals == {s1, s3}
FewOriginal == [s \in FewSignals |-> IF s = s3 THEN s1 ELSE None]

\* Left out of a state where only observations matter: the answers, which are
\* history, and the revisions, which no guard reads.
ObservationView == <<cases, timeline, links, operations, observed, calls, inflight>>

\* Keys, requests and Cases are interchangeable.
FewSymmetry == Permutations(Key) \cup Permutations(Request)
Symmetry == Permutations(Key) \cup Permutations(Request) \cup Permutations(Case)
=============================================================================
