----------------------------- MODULE MCSignalDesk -----------------------------
(***************************************************************************)
(* SignalDesk on a small instance: two reports and a pure repost of the    *)
(* first one, posted by ingestion requests that come one after the other,  *)
(* while a client uses the Case endpoints.                                 *)
(***************************************************************************)
EXTENDS SignalDesk, TLC

CONSTANTS s1, s2, s3

MCSource == {s1, s2, s3}
MCOriginal == [s \in MCSource |-> IF s = s2 THEN s1 ELSE None]

\* Left out of a state: the histories, the timeline (all times are the same)
\* and the revisions but the last, which no guard and no property here reads.
View ==
  <<rows, signals, pc, request, [c \in Case |-> <<cases[c].version, cases[c].claims>>],
    links, operations, observed, calls, inflight, verdict, held, early>>

\* Keys are interchangeable among themselves, and so are requests and Cases.
Symmetry ==
  Permutations(Key) \cup Permutations(CaseKey) \cup Permutations(Ingest)
    \cup Permutations(Client) \cup Permutations(Case)
=============================================================================
