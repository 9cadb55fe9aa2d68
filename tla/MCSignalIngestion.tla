-------------------------- MODULE MCSignalIngestion --------------------------
(***************************************************************************)
(* SignalIngestion on a small instance of three sources.  Clients post s1 *)
(* and s2 as reports and as reposts of each other, s1 also as a malformed  *)
(* report that names an original, and s3 as a repost of s2, which is a     *)
(* repost of a repost when s2 came as one.                                 *)
(***************************************************************************)
EXTENDS SignalIngestion, TLC

CONSTANTS s1, s2, s3

Report(s) == [source |-> s, relation |-> "report", original |-> None]
Repost(s, o) == [source |-> s, relation |-> "repost", original |-> o]

MCSource == {s1, s2, s3}

MCBody ==
  {Report(s1), Report(s2), Repost(s1, s2), Repost(s2, s1), Repost(s3, s2),
   [source |-> s1, relation |-> "report", original |-> s2]}

\* Keys are interchangeable, and so are requests.
Symmetry == Permutations(Key) \cup Permutations(Request)
=============================================================================
