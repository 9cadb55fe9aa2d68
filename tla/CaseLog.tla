------------------------------- MODULE CaseLog -------------------------------
(***************************************************************************)
(* What component B promises about its Cases, whatever the number of       *)
(* concurrent requests, retries and restarts: a Signal joins one Case and  *)
(* stays there, a repost joins the Case of its original, and a Case is an  *)
(* append-only sequence of revisions, each of which covers the Claims of   *)
(* every Signal that had joined.  CaseService implements it.               *)
(***************************************************************************)
EXTENDS Sequences

CONSTANTS Signal,     \* the Signals clients dispatch
          Case,       \* the identities of Cases
          Original,   \* the original of each pure repost, None for the others
          None

VARIABLES log,       \* the revisions of each Case: the Signals whose Claims it covers
          member     \* the Case each Signal has joined

vars == <<log, member>>

Covered(c) == IF log[c] = <<>> THEN {} ELSE log[c][Len(log[c])]

Revised(c, claims) == log' = [log EXCEPT ![c] = Append(@, claims)]

Joins(s, c) ==
  /\ member[s] = None
  /\ member' = [member EXCEPT ![s] = c]

Init ==
  /\ log = [c \in Case |-> <<>>]
  /\ member = [s \in Signal |-> None]

\* A Signal opens a Case, or is added to one, with a revision that covers it.
Join(s, c) ==
  /\ Original[s] = None
  /\ Joins(s, c)
  /\ Revised(c, Covered(c) \cup {s})

\* A pure repost adds no Claim and no revision.
Attach(s, c) ==
  /\ Original[s] # None
  /\ member[Original[s]] = c
  /\ Joins(s, c)
  /\ UNCHANGED log

\* The Case is assessed again with what it has.
Reassess(c) ==
  /\ log[c] # <<>>
  /\ Revised(c, Covered(c))
  /\ UNCHANGED member

Next ==
  \E c \in Case : Reassess(c) \/ \E s \in Signal : Join(s, c) \/ Attach(s, c)

Spec == Init /\ [][Next]_vars
=============================================================================
