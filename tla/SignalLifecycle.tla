--------------------------- MODULE SignalLifecycle ---------------------------
(***************************************************************************)
(* What component A promises about one Signal, whatever the number of      *)
(* requests, retries, database errors and restarts (SPEC.md, 10.1): it is  *)
(* analysed at most once, only an analysed Signal is handed to the Case    *)
(* service, one caller at a time tries to, and there is at most one        *)
(* successful handoff.  SignalIngestion implements this specification.     *)
(***************************************************************************)
EXTENDS Naturals

CONSTANT Source   \* the provider sources; each is the identity of its Signal

VARIABLES stage,      \* how far the Signal of each source has come
          accepted    \* how many handoffs of it the Case service has accepted

vars == <<stage, accepted>>

Stage == {"unknown", "reserved", "rejected", "ready", "claimed", "delivered"}

Init ==
  /\ stage = [s \in Source |-> "unknown"]
  /\ accepted = [s \in Source |-> 0]

Moves(s, from, to) ==
  /\ stage[s] = from
  /\ stage' = [stage EXCEPT ![s] = to]

\* A source is seen for the first time; a pure repost needs no analysis.
Arrive(s) ==
  /\ Moves(s, "unknown", "reserved") \/ Moves(s, "unknown", "ready")
  /\ UNCHANGED accepted

Analyse(s) ==
  /\ Moves(s, "reserved", "ready") \/ Moves(s, "reserved", "rejected")
  /\ UNCHANGED accepted

Claim(s) ==
  /\ Moves(s, "ready", "claimed")
  /\ UNCHANGED accepted

\* A failed handoff may be retried, but never one that was accepted.
Release(s) ==
  /\ accepted[s] = 0
  /\ Moves(s, "claimed", "ready")
  /\ UNCHANGED accepted

\* The Case service accepts the Signal; A may fail to note that it did, and
\* the Signal then stays claimed.
Accept(s) ==
  /\ accepted[s] = 0
  /\ Moves(s, "claimed", "delivered") \/ Moves(s, "claimed", "claimed")
  /\ accepted' = [accepted EXCEPT ![s] = 1]

Next ==
  \E s \in Source : Arrive(s) \/ Analyse(s) \/ Claim(s) \/ Release(s) \/ Accept(s)

Spec == Init /\ [][Next]_vars
=============================================================================
