------------------------------ MODULE MCPlanRuns ------------------------------
(***************************************************************************)
(* PlanRuns on a small instance: one visitor more than the limiter has     *)
(* buckets, one request more than there are slots, and a Timeout that is   *)
(* just the TTL.  Liveness is checked, so nothing is taken as symmetric.   *)
(***************************************************************************)
EXTENDS PlanRuns
=============================================================================
