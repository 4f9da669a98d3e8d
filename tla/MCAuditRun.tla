----------------------------- MODULE MCAuditRun -----------------------------
(* Bounded instances of AuditRun for TLC: two runs queue for one           *)
(* orchestrator with two engines whose budgets an adviser may relax.       *)
EXTENDS AuditRun

CONSTANTS r1, r2
=============================================================================
