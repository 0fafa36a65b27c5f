-------------------------- MODULE MCDiscoveryRuns --------------------------
(***************************************************************************)
(* DiscoveryRuns on a small instance: two executions, and one hunt that its*)
(* owner starts or the daily job opens.                                    *)
(***************************************************************************)
EXTENDS DiscoveryRuns, TLC

=============================================================================
