-------------------------- MODULE MC_IntegrationRun --------------------------
(* Every way of calling the script; the bounds of its loops come from the   *)
(* configuration.                                                           *)
EXTENDS IntegrationRun
=============================================================================
