----------------------------- MODULE EndpointsMC ----------------------------
(***************************************************************************)
(* Small instances of Endpoints for TLC.                                   *)
(***************************************************************************)
EXTENDS Documents, AccessMC

\* found is an output that no action reads.
WithoutFound == <<vars, enabled>>
=============================================================================
