---------------------------- MODULE MCDeployment ----------------------------
(***************************************************************************)
(* An instance of Deployment for TLC: two processes and two requests, that *)
(* the same or different processes may take.                               *)
(***************************************************************************)
EXTENDS Deployment
=============================================================================
