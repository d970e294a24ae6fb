------------------------------ MODULE MCService -----------------------------
(***************************************************************************)
(* Two launches of the service and two admin processes.                    *)
(***************************************************************************)
EXTENDS Service
=============================================================================
