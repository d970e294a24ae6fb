---------------------------- MODULE MCOsHandlers ----------------------------
(***************************************************************************)
(* Two daemon processes, the service and a `serve` in the foreground, and  *)
(* two Windows sessions.                                                   *)
(***************************************************************************)
EXTENDS OsHandlers, TLC

Symmetry == Permutations(Process) \cup Permutations(Session)
=============================================================================
