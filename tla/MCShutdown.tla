----------------------------- MODULE MCShutdown -----------------------------
(***************************************************************************)
(* Shutdown on small instances, for TLC.                                   *)
(***************************************************************************)
EXTENDS Shutdown

CONSTANTS admin, docs

TwoSides == <<admin, docs>>

=============================================================================
