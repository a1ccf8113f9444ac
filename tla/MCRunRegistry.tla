---------------------------- MODULE MCRunRegistry ----------------------------
(***************************************************************************)
(* Two callers of run_registry.transition, for TLC.                        *)
(***************************************************************************)
EXTENDS RunRegistry

CONSTANTS c1, c2

MCCallers == {c1, c2}

==============================================================================
