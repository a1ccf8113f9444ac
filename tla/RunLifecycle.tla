---------------------------- MODULE RunLifecycle ----------------------------
(***************************************************************************)
(* What run_registry promises of one run's status: it is created once, and *)
(* every later change follows one edge of the transition table, checked    *)
(* and written "in a single transaction".  The boot-time sweep is an edge  *)
(* like any other.  This is the abstract specification that the concurrent *)
(* registry (RunRegistry) and the Auto-run pipeline (AutoRun) are compared *)
(* with.                                                                   *)
(***************************************************************************)
EXTENDS RunStates

VARIABLE status

Init == status = NoRow

\* pipeline_run_store.create inserts the row.
Create == status = NoRow /\ status' = "created"

\* run_registry.transition, as its docstring describes it.
Move == \E to \in RunState : Legal(status, to) /\ status' = to

Next == Create \/ Move

Spec == Init /\ [][Next]_status

==============================================================================
