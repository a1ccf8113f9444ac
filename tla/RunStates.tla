------------------------------ MODULE RunStates ------------------------------
(***************************************************************************)
(* The lifecycle states of an Auto-mode run and the edges between them, as *)
(* declared in backend/recon_engine/run_registry.py.  The names are the    *)
(* strings stored in pipeline_runs.status.                                 *)
(***************************************************************************)

\* There is no pipeline_runs row for this run yet.
NoRow == "none"

RunState ==
  { "created", "running", "waiting_for_input", "cancelling", "suspending",
    "suspended", "completed", "failed", "cancelled" }

\* States in which something is still expected to happen to the run.
ActiveStates == {"running", "waiting_for_input", "cancelling", "suspending"}

TerminalStates == {"completed", "cancelled"}

\* States the boot-time sweep takes as "the process died mid-run".
OrphanStates == {"running", "cancelling", "suspending"}

\* Mutant: a suspended run cannot be discarded.
LegalNoDiscard(from, to) ==
  \/ from = "created"           /\ to \in {"running", "cancelled"}
  \/ from = "running"           /\ to \in {"waiting_for_input", "cancelling",
                                           "suspending", "completed", "failed"}
  \/ from = "waiting_for_input" /\ to \in {"running", "cancelling", "failed"}
  \/ from = "cancelling"        /\ to \in {"cancelled", "failed"}
  \/ from = "suspending"        /\ to \in {"suspended", "cancelled", "failed"}
  \/ from = "suspended"         /\ to = "running"
  \/ from = "failed"            /\ to \in {"running", "suspended"}

\* The edges of _TRANSITIONS: to is a legal target from from.
Legal(from, to) ==
  \/ from = "created"           /\ to \in {"running", "cancelled"}
  \/ from = "running"           /\ to \in {"waiting_for_input", "cancelling",
                                           "suspending", "completed", "failed"}
  \/ from = "waiting_for_input" /\ to \in {"running", "cancelling", "failed"}
  \/ from = "cancelling"        /\ to \in {"cancelled", "failed"}
  \/ from = "suspending"        /\ to \in {"suspended", "cancelled", "failed"}
  \/ from = "suspended"         /\ to \in {"running", "cancelled"}
  \/ from = "failed"            /\ to \in {"running", "suspended"}

==============================================================================
