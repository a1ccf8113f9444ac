----------------------------- MODULE RunRegistry -----------------------------
(***************************************************************************)
(* The run registry as it runs.  transition() reads the status, checks the *)
(* edge and then writes, over a sqlite3 connection in Python's default     *)
(* isolation mode: the SELECT runs in autocommit and the transaction only  *)
(* begins at the UPDATE.  A caller (a worker thread, the event loop, a     *)
(* threadpool request, the watchdog) can therefore be between its read and *)
(* its write while another caller writes.                                  *)
(*                                                                         *)
(* pending[c] is the target c has found legal and is about to write.       *)
(***************************************************************************)
EXTENDS RunStates

CONSTANT Callers

VARIABLES status, pending

vars == <<status, pending>>

\* c is not between the read and the write of a transition.
NotMoving == "not_moving"

TypeOK ==
  /\ status \in RunState \union {NoRow}
  /\ pending \in [Callers -> RunState \union {NotMoving}]

Init ==
  /\ status = NoRow
  /\ pending = [c \in Callers |-> NotMoving]

Create(c) ==
  /\ status = NoRow
  /\ status' = "created"
  /\ UNCHANGED pending

\* The SELECT and the check; an illegal edge raises and changes nothing.
ReadStatus(c, to) ==
  /\ pending[c] = NotMoving
  /\ Legal(status, to)
  /\ pending' = [pending EXCEPT ![c] = to]
  /\ UNCHANGED status

\* The UPDATE: unconditional, whatever the status has become meanwhile.
WriteStatus(c) ==
  /\ pending[c] # NotMoving
  /\ status' = pending[c]
  /\ pending' = [pending EXCEPT ![c] = NotMoving]

\* An exception between the two rolls back and ends the caller's attempt.
Abandon(c) ==
  /\ pending' = [pending EXCEPT ![c] = NotMoving]
  /\ UNCHANGED status

\* The process stops, every caller is gone, and sweep_orphans runs at boot.
Restart ==
  /\ pending' = [c \in Callers |-> NotMoving]
  /\ status' = IF status \in OrphanStates THEN "failed" ELSE status

Next ==
  \/ \E c \in Callers : Create(c) \/ WriteStatus(c) \/ Abandon(c)
  \/ \E c \in Callers, to \in RunState : ReadStatus(c, to)
  \/ Restart

Spec == Init /\ [][Next]_vars

------------------------------------------------------------------------------

Lifecycle == INSTANCE RunLifecycle

\* transition()'s docstring: it "validates the edge against _TRANSITIONS, writes
\* the new status, and appends one row to run_transitions (audit trail), all in
\* a single transaction".  It does with one caller, not with two.
AtomicTransitions == Lifecycle!Spec

==============================================================================
