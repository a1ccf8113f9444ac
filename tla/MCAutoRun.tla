------------------------------ MODULE MCAutoRun ------------------------------
(***************************************************************************)
(* Small instances of AutoRun for TLC.                                     *)
(***************************************************************************)
EXTENDS AutoRun, TLC

CONSTANTS t1, t2, d1

MCThreads == {t1, t2}
MCOneDeleter == {d1}
MCNoDeleter == {}

\* The second of two batches finds no rows on either side; or every batch has
\* rows.
MCLastEmpty == {1}
MCNoneEmpty == {}

\* Worker threads are interchangeable.  Used with invariants only.
MCSymmetry == Permutations(MCThreads)

\* A DELETE may be under way with workers, requests and exceptions, but not after
\* a restart and not beside a tick of the watchdog that discards the same run.
MCOneTrouble ==
  /\ restarts > 0 => \A d \in Deleters : discarder[d] = "idle"
  /\ \A d \in Deleters : discarder[d] = "idle" \/ discarder["watchdog"] = "idle"

==============================================================================
