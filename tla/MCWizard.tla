------------------------------ MODULE MCWizard ------------------------------
(***************************************************************************)
(* The wizard with a third change for the user of the contract flow, who   *)
(* then can edit, go back, load another dataset and meet the re-resolve.   *)
(***************************************************************************)
EXTENDS Wizard

\* Bound: the changes of the user in each flow.
MCChanges == changes <= IF flow = "contract" THEN MaxChanges ELSE MaxChanges - 1
=============================================================================
